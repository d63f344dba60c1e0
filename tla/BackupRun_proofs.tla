-------------------------- MODULE BackupRun_proofs ---------------------------
(***************************************************************************)
(* Theorems about BackupRun for every number of directories and slots, any *)
(* set of retry requests and any number of faults: how many commands a run *)
(* can create, which result it may adopt after its end, and what a cancel  *)
(* finds at work.                                                          *)
(***************************************************************************)
EXTENDS BackupRun, TLAPS, FiniteSetTheorems

-----------------------------------------------------------------------------
(* The inductive invariant                                                 *)

Command == [attempt : 1..MaxCommands, status : Live \cup Outcome, revived : BOOLEAN]

Pend(row) == IF row.status \in {"none", "pending"} THEN 1 ELSE 0
Tried(row) == IF row.retry >= 1 THEN 1 ELSE 0

\* Requests that have saved their row: each gives one directory a further turn.
Saved == {r \in Requests : retrier[r].pc \in {"retry", "done", "dead"}}

\* A command is created once in every turn of a directory.  The turns are the first
\* one, the one that the orchestrator grants to a row it has not retried before, and
\* one for each of the s requests that have saved.
Fits(row, cmds, s) ==
    /\ row \in Row /\ cmds \in Seq(Command)
    /\ row.cmd <= Len(cmds)
    /\ Len(cmds) + Pend(row) <= 1 + s + Tried(row)
    /\ row.retry <= 1 + s

\* Attempts are numbered in the order of their commands, and the number that the next
\* command of a pending row will get is still free.
Numbered(row, cmds) ==
    /\ \A a, b \in 1..Len(cmds) : a < b => cmds[a].attempt < cmds[b].attempt
    /\ \A a \in 1..Len(cmds) : cmds[a].attempt + Pend(row) <= row.retry + 1

RowsFit == \A d \in Dir : Fits(dir[d], command[d], Cardinality(Saved))
RowsNumbered == "request" \notin overtaken => \A d \in Dir : Numbered(dir[d], command[d])

Retriers == [pc : {"idle", "save", "retry", "done", "dead"}, dir : Dir, row : Row,
             ended : BOOLEAN]
Cancellers == [pc : {"idle", "read", "directories", "dead"}, seen : [Dir -> Nat],
               left : SUBSET Dir]

RequestsOK ==
    /\ retrier \in [Requests -> Retriers]
    /\ \A r \in Requests : retrier[r].row.retry <= 1 + Cardinality(Saved)
    /\ canceller \in Cancellers
    /\ \A d \in Dir : canceller.seen[d] <= Len(command[d])

Writers == {"request", "queue"}

Shapes ==
    /\ task \in {"pending", "running"} \cup Ended
    /\ snapshot \in {"creating", "available", "partial", "failed"}
    /\ dir \in [Dir -> Row] /\ command \in [Dir -> Seq(Command)]
    /\ queueTried \in BOOLEAN /\ overtaken \in SUBSET Writers
    /\ faults \in 0..MaxFaults

IInv == Shapes /\ RequestsOK /\ RowsFit /\ RowsNumbered

-----------------------------------------------------------------------------
(* Rows and commands                                                       *)

LEMMA Sizes ==
    /\ Cardinality(Requests) \in Nat /\ Cardinality(Saved) \in Nat
    /\ Cardinality(Saved) <= Cardinality(Requests)
    /\ MaxCommands \in Nat /\ MaxCommands = 2 + Cardinality(Requests)
<1>1. IsFiniteSet(Requests) /\ Saved \subseteq Requests
    BY BoundsAssumption DEF Saved
<1>2. Cardinality(Requests) \in Nat
    BY <1>1, FS_CardinalityType
<1>3. Cardinality(Saved) \in Nat /\ Cardinality(Saved) <= Cardinality(Requests)
    BY <1>1, FS_Subset, FS_CardinalityType
<1> QED BY <1>2, <1>3 DEF MaxCommands

\* What may change about a directory without touching its turns and attempts.
Keeps(row, cmds, row2, cmds2) ==
    /\ row2 \in Row /\ cmds2 \in Seq(Command) /\ Len(cmds2) = Len(cmds)
    /\ row2.cmd <= Len(cmds) /\ row2.retry = row.retry /\ Pend(row2) <= Pend(row)
    /\ \A a \in 1..Len(cmds) : cmds2[a].attempt = cmds[a].attempt

LEMMA KeepsFit ==
    ASSUME NEW row, NEW cmds, NEW row2, NEW cmds2, NEW s \in Nat,
           Fits(row, cmds, s), Keeps(row, cmds, row2, cmds2)
    PROVE  Fits(row2, cmds2, s) /\ (Numbered(row, cmds) => Numbered(row2, cmds2))
<1>1. Len(cmds) \in Nat /\ row.retry \in Nat /\ row2.retry \in Nat
    BY Sizes DEF Fits, Keeps, Row
<1>2. Pend(row) \in Nat /\ Pend(row2) \in Nat /\ Tried(row) \in Nat /\ Tried(row2) = Tried(row)
    BY DEF Pend, Tried, Keeps
<1>3. Fits(row2, cmds2, s)
    BY <1>1, <1>2 DEF Fits, Keeps
<1>4. ASSUME Numbered(row, cmds) PROVE Numbered(row2, cmds2)
  <2>1. \A a \in 1..Len(cmds) : cmds[a].attempt \in Nat /\ cmds2[a].attempt = cmds[a].attempt
    <3>1. \A a \in 1..Len(cmds) : cmds[a] \in Command
        BY DEF Fits
    <3>2. \A c \in Command : c.attempt \in Nat
        BY Sizes DEF Command
    <3> QED BY <3>1, <3>2 DEF Keeps
  <2>2. \A a \in 1..Len(cmds) : cmds[a].attempt + Pend(row2) <= row2.retry + 1
      BY <1>1, <1>2, <1>4, <2>1 DEF Numbered, Keeps
  <2> QED BY <1>4, <2>1, <2>2 DEF Numbered, Keeps
<1> QED BY <1>3, <1>4

LEMMA KeepsSame ==
    ASSUME NEW row \in Row, NEW cmds \in Seq(Command), NEW row2 \in Row, row.cmd <= Len(cmds),
           row2.status = row.status, row2.cmd = row.cmd, row2.retry = row.retry
    PROVE  Keeps(row, cmds, row2, cmds)
BY DEF Keeps, Pend

\* A command that changes its status keeps its number.
LEMMA SetOne ==
    ASSUME NEW cmds \in Seq(Command), NEW a \in 1..Len(cmds), NEW st \in Live \cup Outcome,
           NEW cmds2, cmds2 = [cmds EXCEPT ![a] = [cmds[a] EXCEPT !.status = st]]
    PROVE  /\ cmds2 \in Seq(Command) /\ Len(cmds2) = Len(cmds)
           /\ \A b \in 1..Len(cmds) : cmds2[b].attempt = cmds[b].attempt
<1> DEFINE k == [cmds EXCEPT ![a] = [cmds[a] EXCEPT !.status = st]]
<1>1. cmds[a] \in Command
    OBVIOUS
<1>2. [cmds[a] EXCEPT !.status = st] \in Command /\ [cmds[a] EXCEPT !.status = st].attempt = cmds[a].attempt
    BY <1>1 DEF Command
<1> HIDE DEF Command
<1>3. k \in Seq(Command) /\ Len(k) = Len(cmds)
    BY <1>2
<1>4. \A b \in 1..Len(cmds) : k[b] = IF b = a THEN [cmds[a] EXCEPT !.status = st] ELSE cmds[b]
    OBVIOUS
<1> QED BY <1>2, <1>3, <1>4

-----------------------------------------------------------------------------
(* What advance_backup does to a row                                       *)

\* A row that changes neither what it has tried nor its turn.
LEMMA RowChange ==
    ASSUME NEW row \in Row, NEW st \in InProgress \cup {"none", "available", "failed", "cancelled"},
           NEW e \in Error, NEW b \in BOOLEAN
    PROVE  /\ [row EXCEPT !.status = st] \in Row
           /\ [row EXCEPT !.error = e] \in Row
           /\ [row EXCEPT !.status = st, !.error = e] \in Row
           /\ [row EXCEPT !.stopAsked = b] \in Row
           /\ [row EXCEPT !.error = e, !.stopAsked = b] \in Row
           /\ [row EXCEPT !.status = st, !.error = e, !.stopAsked = b] \in Row
BY DEF Row

LEMMA ErrorType == \A st : ErrorOf(st) \in Error
BY DEF ErrorOf, Error, Adoptable, Stale

\* A command as the loops find it: one that exists, or none.
LEMMA CurrentType ==
    ASSUME Shapes, NEW d \in Dir, NEW row \in Row, row.cmd <= Len(command[d]),
           Len(command[d]) <= MaxCommands
    PROVE  /\ CurrentOf(d, row) \in 0..Len(command[d]) /\ CurrentOf(d, row) \in 0..MaxCommands
           /\ StatusOf(d, row) # "none" => CurrentOf(d, row) # 0
<1>1. Len(command[d]) \in Nat /\ row.cmd \in Nat
    BY Sizes DEF Shapes, Row
<1> QED BY <1>1, Sizes DEF CurrentOf, StatusOf

LEMMA FitsBound ==
    ASSUME NEW row, NEW cmds, Fits(row, cmds, Cardinality(Saved))
    PROVE  /\ Len(cmds) \in Nat /\ Len(cmds) + Pend(row) <= MaxCommands
           /\ row.retry \in Nat /\ row.cmd \in Nat /\ Pend(row) \in {0, 1} /\ Tried(row) \in {0, 1}
<1>1. Len(cmds) \in Nat /\ row.retry \in Nat /\ row.cmd \in Nat
    BY Sizes DEF Fits, Row
<1>2. Pend(row) \in {0, 1} /\ Tried(row) \in {0, 1}
    BY DEF Pend, Tried
<1> QED BY <1>1, <1>2, Sizes DEF Fits

LEMMA RefreshKeeps ==
    ASSUME NEW d \in Dir, NEW row \in Row, NEW cmds \in Seq(Command), row.cmd <= Len(cmds)
    PROVE  Keeps(row, cmds, Refresh(d, row), cmds)
<1>1. Refresh(d, row) = row \/ \E e \in Error : Refresh(d, row) = [row EXCEPT !.error = e]
    BY ErrorType DEF Refresh
<1>2. ASSUME NEW e \in Error PROVE Keeps(row, cmds, [row EXCEPT !.error = e], cmds)
  <2> DEFINE x == [row EXCEPT !.error = e]
  <2>1. x \in Row /\ x.status = row.status /\ x.cmd = row.cmd /\ x.retry = row.retry
    <3>1. x \in Row
        BY RowChange
    <3>2. x.status = row.status /\ x.cmd = row.cmd /\ x.retry = row.retry
        BY DEF Row
    <3> QED BY <3>1, <3>2
  <2> HIDE DEF x
  <2> QED BY <2>1, KeepsSame DEF x
<1>3. Keeps(row, cmds, row, cmds)
    BY KeepsSame
<1> QED BY <1>1, <1>2, <1>3

\* A row that leaves its turn, and may be bound to a command that exists.
LEMMA KeepsLeaving ==
    ASSUME NEW row \in Row, NEW cmds \in Seq(Command), NEW row2 \in Row,
           row2.cmd <= Len(cmds), row2.retry = row.retry,
           row2.status = row.status \/ row2.status \notin {"none", "pending"}
              \/ (row.status \in {"none", "pending"} /\ row2.status \in {"none", "pending"})
    PROVE  Keeps(row, cmds, row2, cmds)
BY DEF Keeps, Pend

LEMMA RequeueType ==
    ASSUME NEW row \in Row, NEW e \in Error, row.retry + 1 <= MaxCommands - 1
    PROVE  /\ Requeue(row, e) \in Row
           /\ Requeue(row, e).status = "pending" /\ Requeue(row, e).cmd = 0
           /\ Requeue(row, e).retry = row.retry + 1
<1> DEFINE x == Requeue(row, e)
<1>1. row.retry \in Nat /\ row.retry + 1 \in 0..(MaxCommands - 1)
    BY Sizes DEF Row
<1>2. x.status = "pending" /\ x.cmd = 0 /\ x.retry = row.retry + 1
    BY DEF Requeue, Row
<1>3. x = [row EXCEPT !.status = "pending", !.cmd = 0, !.retry = row.retry + 1, !.error = e,
                      !.stopAsked = FALSE]
    BY DEF Requeue
<1>4. "pending" \in InProgress /\ 0 \in 0..MaxCommands
    BY Sizes DEF InProgress
<1>5. x \in Row
    BY <1>1, <1>3, <1>4 DEF Row
<1> QED BY <1>2, <1>5

(* The orchestrator gives a row that it has not retried a further turn.    *)
LEMMA RequeueFits ==
    ASSUME NEW row, NEW cmds, NEW e \in Error, Fits(row, cmds, Cardinality(Saved)), row.retry < 1
    PROVE  /\ Fits(Requeue(row, e), cmds, Cardinality(Saved))
           /\ Numbered(row, cmds) => Numbered(Requeue(row, e), cmds)
<1> DEFINE x == Requeue(row, e)
<1>0. row \in Row /\ row.retry = 0 /\ Len(cmds) \in Nat
    BY FitsBound DEF Fits
<1>1. x.status = "pending" /\ x.cmd = 0 /\ x.retry = 1
    BY <1>0, RequeueType, Sizes
<1>2. x \in Row
    BY <1>0, RequeueType, Sizes
<1> HIDE DEF x
<1>3. Pend(x) = 1 /\ Tried(x) = 1 /\ Tried(row) = 0
    BY <1>0, <1>1 DEF Pend, Tried
<1>4. Fits(x, cmds, Cardinality(Saved))
  <2>1. Pend(row) \in {0, 1} /\ Cardinality(Saved) \in Nat
      BY Sizes DEF Pend
  <2> QED BY <1>0, <1>1, <1>2, <1>3, <2>1 DEF Fits
<1>5. ASSUME Numbered(row, cmds) PROVE Numbered(x, cmds)
  <2>1. \A a \in 1..Len(cmds) : cmds[a].attempt \in Nat
    <3>1. \A a \in 1..Len(cmds) : cmds[a] \in Command
        BY DEF Fits
    <3>2. \A c \in Command : c.attempt \in Nat
        BY Sizes DEF Command
    <3> QED BY <3>1, <3>2
  <2>2. Pend(row) \in {0, 1}
      BY DEF Pend
  <2> QED BY <1>0, <1>1, <1>3, <1>5, <2>1, <2>2 DEF Numbered
<1> QED BY <1>4, <1>5 DEF x

LEMMA NewCommandType ==
    ASSUME NEW row \in Row
    PROVE  NewCommand(row) \in Command /\ NewCommand(row).attempt = row.retry + 1
<1>1. row.retry \in Nat /\ row.retry + 1 \in 1..MaxCommands
    BY Sizes DEF Row
<1>2. "pending" \in Live \cup Outcome
    BY DEF Live
<1> QED BY <1>1, <1>2 DEF NewCommand, Command

(* A row in its turn gets a command, and the turn is over.                 *)
Granting(row, cmds) == [row EXCEPT !.cmd = Len(cmds) + 1, !.status = "dispatching"]
GrantedTo(row, cmds) == Append(cmds, NewCommand(row))

LEMMA GrantFits ==
    ASSUME NEW row, NEW cmds, Fits(row, cmds, Cardinality(Saved)), row.status = "pending"
    PROVE  /\ Fits(Granting(row, cmds), GrantedTo(row, cmds), Cardinality(Saved))
           /\ Numbered(row, cmds) => Numbered(Granting(row, cmds), GrantedTo(row, cmds))
<1> DEFINE row2 == Granting(row, cmds)
           cmds2 == GrantedTo(row, cmds)
<1>a. row2 = [row EXCEPT !.cmd = Len(cmds) + 1, !.status = "dispatching"]
    BY DEF Granting
<1>b. cmds2 = Append(cmds, NewCommand(row))
    BY DEF GrantedTo
<1> HIDE DEF row2, cmds2
<1>0. row \in Row /\ cmds \in Seq(Command) /\ Pend(row) = 1
    BY DEF Fits, Pend
<1>1. Len(cmds) + 1 \in 0..MaxCommands /\ Len(cmds) \in Nat
    BY <1>0, FitsBound
<1>2. row2 \in Row
  <2>1. "dispatching" \in InProgress
      BY DEF InProgress
  <2> QED BY <1>0, <1>1, <1>a, <2>1 DEF Row
<1>3. row2.cmd = Len(cmds) + 1 /\ row2.status = "dispatching" /\ row2.retry = row.retry
    BY <1>0, <1>a DEF Row
<1>4. NewCommand(row) \in Command /\ NewCommand(row).attempt = row.retry + 1
    BY <1>0, NewCommandType
<1>5. /\ cmds2 \in Seq(Command) /\ Len(cmds2) = Len(cmds) + 1
      /\ \A a \in 1..Len(cmds) : cmds2[a] = cmds[a]
      /\ cmds2[Len(cmds) + 1] = NewCommand(row)
    BY <1>0, <1>4, <1>b
<1>6. Pend(row2) = 0 /\ Tried(row2) = Tried(row) /\ Tried(row) \in {0, 1}
    BY <1>3 DEF Pend, Tried
<1>7. Fits(row2, cmds2, Cardinality(Saved))
    BY <1>0, <1>1, <1>2, <1>3, <1>5, <1>6, Sizes DEF Fits
<1>8. ASSUME Numbered(row, cmds) PROVE Numbered(row2, cmds2)
  <2>1. \A a \in 1..Len(cmds) : cmds[a].attempt \in Nat
    <3>1. \A a \in 1..Len(cmds) : cmds[a] \in Command
        BY <1>0
    <3>2. \A c \in Command : c.attempt \in Nat
        BY Sizes DEF Command
    <3> QED BY <3>1, <3>2
  <2>2. row.retry \in Nat
      BY FitsBound
  <2>3. \A a \in 1..Len(cmds) : cmds[a].attempt <= row.retry
      BY <1>0, <1>8, <2>1, <2>2 DEF Numbered
  <2>4. \A a \in 1..Len(cmds2) : a \in 1..Len(cmds) \/ a = Len(cmds) + 1
      BY <1>1, <1>5
  <2>5. \A a \in 1..Len(cmds2) : cmds2[a].attempt \in Nat /\ cmds2[a].attempt <= row.retry + 1
      BY <1>4, <1>5, <2>1, <2>2, <2>3, <2>4
  <2>6. \A a, b \in 1..Len(cmds2) : a < b => cmds2[a].attempt < cmds2[b].attempt
    <3> SUFFICES ASSUME NEW a \in 1..Len(cmds2), NEW b \in 1..Len(cmds2), a < b
                 PROVE  cmds2[a].attempt < cmds2[b].attempt
        OBVIOUS
    <3>1. a \in 1..Len(cmds)
        BY <1>1, <1>5
    <3>2. CASE b \in 1..Len(cmds)
        BY <1>5, <1>8, <3>1, <3>2 DEF Numbered
    <3>3. CASE b = Len(cmds) + 1
        BY <1>4, <1>5, <2>1, <2>2, <2>3, <3>1, <3>3
    <3> QED BY <2>4, <3>2, <3>3
  <2> QED BY <1>3, <1>6, <2>2, <2>5, <2>6 DEF Numbered
<1> QED BY <1>7, <1>8 DEF row2, cmds2

LEMMA DispatchFits ==
    ASSUME Shapes, NEW d \in Dir, NEW row, Fits(row, command[d], Cardinality(Saved)),
           row.status = "pending", NEW granted,
           d \in granted => StatusOf(d, row) \notin Live \cup {"success"},
           NEW cmds2, cmds2 = IF d \in granted THEN Append(command[d], NewCommand(row)) ELSE command[d]
    PROVE  /\ Fits(Dispatch(d, row, granted), cmds2, Cardinality(Saved))
           /\ Numbered(row, command[d]) => Numbered(Dispatch(d, row, granted), cmds2)
<1> DEFINE new == Dispatch(d, row, granted)
<1>0. /\ row \in Row /\ command[d] \in Seq(Command) /\ row.cmd <= Len(command[d])
      /\ Len(command[d]) \in Nat /\ Len(command[d]) <= MaxCommands
  <2>1. /\ Len(command[d]) \in Nat /\ Len(command[d]) + Pend(row) <= MaxCommands
        /\ Pend(row) \in {0, 1} /\ MaxCommands \in Nat
      BY FitsBound, Sizes
  <2>2. row \in Row /\ command[d] \in Seq(Command) /\ row.cmd <= Len(command[d])
      BY DEF Fits
  <2> QED BY <2>1, <2>2
<1>1. CASE d \in granted
  <2>1. new = Granting(row, command[d]) /\ cmds2 = GrantedTo(row, command[d])
      BY <1>1 DEF Dispatch, Granting, GrantedTo
  <2> HIDE DEF new
  <2>2. Fits(Granting(row, command[d]), GrantedTo(row, command[d]), Cardinality(Saved))
        /\ (Numbered(row, command[d])
              => Numbered(Granting(row, command[d]), GrantedTo(row, command[d])))
      BY GrantFits
  <2> QED BY <2>1, <2>2 DEF new
<1>2. CASE d \notin granted
  <2> DEFINE c == CurrentOf(d, row)
  <2>1. c \in 0..MaxCommands /\ c <= Len(command[d])
      BY <1>0, CurrentType
  <2>2. \/ new = row
        \/ new = [row EXCEPT !.status = "available", !.cmd = c, !.error = "none"]
        \/ \E st \in {"dispatching", "running"} : new = [row EXCEPT !.cmd = c, !.status = st]
      BY <1>2 DEF Dispatch
  <2>3. "none" \in Error /\ {"dispatching", "running"} \subseteq InProgress
      BY DEF Error, InProgress
  <2> HIDE DEF new, c
  <2>4. new \in Row
    <3>1. CASE new = [row EXCEPT !.status = "available", !.cmd = c, !.error = "none"]
        BY <1>0, <2>1, <2>3, <3>1 DEF Row
    <3>2. ASSUME NEW st \in {"dispatching", "running"}, new = [row EXCEPT !.cmd = c, !.status = st]
          PROVE  new \in Row
        BY <1>0, <2>1, <2>3, <3>2 DEF Row
    <3> QED BY <1>0, <2>2, <3>1, <3>2
  <2>5. /\ new.retry = row.retry /\ new.cmd \in {row.cmd, c}
        /\ new.status \in {row.status, "available", "dispatching", "running"}
      BY <1>0, <2>2 DEF Row
  <2>6. Keeps(row, command[d], new, command[d])
      BY <1>0, <2>1, <2>4, <2>5, KeepsLeaving
  <2> QED BY <1>2, <2>6, KeepsFit, Sizes DEF new
<1> QED BY <1>1, <1>2

(* A command that has ended, or is still live, as the observation finds it. *)
LEMMA EndedFits ==
    ASSUME NEW row, NEW cmds, Fits(row, cmds, Cardinality(Saved)), NEW status, NEW link,
           NEW capable \in {"yes", "grace", "no"}
    PROVE  LET new == ObserveEnded(row, status, link, capable)
           IN  /\ Fits(new, cmds, Cardinality(Saved))
               /\ Numbered(row, cmds) => Numbered(new, cmds)
<1> DEFINE new == ObserveEnded(row, status, link, capable)
<1>0. row \in Row /\ cmds \in Seq(Command) /\ row.cmd <= Len(cmds)
    BY DEF Fits
<1>1. {"none", "offline", "final", "repair"} \subseteq Error /\ ErrorOf(status) \in Error
    BY ErrorType DEF Error, Adoptable, Stale
<1>2. \/ new = row
      \/ row.retry < 1 /\ \E e \in Error : new = Requeue(row, e)
      \/ \E st \in {"available", "failed", "cancelled"}, e \in Error :
            new = [row EXCEPT !.status = st, !.error = e]
    BY <1>1 DEF ObserveEnded, Fail
<1>3. CASE new = row
    BY <1>3
<1>4. CASE row.retry < 1 /\ \E e \in Error : new = Requeue(row, e)
    BY <1>4, RequeueFits
<1>5. ASSUME NEW st \in {"available", "failed", "cancelled"}, NEW e \in Error,
             new = [row EXCEPT !.status = st, !.error = e]
      PROVE  Fits(new, cmds, Cardinality(Saved)) /\ (Numbered(row, cmds) => Numbered(new, cmds))
  <2>1. new \in Row /\ new.status = st /\ new.cmd = row.cmd /\ new.retry = row.retry
      BY <1>0, <1>5 DEF Row
  <2>2. Keeps(row, cmds, new, cmds)
      BY <1>0, <2>1, KeepsLeaving
  <2> QED BY <2>2, KeepsFit, Sizes
<1> QED BY <1>2, <1>3, <1>4, <1>5

LEMMA LiveKeeps ==
    ASSUME NEW row \in Row, NEW cmds \in Seq(Command), row.cmd <= Len(cmds), NEW status, NEW link,
           NEW stalled
    PROVE  Keeps(row, cmds, ObserveLive(row, status, link, stalled), cmds)
<1> DEFINE new == ObserveLive(row, status, link, stalled)
           seen == IF row.status = "dispatching" /\ status # "pending"
                   THEN [row EXCEPT !.status = "running"] ELSE row
<1>1. /\ seen \in Row /\ seen.cmd = row.cmd /\ seen.retry = row.retry
      /\ seen.status = row.status \/ seen.status = "running"
  <2>1. "running" \in InProgress
      BY DEF InProgress
  <2> QED BY <2>1 DEF Row
<1>2. "offline" \in Error /\ "progress" \in Error
    BY DEF Error, Adoptable, Stale
<1>3. \/ new = row \/ new = seen
      \/ new = [row EXCEPT !.status = "failed", !.error = "offline"]
      \/ new = [seen EXCEPT !.status = "failed", !.error = "progress"]
      \/ new = [seen EXCEPT !.stopAsked = TRUE]
    BY DEF ObserveLive, Fail
<1> HIDE DEF seen, new
<1>4. /\ new \in Row /\ new.cmd = row.cmd /\ new.retry = row.retry
      /\ new.status \in {row.status, "running", "failed"}
    BY <1>1, <1>2, <1>3 DEF Row
<1>5. Keeps(row, cmds, new, cmds)
    BY <1>4, KeepsLeaving
<1> QED BY <1>5 DEF new

(* One round of observation for a row and its commands.                    *)
LEMMA ObservedFits ==
    ASSUME NEW row, NEW cmds, Fits(row, cmds, Cardinality(Saved)), row.status \in InProgress,
           NEW link, NEW capable \in {"yes", "grace", "no"}, NEW stalled
    PROVE  LET new == ObservedRow(row, cmds, link, capable, stalled)
               cmds2 == ObservedCommands(row, cmds, link, stalled)
           IN  /\ Fits(new, cmds2, Cardinality(Saved))
               /\ Numbered(row, cmds) => Numbered(new, cmds2)
<1> DEFINE new == ObservedRow(row, cmds, link, capable, stalled)
           cmds2 == ObservedCommands(row, cmds, link, stalled)
           a == IF row.cmd # 0 THEN row.cmd ELSE Len(cmds)
           bound == [row EXCEPT !.cmd = a]
<1>0. /\ row \in Row /\ cmds \in Seq(Command) /\ row.cmd <= Len(cmds)
      /\ Len(cmds) \in Nat /\ Len(cmds) <= MaxCommands /\ row.cmd \in Nat
    BY FitsBound, Sizes DEF Fits, Pend
<1>1. a \in 0..MaxCommands /\ a <= Len(cmds) /\ (a = 0 => row.cmd = 0 /\ Len(cmds) = 0)
    BY <1>0, Sizes
<1>2. bound \in Row /\ bound.cmd = a /\ bound.retry = row.retry /\ bound.status = row.status
    BY <1>0, <1>1 DEF Row
<1>3. Keeps(row, cmds, bound, cmds)
    BY <1>0, <1>1, <1>2, KeepsLeaving
<1>4. Fits(bound, cmds, Cardinality(Saved)) /\ (Numbered(row, cmds) => Numbered(bound, cmds))
    BY <1>3, KeepsFit, Sizes
<1>5. CASE a = 0
  <2>1. new = [row EXCEPT !.status = "pending"] /\ cmds2 = cmds
      BY <1>5 DEF ObservedRow, ObservedCommands
  <2>2. new \in Row /\ new.cmd = row.cmd /\ new.retry = row.retry
    <3>1. "pending" \in InProgress
        BY DEF InProgress
    <3> QED BY <1>0, <2>1, <3>1 DEF Row
  <2>3. Pend(new) \in {0, 1} /\ Tried(new) \in {0, 1} /\ row.retry \in Nat
      BY FitsBound DEF Pend, Tried
  <2>4. Fits(new, cmds, Cardinality(Saved))
    <3>1. row.retry <= 1 + Cardinality(Saved)
        BY DEF Fits
    <3> QED BY <1>0, <1>1, <1>5, <2>2, <2>3, <3>1, Sizes DEF Fits
  <2>5. Numbered(new, cmds)
      BY <1>1, <1>5 DEF Numbered
  <2> QED BY <2>1, <2>4, <2>5
<1>6. CASE a # 0 /\ cmds[a].status \in Live
  <2>1. new = ObserveLive(bound, cmds[a].status, link, stalled)
      BY <1>6 DEF ObservedRow
  <2>2. Keeps(bound, cmds, new, cmds)
      BY <1>0, <1>1, <1>2, <2>1, LiveKeeps
  <2>3. cmds2 = cmds \/ \E st \in {"offline", "stopping"} : cmds2 = [cmds EXCEPT ![a].status = st]
      BY DEF ObservedCommands
  <2>4. {"offline", "stopping"} \subseteq Live \cup Outcome /\ a \in 1..Len(cmds)
      BY <1>0, <1>1, <1>6 DEF Live, Outcome
  <2>5. /\ cmds2 \in Seq(Command) /\ Len(cmds2) = Len(cmds)
        /\ \A b \in 1..Len(cmds) : cmds2[b].attempt = cmds[b].attempt
    <3>1. CASE cmds2 = cmds
        BY <1>0, <3>1
    <3>2. ASSUME NEW st \in {"offline", "stopping"}, cmds2 = [cmds EXCEPT ![a].status = st]
          PROVE  /\ cmds2 \in Seq(Command) /\ Len(cmds2) = Len(cmds)
                 /\ \A b \in 1..Len(cmds) : cmds2[b].attempt = cmds[b].attempt
      <4>1. st \in Live \cup Outcome
          BY <2>4
      <4>2. cmds2 = [cmds EXCEPT ![a] = [cmds[a] EXCEPT !.status = st]]
          BY <3>2
      <4>3. cmds \in Seq(Command) /\ a \in 1..Len(cmds)
          BY <1>0, <2>4
      <4> HIDE DEF cmds2, a
      <4> QED BY <4>1, <4>2, <4>3, SetOne
    <3> QED BY <2>3, <3>1, <3>2
  <2>6. Keeps(bound, cmds, new, cmds2)
      BY <2>2, <2>5 DEF Keeps
  <2> QED BY <1>4, <2>6, KeepsFit, Sizes
<1>7. CASE a # 0 /\ cmds[a].status \notin Live
  <2>1. new = ObserveEnded(bound, cmds[a].status, link, capable) /\ cmds2 = cmds
      BY <1>7 DEF ObservedRow, ObservedCommands
  <2> QED BY <1>4, <2>1, EndedFits
<1> QED BY <1>5, <1>6, <1>7

-----------------------------------------------------------------------------
(* Steps                                                                   *)

SnapshotStatus == {"creating", "available", "partial", "failed"}
TaskStatus == {"pending", "running"} \cup Ended

LEMMA SummaryType ==
    ASSUME Shapes, NEW rows
    PROVE  Summary(rows) \in SnapshotStatus /\ Failing(rows) \in SnapshotStatus
BY DEF Shapes, Summary, Failing, SnapshotStatus

LEMMA InitInv == Init => IInv
<1> SUFFICES ASSUME Init PROVE IInv
    OBVIOUS
<1>1. Saved = {} /\ Cardinality(Saved) = 0
    BY FS_EmptySet DEF Init, Saved, Idle
<1>2. NoRow \in Row
  <2>1. "none" \in Error
      BY DEF Error
  <2> QED BY <2>1, Sizes DEF NoRow, Row
<1>3. Dir # {} /\ 1 \in Dir
    BY SizesAssumption DEF Dir
<1>4. Shapes
  <2>1. dir \in [Dir -> Row]
      BY <1>2 DEF Init
  <2>2. << >> \in Seq(Command)
      OBVIOUS
  <2>3. command \in [Dir -> Seq(Command)]
      BY <2>2 DEF Init
  <2>4. faults \in 0..MaxFaults
      BY BoundsAssumption DEF Init
  <2> QED BY <2>1, <2>3, <2>4 DEF Init, Shapes
<1>5. Idle \in Retriers
    BY <1>2, <1>3 DEF Idle, Retriers
<1>6. RequestsOK
  <2>1. retrier \in [Requests -> Retriers]
      BY <1>5 DEF Init
  <2>2. \A r \in Requests : retrier[r].row.retry <= 1 + Cardinality(Saved)
      BY <1>1 DEF Init, Idle, NoRow
  <2>3. canceller \in Cancellers /\ \A d \in Dir : canceller.seen[d] <= Len(command[d])
      BY DEF Init, Cancellers
  <2> QED BY <2>1, <2>2, <2>3 DEF RequestsOK
<1>7. \A d \in Dir : dir[d] = NoRow /\ command[d] = << >>
    BY DEF Init
<1>8. << >> \in Seq(Command) /\ Len(<< >>) = 0
    OBVIOUS
<1>9. Fits(NoRow, << >>, 0) /\ Numbered(NoRow, << >>)
  <2>1. Pend(NoRow) = 1 /\ Tried(NoRow) = 0 /\ NoRow.cmd = 0 /\ NoRow.retry = 0
      BY DEF Pend, Tried, NoRow
  <2> QED BY <1>2, <1>8, <2>1 DEF Fits, Numbered
<1> QED BY <1>1, <1>4, <1>6, <1>7, <1>9 DEF IInv, RowsFit, RowsNumbered

(* The invariant follows from what a step does to each directory.          *)
LEMMA RowsStep ==
    ASSUME IInv, Saved' = Saved, overtaken \subseteq overtaken', overtaken' \in SUBSET Writers,
           task' \in TaskStatus, snapshot' \in SnapshotStatus, queueTried' \in BOOLEAN,
           faults' \in 0..MaxFaults,
           dir' = [d \in Dir |-> dir'[d]], command' = [d \in Dir |-> command'[d]],
           \A d \in Dir :
              /\ Fits(dir'[d], command'[d], Cardinality(Saved))
              /\ Numbered(dir[d], command[d]) => Numbered(dir'[d], command'[d])
    PROVE  Shapes' /\ RowsFit' /\ RowsNumbered'
<1>1. \A d \in Dir : dir'[d] \in Row /\ command'[d] \in Seq(Command)
    BY DEF Fits
<1>2. dir' \in [Dir -> Row] /\ command' \in [Dir -> Seq(Command)]
    BY <1>1
<1>3. Shapes'
    BY <1>2 DEF Shapes, TaskStatus, SnapshotStatus
<1>4. RowsFit'
    BY DEF RowsFit
<1>5. RowsNumbered'
    BY DEF IInv, RowsNumbered
<1> QED BY <1>3, <1>4, <1>5

LEMMA RequestsKept ==
    ASSUME IInv, UNCHANGED <<retrier, canceller>>, command' \in [Dir -> Seq(Command)],
           \A d \in Dir : Len(command[d]) <= Len(command'[d])
    PROVE  Saved' = Saved /\ RequestsOK'
<1>1. Saved' = Saved
    BY DEF Saved
<1>2. \A d \in Dir : canceller.seen[d] \in Nat /\ Len(command[d]) \in Nat /\ Len(command'[d]) \in Nat
    BY DEF IInv, RequestsOK, Cancellers, Shapes
<1>3. \A d \in Dir : canceller.seen[d] <= Len(command'[d])
    BY <1>2 DEF IInv, RequestsOK
<1> QED BY <1>1, <1>3 DEF IInv, RequestsOK

(* A step that keeps the turns and the attempts of every directory.        *)
LEMMA KeepingStep ==
    ASSUME IInv, UNCHANGED <<retrier, canceller>>, overtaken' = overtaken,
           task' \in TaskStatus, snapshot' \in SnapshotStatus, queueTried' \in BOOLEAN,
           faults' \in 0..MaxFaults,
           dir' = [d \in Dir |-> dir'[d]], command' = [d \in Dir |-> command'[d]],
           \A d \in Dir : Keeps(dir[d], command[d], dir'[d], command'[d])
    PROVE  IInv'
<1>1. \A d \in Dir : command'[d] \in Seq(Command) /\ Len(command'[d]) = Len(command[d])
    BY DEF Keeps
<1>2. command' \in [Dir -> Seq(Command)] /\ \A d \in Dir : Len(command[d]) \in Nat
    BY <1>1 DEF IInv, Shapes
<1>3. Saved' = Saved /\ RequestsOK'
    BY <1>1, <1>2, RequestsKept
<1>4. \A d \in Dir : /\ Fits(dir'[d], command'[d], Cardinality(Saved))
                     /\ Numbered(dir[d], command[d]) => Numbered(dir'[d], command'[d])
    BY KeepsFit, Sizes DEF IInv, RowsFit
<1>5. overtaken' \in SUBSET Writers
    BY DEF IInv, Shapes
<1>6. Shapes' /\ RowsFit' /\ RowsNumbered'
    BY <1>3, <1>4, <1>5, RowsStep
<1> QED BY <1>3, <1>6 DEF IInv

LEMMA RefreshedKeeps ==
    ASSUME IInv, NEW d \in Dir
    PROVE  Keeps(dir[d], command[d], Refreshed[d], command[d])
<1>1. dir[d] \in Row /\ command[d] \in Seq(Command) /\ dir[d].cmd <= Len(command[d])
    BY DEF IInv, RowsFit, Fits
<1>2. Refreshed[d] = Refresh(d, dir[d])
    BY DEF Refreshed
<1> QED BY <1>1, <1>2, RefreshKeeps

LEMMA SameKeeps ==
    ASSUME IInv, NEW d \in Dir
    PROVE  Keeps(dir[d], command[d], dir[d], command[d])
<1>1. dir[d] \in Row /\ command[d] \in Seq(Command) /\ dir[d].cmd <= Len(command[d])
    BY DEF IInv, RowsFit, Fits
<1> QED BY <1>1, KeepsSame

(* advance_backup that dispatches nothing.                                 *)
LEMMA AdvanceIdleInv ==
    ASSUME IInv, AdvanceEnded \/ AdvanceWaits \/ \E offline \in BOOLEAN : AdvanceRefused(offline)
    PROVE  IInv'
<1>1. UNCHANGED <<command, queueTried, canceller, retrier, overtaken, faults>>
    BY DEF AdvanceEnded, AdvanceWaits, AdvanceRefused
<1>2. dir' = dir \/ dir' = Refreshed
    BY DEF AdvanceEnded, AdvanceWaits, AdvanceRefused
<1>3. task' \in TaskStatus
    BY DEF AdvanceEnded, AdvanceWaits, AdvanceRefused, TaskStatus, Ended, IInv, Shapes
<1>4. snapshot' \in SnapshotStatus
    BY SummaryType DEF AdvanceEnded, AdvanceWaits, AdvanceRefused, IInv
<1>5. dir' = [d \in Dir |-> dir'[d]] /\ command' = [d \in Dir |-> command'[d]]
    BY <1>1, <1>2 DEF Refreshed, IInv, Shapes
<1>6. \A d \in Dir : Keeps(dir[d], command[d], dir'[d], command'[d])
    BY <1>1, <1>2, RefreshedKeeps, SameKeeps
<1>7. queueTried' \in BOOLEAN /\ faults' \in 0..MaxFaults
    BY <1>1 DEF IInv, Shapes
<1> QED BY <1>1, <1>3, <1>4, <1>5, <1>6, <1>7, KeepingStep

LEMMA RowsKeep ==
    ASSUME IInv, NEW d \in Dir
    PROVE  Keeps(dir[d], command[d], Rows[d], command[d])
<1>1. dir[d] \in Row /\ command[d] \in Seq(Command) /\ dir[d].cmd <= Len(command[d])
    BY DEF IInv, RowsFit, Fits
<1>2. CASE dir[d].status = "none"
  <2> DEFINE x == [dir[d] EXCEPT !.status = "pending"]
  <2>1. Rows[d] = x
      BY <1>2 DEF Rows
  <2>2. x \in Row /\ x.status = "pending" /\ x.cmd = dir[d].cmd /\ x.retry = dir[d].retry
    <3>1. "pending" \in InProgress
        BY DEF InProgress
    <3> QED BY <1>1, <3>1 DEF Row
  <2> HIDE DEF x
  <2> QED BY <1>1, <1>2, <2>1, <2>2, KeepsLeaving
<1>3. CASE dir[d].status # "none"
    BY <1>3, RefreshedKeeps DEF Rows
<1> QED BY <1>2, <1>3

(* advance_backup that dispatches and observes.                            *)
LEMMA AdvanceRunInv ==
    ASSUME IInv, NEW link, NEW capable \in {"yes", "grace", "no"}, NEW stalled, NEW busy,
           AdvanceRun(link, capable, stalled, busy)
    PROVE  IInv'
<1> DEFINE rows == Rows
           taken == Taken(rows, Free(busy))
           granted == Granted(rows, Free(busy))
           cleared == [d \in Dir |-> IF d \in taken /\ rows[d].error = "repair"
                                     THEN [rows[d] EXCEPT !.error = "none", !.stopAsked = FALSE]
                                     ELSE rows[d]]
           sent == [d \in Dir |-> IF d \in taken THEN Dispatch(d, cleared[d], granted)
                                  ELSE cleared[d]]
           cmds == [d \in Dir |-> IF d \in granted
                                  THEN Append(command[d], NewCommand(rows[d])) ELSE command[d]]
           observed == {d \in Dir : /\ sent[d].status \in InProgress
                                    /\ sent[d].status = "pending" => d \in taken}
<1>1. /\ dir' = [d \in Dir |->
            IF d \in observed
            THEN ObservedRow(sent[d], cmds[d], link, capable, d \in stalled) ELSE sent[d]]
      /\ command' = [d \in Dir |->
            IF d \in observed
            THEN ObservedCommands(sent[d], cmds[d], link, d \in stalled) ELSE cmds[d]]
      /\ snapshot' = Summary(dir')
      /\ task' = IF Finished(dir') THEN FinalStatus(dir') ELSE "running"
      /\ UNCHANGED <<queueTried, canceller, retrier, overtaken, faults>>
    BY DEF AdvanceRun
<1>2. /\ granted \subseteq taken /\ taken \subseteq Dir
      /\ \A d \in taken : rows[d].status = "pending"
      /\ \A d \in granted : StatusOf(d, rows[d]) \notin Live \cup {"success"}
    BY DEF Granted, Taken
<1>3. \A d \in Dir : Fits(dir[d], command[d], Cardinality(Saved))
    BY DEF IInv, RowsFit
<1>4. ASSUME NEW d \in Dir
      PROVE  /\ Fits(sent[d], cmds[d], Cardinality(Saved))
             /\ Numbered(dir[d], command[d]) => Numbered(sent[d], cmds[d])
             /\ Len(command[d]) <= Len(cmds[d])
  <2>1. Keeps(dir[d], command[d], rows[d], command[d])
      BY RowsKeep
  <2>2. rows[d] \in Row /\ command[d] \in Seq(Command) /\ rows[d].cmd <= Len(command[d])
      BY <2>1 DEF Keeps
  <2>3. /\ cleared[d] \in Row /\ cleared[d].status = rows[d].status
        /\ cleared[d].cmd = rows[d].cmd /\ cleared[d].retry = rows[d].retry
    <3>1. "none" \in Error
        BY DEF Error
    <3> DEFINE x == [rows[d] EXCEPT !.error = "none", !.stopAsked = FALSE]
    <3>2. x \in Row /\ x.status = rows[d].status /\ x.cmd = rows[d].cmd /\ x.retry = rows[d].retry
        BY <2>2, <3>1 DEF Row
    <3>3. cleared[d] = x \/ cleared[d] = rows[d]
        OBVIOUS
    <3> HIDE DEF x, cleared, rows
    <3> QED BY <2>2, <3>2, <3>3
  <2>4. Keeps(dir[d], command[d], cleared[d], command[d])
      BY <2>1, <2>3 DEF Keeps, Pend
  <2>5. Fits(cleared[d], command[d], Cardinality(Saved)) /\ (Numbered(dir[d], command[d]) => Numbered(cleared[d], command[d]))
      BY <1>3, <2>4, KeepsFit, Sizes
  <2>6. /\ NewCommand(rows[d]) = NewCommand(cleared[d])
        /\ StatusOf(d, rows[d]) = StatusOf(d, cleared[d])
      BY <2>3 DEF NewCommand, StatusOf, CurrentOf
  <2>7. cmds[d] = IF d \in granted THEN Append(command[d], NewCommand(cleared[d])) ELSE command[d]
      BY <2>6
  <2>8. sent[d] = IF d \in taken THEN Dispatch(d, cleared[d], granted) ELSE cleared[d]
      OBVIOUS
  <2>9. /\ d \in taken => cleared[d].status = "pending"
        /\ d \in granted => d \in taken /\ StatusOf(d, cleared[d]) \notin Live \cup {"success"}
      BY <1>2, <2>3, <2>6
  <2>10. Shapes
      BY DEF IInv
  <2>11. Len(command[d]) <= Len(cmds[d])
    <3>1. Len(command[d]) \in Nat /\ NewCommand(rows[d]) \in Command
        BY <2>2, NewCommandType
    <3> HIDE DEF granted, rows
    <3> QED BY <2>2, <3>1
  <2> HIDE DEF rows, taken, granted, cleared, sent, cmds
  <2>12. CASE d \in taken
    <3>1. Fits(cleared[d], command[d], Cardinality(Saved)) /\ cleared[d].status = "pending"
        BY <2>5, <2>9, <2>12
    <3>2. d \in granted => StatusOf(d, cleared[d]) \notin Live \cup {"success"}
        BY <2>9
    <3>3. /\ Fits(Dispatch(d, cleared[d], granted), cmds[d], Cardinality(Saved))
          /\ Numbered(cleared[d], command[d]) => Numbered(Dispatch(d, cleared[d], granted), cmds[d])
        BY <2>7, <2>10, <3>1, <3>2, DispatchFits
    <3>4. sent[d] = Dispatch(d, cleared[d], granted)
        BY <2>8, <2>12
    <3> QED BY <2>5, <2>11, <3>3, <3>4
  <2>13. CASE d \notin taken
      BY <2>5, <2>7, <2>8, <2>9, <2>11, <2>13
  <2> QED BY <2>12, <2>13
<1>5. ASSUME NEW d \in Dir
      PROVE  /\ Fits(dir'[d], command'[d], Cardinality(Saved))
             /\ Numbered(dir[d], command[d]) => Numbered(dir'[d], command'[d])
             /\ Len(command[d]) <= Len(command'[d])
  <2>1. CASE d \in observed
    <3>1. dir'[d] = ObservedRow(sent[d], cmds[d], link, capable, d \in stalled)
        BY <1>1, <2>1
    <3>2. command'[d] = ObservedCommands(sent[d], cmds[d], link, d \in stalled)
        BY <1>1, <2>1
    <3>3. sent[d].status \in InProgress
        BY <2>1
    <3> HIDE DEF sent, cmds, observed
    <3>4. Len(command'[d]) = Len(cmds[d])
      <4>1. cmds[d] \in Seq(Command)
          BY <1>4 DEF Fits
      <4> DEFINE a == IF sent[d].cmd # 0 THEN sent[d].cmd ELSE Len(cmds[d])
      <4>2. \/ command'[d] = cmds[d]
            \/ \E st \in {"offline", "stopping"} : command'[d] = [cmds[d] EXCEPT ![a].status = st]
          BY <3>2 DEF ObservedCommands
      <4>3. \A b, v : Len([cmds[d] EXCEPT ![b] = v]) = Len(cmds[d])
          BY <4>1
      <4> HIDE DEF a
      <4> QED BY <4>2, <4>3
    <3> QED BY <1>4, <3>1, <3>2, <3>3, <3>4, ObservedFits
  <2>2. CASE d \notin observed
    <3>1. dir'[d] = sent[d] /\ command'[d] = cmds[d]
        BY <1>1, <2>2
    <3> HIDE DEF sent, cmds, observed
    <3> QED BY <1>4, <3>1
  <2> QED BY <2>1, <2>2
<1>6. dir' = [d \in Dir |-> dir'[d]] /\ command' = [d \in Dir |-> command'[d]]
    BY <1>1
<1> HIDE DEF rows, taken, granted, cleared, sent, cmds, observed
<1>7. task' \in TaskStatus /\ snapshot' \in SnapshotStatus
    BY <1>1, SummaryType DEF FinalStatus, TaskStatus, Ended, IInv
<1>8. command' \in [Dir -> Seq(Command)]
    BY <1>5, <1>6 DEF Fits
<1>9. Saved' = Saved /\ RequestsOK'
    BY <1>1, <1>5, <1>8, RequestsKept
<1>10. queueTried' \in BOOLEAN /\ faults' \in 0..MaxFaults /\ overtaken' \in SUBSET Writers /\ overtaken \subseteq overtaken'
    BY <1>1 DEF IInv, Shapes
<1>11. Shapes' /\ RowsFit' /\ RowsNumbered'
    BY <1>5, <1>6, <1>7, <1>9, <1>10, RowsStep
<1> QED BY <1>9, <1>11 DEF IInv

(* One command changes its status; its row changes with it or not.         *)
LEMMA OneCommandKeeps ==
    ASSUME IInv, NEW d \in Dir, NEW a \in 1..Len(command[d]), NEW st \in Live \cup Outcome,
           NEW cmds2,
           cmds2 = [command[d] EXCEPT ![a].status = st]
    PROVE  Keeps(dir[d], command[d], dir[d], cmds2)
<1>1. Keeps(dir[d], command[d], dir[d], command[d])
    BY SameKeeps
<1>2. command[d] \in Seq(Command)
    BY DEF IInv, Shapes
<1>3. cmds2 = [command[d] EXCEPT ![a] = [command[d][a] EXCEPT !.status = st]]
    OBVIOUS
<1>4. /\ cmds2 \in Seq(Command) /\ Len(cmds2) = Len(command[d])
      /\ \A b \in 1..Len(command[d]) : cmds2[b].attempt = command[d][b].attempt
    BY <1>2, <1>3, SetOne
<1> QED BY <1>1, <1>4 DEF Keeps

LEMMA OneCommandStep ==
    ASSUME IInv, NEW d \in Dir, NEW a \in 1..Len(command[d]), NEW st \in Live \cup Outcome,
           SetStatus(d, a, st), faults' \in 0..MaxFaults,
           UNCHANGED <<task, snapshot, dir, queueTried, canceller, retrier, overtaken>>
    PROVE  IInv'
<1>1. command \in [Dir -> Seq(Command)] /\ dir \in [Dir -> Row]
    BY DEF IInv, Shapes
<1>2. command' = [command EXCEPT ![d] = [command[d] EXCEPT ![a].status = st]]
    BY DEF SetStatus
<1>3. /\ command'[d] = [command[d] EXCEPT ![a].status = st]
      /\ \A e \in Dir \ {d} : command'[e] = command[e]
      /\ command' = [e \in Dir |-> command'[e]]
    BY <1>1, <1>2
<1>4. \A e \in Dir : Keeps(dir[e], command[e], dir'[e], command'[e])
    BY <1>3, OneCommandKeeps, SameKeeps
<1>5. dir' = [e \in Dir |-> dir'[e]]
    BY <1>1
<1>6. /\ task' \in TaskStatus /\ snapshot' \in SnapshotStatus /\ queueTried' \in BOOLEAN
      /\ overtaken' = overtaken
    BY DEF IInv, Shapes, TaskStatus, SnapshotStatus
<1> QED BY <1>3, <1>4, <1>5, <1>6, KeepingStep

\* Only the shapes of other variables change.
LEMMA StillStep ==
    ASSUME IInv, UNCHANGED <<dir, command, canceller, retrier, overtaken>>,
           task' \in TaskStatus, snapshot' \in SnapshotStatus, queueTried' \in BOOLEAN,
           faults' \in 0..MaxFaults
    PROVE  IInv'
<1>1. dir' = [e \in Dir |-> dir'[e]] /\ command' = [e \in Dir |-> command'[e]]
    BY DEF IInv, Shapes
<1>2. \A e \in Dir : Keeps(dir[e], command[e], dir'[e], command'[e])
    BY SameKeeps
<1> QED BY <1>1, <1>2, KeepingStep

\* One row leaves its turn or is bound to another command.
LEMMA OneRowStep ==
    ASSUME IInv, NEW d \in Dir, NEW row \in Row, dir' = [dir EXCEPT ![d] = row],
           Keeps(dir[d], command[d], row, command[d]),
           task' \in TaskStatus, snapshot' \in SnapshotStatus,
           UNCHANGED <<command, queueTried, canceller, retrier, overtaken, faults>>
    PROVE  IInv'
<1>1. dir \in [Dir -> Row] /\ command \in [Dir -> Seq(Command)]
    BY DEF IInv, Shapes
<1>2. /\ dir'[d] = row /\ \A e \in Dir \ {d} : dir'[e] = dir[e]
      /\ dir' = [e \in Dir |-> dir'[e]] /\ command' = [e \in Dir |-> command'[e]]
    BY <1>1
<1>3. \A e \in Dir : Keeps(dir[e], command[e], dir'[e], command'[e])
    BY <1>2, SameKeeps
<1>4. queueTried' \in BOOLEAN /\ faults' \in 0..MaxFaults
    BY DEF IInv, Shapes
<1> QED BY <1>2, <1>3, <1>4, KeepingStep

LEMMA ProjectInv ==
    ASSUME IInv, NEW d \in Dir, NEW a, Project(d, a)
    PROVE  IInv'
<1> DEFINE row == [dir[d] EXCEPT !.status = "available", !.error = "none"]
<1>1. dir \in [Dir -> Row] /\ command[d] \in Seq(Command) /\ dir[d].cmd <= Len(command[d])
    BY DEF IInv, Shapes, RowsFit, Fits
<1>2. dir' = [dir EXCEPT ![d] = row]
    BY <1>1 DEF Project
<1>3. row \in Row /\ row.status = "available" /\ row.cmd = dir[d].cmd /\ row.retry = dir[d].retry
  <2>1. "none" \in Error
      BY DEF Error
  <2> QED BY <1>1, <2>1 DEF Row
<1> HIDE DEF row
<1>4. Keeps(dir[d], command[d], row, command[d])
    BY <1>1, <1>3, KeepsLeaving
<1>5. task' \in TaskStatus /\ snapshot' \in SnapshotStatus
    BY SummaryType DEF Project, CorrectedTask, TaskStatus, Ended, IInv, Shapes
<1> QED BY <1>2, <1>3, <1>4, <1>5, OneRowStep DEF Project

LEMMA ProgressSyncInv ==
    ASSUME IInv, NEW d \in Dir, NEW a, ProgressSync(d, a)
    PROVE  IInv'
<1> DEFINE row == [dir[d] EXCEPT !.cmd = a]
<1>1. dir \in [Dir -> Row] /\ command[d] \in Seq(Command) /\ Len(command[d]) <= MaxCommands
  <2>1. Fits(dir[d], command[d], Cardinality(Saved))
      BY DEF IInv, RowsFit
  <2>2. /\ Len(command[d]) \in Nat /\ Len(command[d]) + Pend(dir[d]) <= MaxCommands
        /\ Pend(dir[d]) \in {0, 1}
      BY <2>1, FitsBound
  <2>3. Len(command[d]) <= MaxCommands
      BY <2>2, Sizes
  <2> QED BY <2>3 DEF IInv, Shapes
<1>2. dir' = [dir EXCEPT ![d] = row] /\ a \in 1..Len(command[d])
    BY <1>1 DEF ProgressSync
<1>3. row \in Row /\ row.status = dir[d].status /\ row.cmd = a /\ row.retry = dir[d].retry
  <2>1. a \in 0..MaxCommands
      BY <1>1, <1>2, Sizes
  <2> QED BY <1>1, <2>1 DEF Row
<1> HIDE DEF row
<1>4. Keeps(dir[d], command[d], row, command[d])
    BY <1>1, <1>2, <1>3, KeepsLeaving
<1>5. task' \in TaskStatus /\ snapshot' \in SnapshotStatus
    BY DEF ProgressSync, TaskStatus, SnapshotStatus, IInv, Shapes
<1> QED BY <1>2, <1>3, <1>4, <1>5, OneRowStep DEF ProgressSync

LEMMA CommandStepInv ==
    ASSUME IInv, NEW d \in Dir, NEW a, CommandStep(d, a)
    PROVE  IInv'
<1>0. faults \in 0..MaxFaults
    BY DEF IInv, Shapes
<1>1. CASE Accept(d, a)
  <2>1. "running" \in Live \cup Outcome
      BY DEF Live
  <2> QED BY <1>0, <1>1, <2>1, OneCommandStep DEF Accept
<1>2. CASE End(d, a)
  <2>1. \E st \in Live \cup Outcome : SetStatus(d, a, st)
    <3>1. {"success", "failed", "policy", "stopped", "canceled"} \subseteq Live \cup Outcome
        BY DEF Outcome
    <3> QED BY <1>2, <3>1 DEF End
  <2> QED BY <1>0, <1>2, <2>1, OneCommandStep DEF End
<1>3. CASE ProgressSync(d, a)
    BY <1>3, ProgressSyncInv
<1>4. CASE Reattach(d, a)
  <2> DEFINE k == [command[d] EXCEPT ![a] = [command[d][a] EXCEPT !.status = "running", !.revived = TRUE]]
  <2>0. command \in [Dir -> Seq(Command)] /\ a \in 1..Len(command[d]) /\ command[d] \in Seq(Command)
      BY <1>4 DEF Reattach, IInv, Shapes
  <2>1. command' = [command EXCEPT ![d] = k]
      BY <1>4, <2>0 DEF Reattach
  <2>2. k \in Seq(Command) /\ Len(k) = Len(command[d]) /\ \A b \in 1..Len(k) : k[b].attempt = command[d][b].attempt
    <3> DEFINE c == [command[d][a] EXCEPT !.status = "running", !.revived = TRUE]
    <3>1. command[d][a] \in Command /\ "running" \in Live \cup Outcome
        BY <2>0 DEF Live
    <3>2. c \in Command /\ c.attempt = command[d][a].attempt
        BY <3>1 DEF Command
    <3> HIDE DEF c
    <3>3. k = [command[d] EXCEPT ![a] = c]
        BY DEF c
    <3> HIDE DEF k
    <3> QED BY <2>0, <3>2, <3>3
  <2> HIDE DEF k
  <2>3. /\ command'[d] = k /\ \A e \in Dir \ {d} : command'[e] = command[e]
        /\ command' = [e \in Dir |-> command'[e]]
      BY <2>0, <2>1
  <2>4. Keeps(dir[d], command[d], dir[d], k)
      BY <2>2, SameKeeps DEF Keeps
  <2>5. \A e \in Dir : Keeps(dir[e], command[e], dir'[e], command'[e])
      BY <1>4, <2>3, <2>4, SameKeeps DEF Reattach
  <2>6. /\ dir' = [e \in Dir |-> dir'[e]]
        /\ task' \in TaskStatus /\ snapshot' \in SnapshotStatus /\ queueTried' \in BOOLEAN
        /\ overtaken' = overtaken /\ faults' \in 0..MaxFaults /\ UNCHANGED <<retrier, canceller>>
      BY <1>4 DEF Reattach, IInv, Shapes, TaskStatus, SnapshotStatus
  <2> QED BY <2>3, <2>5, <2>6, KeepingStep
<1>5. CASE LateSuccess(d, a)
  <2>1. "success" \in Live \cup Outcome
      BY DEF Outcome
  <2> QED BY <1>0, <1>5, <2>1, OneCommandStep DEF LateSuccess
<1>6. CASE TimeOut(d, a)
  <2>1. {"sealed", "timeout"} \subseteq Live \cup Outcome
      BY DEF Outcome
  <2>2. faults' \in 0..MaxFaults
      BY <1>0, <1>6, BoundsAssumption DEF TimeOut, Fault
  <2> QED BY <1>6, <2>1, <2>2, OneCommandStep DEF TimeOut
<1> QED BY <1>1, <1>2, <1>3, <1>4, <1>5, <1>6 DEF CommandStep

LEMMA AdvanceInv ==
    ASSUME IInv, Advance
    PROVE  IInv'
<1>1. CASE AdvanceEnded
    BY <1>1, AdvanceIdleInv
<1>2. CASE AdvanceWaits
    BY <1>2, AdvanceIdleInv
<1>3. CASE \E offline \in BOOLEAN : AdvanceRefused(offline)
    BY <1>3, AdvanceIdleInv
<1>4. ASSUME NEW link, NEW capable \in Capable, NEW busy, NEW stalled,
             AdvanceRun(link, capable, stalled, busy)
      PROVE  IInv'
  <2>1. capable \in {"yes", "grace", "no"}
      BY DEF Capable
  <2> QED BY <1>4, <2>1, AdvanceRunInv
<1> QED BY <1>1, <1>2, <1>3, <1>4 DEF Advance

(* Many commands come to the same end.                                     *)
LEMMA EndAllInv ==
    ASSUME IInv, NEW statuses, NEW outcome \in Outcome, EndAll(statuses, outcome)
    PROVE  IInv'
<1>1. command' = [d \in Dir |-> [a \in 1..Len(command[d]) |->
                      IF command[d][a].status \in statuses
                      THEN [command[d][a] EXCEPT !.status = outcome] ELSE command[d][a]]]
    BY DEF EndAll
<1>2. ASSUME NEW d \in Dir PROVE Keeps(dir[d], command[d], dir'[d], command'[d])
  <2>1. command[d] \in Seq(Command) /\ Len(command[d]) \in Nat
      BY DEF IInv, Shapes
  <2> DEFINE c(a) == IF command[d][a].status \in statuses
                     THEN [command[d][a] EXCEPT !.status = outcome] ELSE command[d][a]
  <2>2. \A a \in 1..Len(command[d]) : c(a) \in Command /\ c(a).attempt = command[d][a].attempt
    <3> SUFFICES ASSUME NEW a \in 1..Len(command[d])
                 PROVE  c(a) \in Command /\ c(a).attempt = command[d][a].attempt
        OBVIOUS
    <3>1. command[d][a] \in Command
        BY <2>1
    <3> QED BY <3>1 DEF Command
  <2>3. command'[d] = [a \in 1..Len(command[d]) |-> c(a)]
      BY <1>1
  <2> HIDE DEF c
  <2>4. command'[d] \in Seq(Command) /\ Len(command'[d]) = Len(command[d])
      BY <2>1, <2>2, <2>3
  <2>5. \A a \in 1..Len(command[d]) : command'[d][a].attempt = command[d][a].attempt
      BY <2>2, <2>3
  <2>6. dir'[d] = dir[d] /\ Keeps(dir[d], command[d], dir[d], command[d])
      BY SameKeeps DEF EndAll
  <2> QED BY <2>4, <2>5, <2>6 DEF Keeps
<1>3. faults \in 0..MaxFaults /\ faults' \in 0..MaxFaults
    BY BoundsAssumption DEF EndAll, Fault, IInv, Shapes
<1>4. /\ task' \in TaskStatus /\ snapshot' \in SnapshotStatus /\ queueTried' \in BOOLEAN
      /\ overtaken' = overtaken /\ UNCHANGED <<retrier, canceller>>
    BY DEF EndAll, TaskStatus, SnapshotStatus, IInv, Shapes
<1>5. dir' = [d \in Dir |-> dir'[d]] /\ command' = [d \in Dir |-> command'[d]]
    BY <1>1 DEF EndAll, IInv, Shapes
<1> QED BY <1>2, <1>3, <1>4, <1>5, KeepingStep

-----------------------------------------------------------------------------
(* Requests                                                                *)

\* What the cancel request knows may change, and who overtook the run.
LEMMA RequestStep ==
    ASSUME IInv, canceller' \in Cancellers, \A d \in Dir : canceller'.seen[d] <= Len(command'[d]),
           retrier' = retrier, overtaken \subseteq overtaken', overtaken' \in SUBSET Writers,
           task' \in TaskStatus, snapshot' \in SnapshotStatus, queueTried' \in BOOLEAN,
           faults' \in 0..MaxFaults,
           dir' = [d \in Dir |-> dir'[d]], command' = [d \in Dir |-> command'[d]],
           \A d \in Dir : Keeps(dir[d], command[d], dir'[d], command'[d])
    PROVE  IInv'
<1>1. Saved' = Saved
    BY DEF Saved
<1>2. RequestsOK'
    BY <1>1 DEF IInv, RequestsOK
<1>3. \A d \in Dir : /\ Fits(dir'[d], command'[d], Cardinality(Saved))
                     /\ Numbered(dir[d], command[d]) => Numbered(dir'[d], command'[d])
    BY KeepsFit, Sizes DEF IInv, RowsFit
<1>4. Shapes' /\ RowsFit' /\ RowsNumbered'
    BY <1>1, <1>3, RowsStep
<1> QED BY <1>2, <1>4 DEF IInv

\* ... in the steps that leave the directories alone.
LEMMA CancellerStill ==
    ASSUME IInv, canceller' \in Cancellers, \A d \in Dir : canceller'.seen[d] <= Len(command[d]),
           UNCHANGED <<dir, command, retrier, overtaken, queueTried>>,
           task' \in TaskStatus, snapshot' \in SnapshotStatus, faults' \in 0..MaxFaults
    PROVE  IInv'
<1>1. dir' = [d \in Dir |-> dir'[d]] /\ command' = [d \in Dir |-> command'[d]]
    BY DEF IInv, Shapes
<1>2. \A d \in Dir : Keeps(dir[d], command[d], dir'[d], command'[d])
    BY SameKeeps
<1>3. overtaken' \in SUBSET Writers /\ queueTried' \in BOOLEAN
    BY DEF IInv, Shapes
<1> QED BY <1>1, <1>2, <1>3, RequestStep

(* A task that no worker claims fails its directories.                     *)
LEMMA QueueInv ==
    ASSUME IInv, QueueRecovery \/ QueueTimeout
    PROVE  IInv'
<1>1. CASE QueueRecovery
  <2>1. /\ task' \in TaskStatus /\ snapshot' \in SnapshotStatus /\ queueTried' \in BOOLEAN
        /\ faults' \in 0..MaxFaults
      BY <1>1 DEF QueueRecovery, TaskStatus, SnapshotStatus, IInv, Shapes
  <2> QED BY <1>1, <2>1, StillStep DEF QueueRecovery
<1>2. CASE QueueTimeout
  <2>1. dir' = [d \in Dir |-> IF dir[d].status \in InProgress THEN Fail(dir[d], "final")
                              ELSE dir[d]]
      BY <1>2 DEF QueueTimeout
  <2>2. ASSUME NEW d \in Dir PROVE Keeps(dir[d], command[d], dir'[d], command'[d])
    <3>1. dir[d] \in Row /\ command[d] \in Seq(Command) /\ dir[d].cmd <= Len(command[d])
        BY DEF IInv, RowsFit, Fits
    <3> DEFINE x == Fail(dir[d], "final")
    <3>2. x \in Row /\ x.status = "failed" /\ x.cmd = dir[d].cmd /\ x.retry = dir[d].retry
        BY <3>1 DEF Fail, Row, Error
    <3> HIDE DEF x
    <3>3. Keeps(dir[d], command[d], x, command[d])
        BY <3>1, <3>2, KeepsLeaving
    <3>4. Keeps(dir[d], command[d], dir[d], command[d])
        BY SameKeeps
    <3>5. (dir'[d] = x \/ dir'[d] = dir[d]) /\ command' = command
        BY <1>2, <2>1 DEF QueueTimeout, x
    <3> QED BY <3>3, <3>4, <3>5
  <2>3. /\ task' \in TaskStatus /\ snapshot' \in SnapshotStatus /\ queueTried' \in BOOLEAN
        /\ faults' \in 0..MaxFaults /\ UNCHANGED <<retrier, canceller, command>>
        /\ overtaken \subseteq overtaken' /\ overtaken' \in SUBSET Writers
      BY <1>2, SummaryType DEF QueueTimeout, Overtakes, Writers, TaskStatus, Ended, IInv, Shapes
  <2>4. dir' = [d \in Dir |-> dir'[d]] /\ command' = [d \in Dir |-> command'[d]]
      BY <1>2, <2>1 DEF QueueTimeout, IInv, Shapes
  <2>5. canceller' \in Cancellers /\ \A d \in Dir : canceller'.seen[d] <= Len(command'[d])
      BY <2>3 DEF IInv, RequestsOK
  <2> QED BY <2>2, <2>3, <2>4, <2>5, RequestStep
<1> QED BY <1>1, <1>2

LEMMA CancelDirectoryInv ==
    ASSUME IInv, CancelDirectory
    PROVE  IInv'
<1>1. PICK d \in canceller.left :
          /\ command' = IF canceller.seen[d] = 0 THEN command
                        ELSE CancelCommand(d, canceller.seen[d])
          /\ dir' = [dir EXCEPT ![d].status = "cancelled", ![d].error = "cancelled",
                                ![d].stopAsked = TRUE]
          /\ canceller' = [canceller EXCEPT !.left = @ \ {d}]
    BY DEF CancelDirectory
<1> DEFINE a == canceller.seen[d]
           row == [dir[d] EXCEPT !.status = "cancelled", !.error = "cancelled", !.stopAsked = TRUE]
<1>2. /\ d \in Dir /\ a \in Nat /\ a <= Len(command[d]) /\ Len(command[d]) \in Nat
      /\ command \in [Dir -> Seq(Command)] /\ dir \in [Dir -> Row] /\ command[d] \in Seq(Command)
      /\ dir[d].cmd <= Len(command[d])
    BY DEF IInv, RequestsOK, Cancellers, Shapes, RowsFit, Fits
<1>3. dir' = [dir EXCEPT ![d] = row]
    BY <1>1, <1>2
<1>4. row \in Row /\ row.status = "cancelled" /\ row.cmd = dir[d].cmd /\ row.retry = dir[d].retry
  <2>1. dir[d] \in Row /\ "cancelled" \in Error
      BY <1>2 DEF Error
  <2> QED BY <2>1 DEF Row
<1>5. \/ command' = command
      \/ /\ a \in 1..Len(command[d])
         /\ \E st \in {"canceled", "cancelling"} :
               command' = [command EXCEPT ![d] = [command[d] EXCEPT ![a].status = st]]
  <2>1. command' = IF a = 0 THEN command ELSE CancelCommand(d, a)
      BY <1>1
  <2>2. CASE a = 0
      BY <2>1, <2>2
  <2>3. CASE a # 0
    <3>1. a \in 1..Len(command[d]) /\ command' = CancelCommand(d, a)
        BY <1>2, <2>1, <2>3
    <3> HIDE DEF a
    <3>2. \/ CancelCommand(d, a) = command
          \/ \E st \in {"canceled", "cancelling"} :
                CancelCommand(d, a) = [command EXCEPT ![d] = [command[d] EXCEPT ![a].status = st]]
        BY DEF CancelCommand
    <3> QED BY <3>1, <3>2
  <2> QED BY <2>2, <2>3
<1> HIDE DEF a, row
<1>6. Keeps(dir[d], command[d], row, command[d])
    BY <1>2, <1>4, KeepsLeaving
<1>7. /\ dir'[d] = row /\ \A e \in Dir \ {d} : dir'[e] = dir[e]
      /\ dir' = [e \in Dir |-> dir'[e]]
    BY <1>2, <1>3
<1>8. /\ Keeps(dir[d], command[d], row, command'[d])
      /\ \A e \in Dir \ {d} : command'[e] = command[e]
      /\ command' = [e \in Dir |-> command'[e]]
  <2>1. CASE command' = command
      BY <1>2, <1>6, <2>1
  <2>2. ASSUME a \in 1..Len(command[d]), NEW st \in {"canceled", "cancelling"},
               command' = [command EXCEPT ![d] = [command[d] EXCEPT ![a].status = st]]
        PROVE  <1>8!1 /\ <1>8!2 /\ <1>8!3
    <3>1. /\ command'[d] = [command[d] EXCEPT ![a].status = st]
          /\ \A e \in Dir \ {d} : command'[e] = command[e]
          /\ command' = [e \in Dir |-> command'[e]]
        BY <1>2, <2>2
    <3>2. st \in Live \cup Outcome
        BY DEF Live, Outcome
    <3>3. Keeps(dir[d], command[d], dir[d], command'[d])
        BY <1>2, <2>2, <3>1, <3>2, OneCommandKeeps
    <3> QED BY <1>6, <3>1, <3>3 DEF Keeps
  <2> QED BY <1>5, <2>1, <2>2
<1>9. \A e \in Dir : Keeps(dir[e], command[e], dir'[e], command'[e])
    BY <1>7, <1>8, SameKeeps
<1>10. canceller' \in Cancellers /\ \A e \in Dir : canceller'.seen[e] <= Len(command'[e])
  <2>1. canceller \in Cancellers /\ \A e \in Dir : canceller.seen[e] <= Len(command[e])
      BY DEF IInv, RequestsOK
  <2>2. canceller' \in Cancellers /\ canceller'.seen = canceller.seen
      BY <1>1, <2>1 DEF Cancellers
  <2>3. \A e \in Dir : Len(command'[e]) = Len(command[e])
      BY <1>9 DEF Keeps
  <2> QED BY <2>1, <2>2, <2>3
<1>11. /\ overtaken \subseteq overtaken' /\ overtaken' \in SUBSET Writers /\ retrier' = retrier
       /\ task' \in TaskStatus /\ snapshot' \in SnapshotStatus /\ queueTried' \in BOOLEAN
       /\ faults' \in 0..MaxFaults
    BY DEF CancelDirectory, Overtakes, Writers, IInv, Shapes, TaskStatus, SnapshotStatus
<1>12. dir' = [e \in Dir |-> dir'[e]] /\ command' = [e \in Dir |-> command'[e]]
    BY <1>7, <1>8
<1> QED BY <1>9, <1>10, <1>11, <1>12, RequestStep

LEMMA CancelInv ==
    ASSUME IInv, CancelTask \/ CancelAgain \/ CancelStep \/ CancellerDies
    PROVE  IInv'
<1>1. /\ canceller \in Cancellers /\ \A d \in Dir : canceller.seen[d] <= Len(command[d])
      /\ \A d \in Dir : /\ dir[d].cmd \in Nat /\ dir[d].cmd <= Len(command[d])
                       /\ Len(command[d]) \in Nat
    BY FitsBound DEF IInv, RequestsOK, RowsFit, Fits
<1>2. /\ task \in TaskStatus /\ "cancelled" \in TaskStatus /\ snapshot \in SnapshotStatus
      /\ Summary(dir) \in SnapshotStatus /\ faults \in 0..MaxFaults
    BY SummaryType DEF IInv, Shapes, TaskStatus, SnapshotStatus, Ended
<1>3. CASE CancelTask
  <2>1. canceller' \in Cancellers /\ canceller'.seen = canceller.seen
      BY <1>1, <1>3 DEF CancelTask, Cancellers
  <2> QED BY <1>1, <1>2, <1>3, <2>1, CancellerStill DEF CancelTask
<1>4. CASE CancelAgain
  <2>1. canceller' \in Cancellers /\ canceller'.seen = canceller.seen
      BY <1>1, <1>4 DEF CancelAgain, Cancellers
  <2> QED BY <1>1, <1>2, <1>4, <2>1, CancellerStill DEF CancelAgain
<1>5. CASE CancelRead
  <2>1. canceller' \in Cancellers /\ \A d \in Dir : canceller'.seen[d] = dir[d].cmd
      BY <1>1, <1>5 DEF CancelRead, Cancellers
  <2> QED BY <1>1, <1>2, <1>5, <2>1, CancellerStill DEF CancelRead
<1>6. CASE CancelDirectory
    BY <1>6, CancelDirectoryInv
<1>7. CASE CancelSummary
  <2>1. canceller' \in Cancellers /\ \A d \in Dir : canceller'.seen[d] = 0
      BY <1>7 DEF CancelSummary, Cancellers
  <2> QED BY <1>1, <1>2, <1>7, <2>1, CancellerStill DEF CancelSummary
<1>8. CASE CancellerDies
  <2>1. canceller' \in Cancellers /\ \A d \in Dir : canceller'.seen[d] = 0
      BY <1>8 DEF CancellerDies, Cancellers
  <2>2. faults' \in 0..MaxFaults
      BY <1>2, <1>8, BoundsAssumption DEF CancellerDies, Fault
  <2> QED BY <1>1, <1>2, <1>8, <2>1, <2>2, CancellerStill DEF CancellerDies
<1> QED BY <1>3, <1>4, <1>5, <1>6, <1>7, <1>8 DEF CancelStep

\* A retry request that moves on without saving.
LEMMA RetrierStep ==
    ASSUME IInv, NEW r \in Requests, NEW new \in Retriers, retrier' = [retrier EXCEPT ![r] = new],
           new.row.retry <= 1 + Cardinality(Saved),
           (new.pc \in {"retry", "done", "dead"}) <=> (retrier[r].pc \in {"retry", "done", "dead"}),
           UNCHANGED <<dir, command, canceller, overtaken>>,
           task' \in TaskStatus, snapshot' \in SnapshotStatus, queueTried' \in BOOLEAN,
           faults' \in 0..MaxFaults
    PROVE  IInv'
<1>1. retrier \in [Requests -> Retriers]
    BY DEF IInv, RequestsOK
<1>2. retrier' \in [Requests -> Retriers] /\ retrier'[r] = new
      /\ \A q \in Requests \ {r} : retrier'[q] = retrier[q]
    BY <1>1
<1>3. Saved' = Saved
    BY <1>2 DEF Saved
<1>4. RequestsOK'
    BY <1>2, <1>3 DEF IInv, RequestsOK
<1>5. dir' = [e \in Dir |-> dir'[e]] /\ command' = [e \in Dir |-> command'[e]]
    BY DEF IInv, Shapes
<1>6. \A d \in Dir : /\ Fits(dir'[d], command'[d], Cardinality(Saved))
                     /\ Numbered(dir[d], command[d]) => Numbered(dir'[d], command'[d])
    BY DEF IInv, RowsFit
<1>7. overtaken' \in SUBSET Writers /\ overtaken \subseteq overtaken'
    BY DEF IInv, Shapes
<1>8. Shapes' /\ RowsFit' /\ RowsNumbered'
    BY <1>3, <1>5, <1>6, <1>7, RowsStep
<1> QED BY <1>4, <1>8 DEF IInv

(* A request gives its directory a further turn, whatever it has read.     *)
LEMMA RetrySaveInv ==
    ASSUME IInv, NEW r \in Requests, RetrySave(r)
    PROVE  IInv'
<1> DEFINE d == retrier[r].dir
           old == retrier[r].row
           new == [Idle EXCEPT !.pc = IF retrier[r].ended THEN "retry" ELSE "done"]
           s == Cardinality(Saved)
<1>1. /\ retrier \in [Requests -> Retriers] /\ old \in Row /\ d \in Dir /\ old.retry <= 1 + s
      /\ dir \in [Dir -> Row] /\ command \in [Dir -> Seq(Command)]
    BY DEF IInv, RequestsOK, Retriers, Shapes
<1>2. /\ retrier[r].pc = "save" /\ dir' = [dir EXCEPT ![d] = Requeue(old, "none")]
      /\ retrier' = [retrier EXCEPT ![r] = new]
      /\ Overtakes("request", dir[d] # old \/ (task \in Ended) # retrier[r].ended)
      /\ UNCHANGED <<task, snapshot, command, queueTried, canceller, faults>>
    BY DEF RetrySave
<1>3. new \in Retriers /\ new.pc \in {"retry", "done"} /\ new.row.retry = 0
  <2>1. NoRow \in Row /\ 1 \in Dir
    <3>1. "none" \in Error
        BY DEF Error
    <3> QED BY <3>1, Sizes, SizesAssumption DEF NoRow, Row, Dir
  <2> QED BY <2>1 DEF Idle, Retriers, NoRow
<1> HIDE DEF d, old, new
<1>4. retrier' \in [Requests -> Retriers] /\ retrier'[r] = new
      /\ \A q \in Requests \ {r} : retrier'[q] = retrier[q]
    BY <1>1, <1>2, <1>3
<1>5. r \notin Saved /\ Saved' = Saved \cup {r}
    BY <1>2, <1>3, <1>4 DEF Saved
<1>6. s \in Nat /\ Cardinality(Saved') = s + 1 /\ s + 1 <= Cardinality(Requests)
  <2>1. IsFiniteSet(Requests) /\ Saved \subseteq Requests /\ Saved' \subseteq Requests
      BY <1>5, BoundsAssumption DEF Saved
  <2>2. IsFiniteSet(Saved)
      BY <2>1, FS_Subset
  <2>3. Cardinality(Saved \cup {r}) = Cardinality(Saved) + 1
      BY <1>5, <2>2, FS_AddElement
  <2>4. Cardinality(Saved') <= Cardinality(Requests)
      BY <2>1, FS_Subset
  <2> QED BY <1>5, <2>3, <2>4, Sizes
<1> HIDE DEF s
<1>7. \A e \in Dir : Fits(dir[e], command[e], s)
    BY DEF IInv, RowsFit, s
<1> DEFINE row == Requeue(old, "none")
<1>8. row \in Row /\ row.status = "pending" /\ row.cmd = 0 /\ row.retry = old.retry + 1
  <2>1. old.retry \in Nat /\ old.retry + 1 <= MaxCommands - 1
      BY <1>1, <1>6, Sizes DEF Row
  <2>2. "none" \in Error
      BY DEF Error
  <2> QED BY <1>1, <2>1, <2>2, RequeueType
<1> HIDE DEF row
<1>9. /\ dir'[d] = row /\ \A e \in Dir \ {d} : dir'[e] = dir[e]
      /\ dir' = [e \in Dir |-> dir'[e]]
    BY <1>1, <1>2 DEF row
<1>10. \A e \in Dir : /\ Len(command[e]) \in Nat /\ dir[e].retry \in Nat
                      /\ Pend(dir[e]) \in {0, 1} /\ Tried(dir[e]) \in {0, 1}
    BY <1>7, FitsBound DEF s
<1>11. Pend(row) = 1 /\ Tried(row) = 1 /\ old.retry \in Nat
    BY <1>1, <1>8, Sizes DEF Pend, Tried, Row
<1>12. Fits(row, command[d], s + 1)
  <2>1. Len(command[d]) \in Nat /\ Len(command[d]) <= 2 + s /\ command[d] \in Seq(Command)
    <3>1. command[d] \in Seq(Command) /\ Len(command[d]) + Pend(dir[d]) <= 1 + s + Tried(dir[d])
        BY <1>1, <1>7 DEF Fits
    <3>2. Len(command[d]) \in Nat /\ Pend(dir[d]) \in {0, 1} /\ Tried(dir[d]) \in {0, 1}
        BY <1>1, <1>10
    <3> QED BY <1>6, <3>1, <3>2
  <2> QED BY <1>1, <1>6, <1>8, <1>11, <2>1 DEF Fits
<1>13. \A e \in Dir \ {d} : Fits(dir[e], command[e], s + 1)
    BY <1>6, <1>7, <1>10 DEF Fits
<1>14. RowsFit'
    BY <1>2, <1>6, <1>9, <1>12, <1>13 DEF RowsFit
<1>15. ASSUME "request" \notin overtaken' PROVE \A e \in Dir : Numbered(dir'[e], command[e])
  <2>1. dir[d] = old /\ \A e \in Dir : Numbered(dir[e], command[e])
      BY <1>2, <1>15 DEF IInv, RowsNumbered, Overtakes
  <2>2. \A a \in 1..Len(command[d]) : command[d][a].attempt \in Nat
    <3>1. \A a \in 1..Len(command[d]) : command[d][a] \in Command
        BY <1>1
    <3>2. \A c \in Command : c.attempt \in Nat
        BY Sizes DEF Command
    <3> QED BY <3>1, <3>2
  <2>3. Numbered(row, command[d])
    <3>1. /\ \A a, b \in 1..Len(command[d]) : a < b => command[d][a].attempt < command[d][b].attempt
          /\ \A a \in 1..Len(command[d]) : command[d][a].attempt + Pend(old) <= old.retry + 1
        BY <1>1, <2>1 DEF Numbered
    <3>2. Pend(old) \in {0, 1}
        BY <1>1, <1>10, <2>1
    <3>3. \A a \in 1..Len(command[d]) : command[d][a].attempt + Pend(row) <= row.retry + 1
      <4> SUFFICES ASSUME NEW a \in 1..Len(command[d])
                   PROVE  command[d][a].attempt + Pend(row) <= row.retry + 1
          OBVIOUS
      <4>1. command[d][a].attempt + Pend(old) <= old.retry + 1 /\ command[d][a].attempt \in Nat
          BY <2>2, <3>1
      <4> QED BY <1>8, <1>11, <3>2, <4>1
    <3> QED BY <3>1, <3>3 DEF Numbered
  <2> QED BY <1>9, <2>1, <2>3
<1>16. RowsNumbered'
    BY <1>2, <1>15 DEF RowsNumbered
<1>17. Shapes'
  <2>1. dir' \in [Dir -> Row] /\ overtaken' \in SUBSET Writers
      BY <1>1, <1>2, <1>8, <1>9 DEF IInv, Shapes, Overtakes, Writers
  <2> QED BY <1>2, <2>1 DEF IInv, Shapes
<1>18. RequestsOK'
  <2>1. \A q \in Requests : retrier[q].row.retry \in Nat /\ retrier[q].row.retry <= 1 + s
      BY Sizes DEF IInv, RequestsOK, Retriers, Row, s
  <2>2. \A q \in Requests : retrier'[q].row.retry <= 1 + Cardinality(Saved')
      BY <1>3, <1>4, <1>6, <2>1
  <2> QED BY <1>2, <1>4, <2>2 DEF IInv, RequestsOK
<1> QED BY <1>14, <1>16, <1>17, <1>18 DEF IInv

LEMMA RetryInv ==
    ASSUME IInv, NEW r \in Requests,
           (\E d \in Dir : RetryRead(r, d)) \/ RetryTask(r) \/ RetryDies(r)
    PROVE  IInv'
<1>1. retrier[r] \in Retriers /\ retrier[r].row.retry <= 1 + Cardinality(Saved)
    BY DEF IInv, RequestsOK
<1>2. /\ task \in TaskStatus /\ "pending" \in TaskStatus /\ snapshot \in SnapshotStatus
      /\ queueTried \in BOOLEAN /\ faults \in 0..MaxFaults
    BY DEF IInv, Shapes, TaskStatus, SnapshotStatus
<1>3. ASSUME NEW d \in Dir, RetryRead(r, d) PROVE IInv'
  <2> DEFINE new == [pc |-> "save", dir |-> d, row |-> dir[d], ended |-> task \in Ended]
  <2>1. new \in Retriers /\ new.row = dir[d] /\ new.pc = "save"
      BY DEF Retriers, IInv, Shapes
  <2>2. dir[d].retry <= 1 + Cardinality(Saved)
      BY DEF IInv, RowsFit, Fits
  <2>3. retrier' = [retrier EXCEPT ![r] = new] /\ retrier[r].pc = "idle"
      BY <1>3 DEF RetryRead
  <2> HIDE DEF new
  <2> QED BY <1>2, <1>3, <2>1, <2>2, <2>3, RetrierStep DEF RetryRead
<1>4. CASE RetryTask(r)
  <2> DEFINE new == [retrier[r] EXCEPT !.pc = "done"]
  <2>1. new \in Retriers /\ new.row = retrier[r].row /\ new.pc = "done"
      BY <1>1 DEF Retriers
  <2>2. retrier' = [retrier EXCEPT ![r] = new] /\ retrier[r].pc = "retry"
      BY <1>4 DEF RetryTask
  <2> HIDE DEF new
  <2>3. task' \in TaskStatus /\ queueTried' \in BOOLEAN
      BY <1>2, <1>4 DEF RetryTask
  <2> QED BY <1>1, <1>2, <1>4, <2>1, <2>2, <2>3, RetrierStep DEF RetryTask
<1>5. CASE RetryDies(r)
  <2> DEFINE new == [retrier[r] EXCEPT !.pc = "dead"]
  <2>1. new \in Retriers /\ new.row = retrier[r].row /\ new.pc = "dead"
      BY <1>1 DEF Retriers
  <2>2. retrier' = [retrier EXCEPT ![r] = new] /\ retrier[r].pc = "retry"
      BY <1>5 DEF RetryDies
  <2> HIDE DEF new
  <2>3. faults' \in 0..MaxFaults
      BY <1>2, <1>5, BoundsAssumption DEF RetryDies, Fault
  <2> QED BY <1>1, <1>2, <1>5, <2>1, <2>2, <2>3, RetrierStep DEF RetryDies
<1> QED BY <1>3, <1>4, <1>5

-----------------------------------------------------------------------------
(* Theorems                                                                *)

LEMMA StepInv ==
    ASSUME IInv, [Next]_vars
    PROVE  IInv'
<1>1. CASE Advance
    BY <1>1, AdvanceInv
<1>2. CASE QueueRecovery \/ QueueTimeout
    BY <1>2, QueueInv
<1>3. ASSUME NEW d \in Dir, NEW a, Project(d, a) \/ CommandStep(d, a) PROVE IInv'
    BY <1>3, ProjectInv, CommandStepInv
<1>4. CASE AgentRestarts \/ OfflineSweep
  <2>1. "restarted" \in Outcome /\ "offline" \in Outcome
      BY DEF Outcome
  <2> QED BY <1>4, <2>1, EndAllInv DEF AgentRestarts, OfflineSweep
<1>5. CASE CancelTask \/ CancelAgain \/ CancelStep \/ CancellerDies
    BY <1>5, CancelInv
<1>6. ASSUME NEW r \in Requests,
             (\E d \in Dir : RetryRead(r, d)) \/ RetrySave(r) \/ RetryTask(r) \/ RetryDies(r)
      PROVE  IInv'
    BY <1>6, RetryInv, RetrySaveInv
<1>7. CASE UNCHANGED vars
  <2>1. UNCHANGED <<dir, command, canceller, retrier, overtaken>>
      BY <1>7 DEF vars
  <2>2. /\ task' \in TaskStatus /\ snapshot' \in SnapshotStatus /\ queueTried' \in BOOLEAN
        /\ faults' \in 0..MaxFaults
      BY <1>7 DEF vars, IInv, Shapes, TaskStatus, SnapshotStatus
  <2> QED BY <2>1, <2>2, StillStep
<1> QED BY <1>1, <1>2, <1>3, <1>4, <1>5, <1>6, <1>7 DEF Next

LEMMA InvTypes == IInv => TypeOK
<1> SUFFICES ASSUME IInv PROVE TypeOK
    OBVIOUS
<1>1. ASSUME NEW d \in Dir
      PROVE  /\ Len(command[d]) <= MaxCommands /\ dir[d].cmd <= Len(command[d])
             /\ \A a \in 1..Len(command[d]) :
                   command[d][a] \in [attempt : 1..MaxCommands, status : Live \cup Outcome,
                                      revived : BOOLEAN]
  <2>1. Len(command[d]) \in Nat /\ Len(command[d]) + Pend(dir[d]) <= MaxCommands
        /\ Pend(dir[d]) \in {0, 1}
      BY FitsBound DEF IInv, RowsFit
  <2>2. dir[d].cmd <= Len(command[d]) /\ command[d] \in Seq(Command)
      BY DEF IInv, RowsFit, Fits
  <2>3. \A a \in 1..Len(command[d]) : command[d][a] \in Command
      BY <2>2
  <2> QED BY <2>1, <2>2, <2>3, Sizes DEF Command
<1>2. \A r \in Requests : /\ retrier[r].pc \in {"idle", "save", "retry", "done", "dead"}
                          /\ retrier[r].dir \in Dir
    BY DEF IInv, RequestsOK, Retriers
<1>3. /\ canceller.pc \in {"idle", "read", "directories", "dead"}
      /\ canceller.left \subseteq Dir
    BY DEF IInv, RequestsOK, Cancellers
<1> QED BY <1>1, <1>2, <1>3 DEF TypeOK, IInv, Shapes, Writers

(* However results, progress, requeues, restarts and requests interleave,  *)
(* a run creates at most two commands for a directory, and one more for    *)
(* each request that retries one; a row never names a command that was not *)
(* created (_dispatch_directory_backup, _requeue_directory_backup,         *)
(* retry_backup_directory).                                                *)
THEOREM BackupTypeCorrect == Spec => []TypeOK
<1>1. Init => IInv
    BY InitInv
<1>2. IInv /\ [Next]_vars => IInv'
    BY StepInv
<1>3. IInv => TypeOK
    BY InvTypes
<1> QED BY <1>1, <1>2, <1>3, PTL DEF Spec

(* Only the projection makes a row available after the end of its run.     *)
LEMMA LateAdoption ==
    ASSUME IInv, [Next]_vars, NEW d \in Dir, task \in Ended, "request" \notin overtaken,
           dir[d].status # "available", dir'[d].status = "available"
    PROVE  dir'[d].cmd = Len(command[d]) /\ command[d][dir'[d].cmd].status = "success"
<1>1. dir \in [Dir -> Row] /\ dir[d] \in Row
    BY DEF IInv, Shapes
<1>2. "available" \notin {"cancelled", "failed", "pending"} /\ dir' # dir
    OBVIOUS
<1>3. ASSUME NEW e \in Dir, NEW row, dir' = [dir EXCEPT ![e] = row], row.status # "available" \/ row.status = dir[e].status
      PROVE  FALSE
  <2>1. dir'[d] = IF d = e THEN row ELSE dir[d]
      BY <1>1, <1>3
  <2> QED BY <1>3, <2>1
<1>4. ~Advance
  <2>1. Refreshed[d].status = dir[d].status
      BY <1>1 DEF Refreshed, Refresh, Row
  <2>2. Advance => AdvanceEnded
      BY DEF Advance, AdvanceWaits, AdvanceRefused, AdvanceRun
  <2>3. AdvanceEnded => dir' = Refreshed
      BY DEF AdvanceEnded
  <2> QED BY <2>1, <2>2, <2>3
<1>5. ~QueueRecovery /\ ~QueueTimeout
    BY <1>2 DEF QueueRecovery, QueueTimeout, Ended
<1>6. ASSUME NEW e \in Dir, NEW a PROVE ~CommandStep(e, a)
  <2>1. ~ProgressSync(e, a)
    <3>1. SUFFICES ASSUME ProgressSync(e, a) PROVE FALSE
        OBVIOUS
    <3> DEFINE row == [dir[e] EXCEPT !.cmd = a]
    <3>2. dir' = [dir EXCEPT ![e] = row]
        BY <1>1, <3>1 DEF ProgressSync
    <3>3. row.status = dir[e].status
        BY <1>1 DEF Row
    <3> HIDE DEF row
    <3> QED BY <1>3, <3>2, <3>3
  <2> QED BY <1>2, <2>1 DEF CommandStep, Accept, End, Reattach, LateSuccess, TimeOut
<1>7. ~AgentRestarts /\ ~OfflineSweep
    BY <1>2 DEF AgentRestarts, OfflineSweep, EndAll
<1>8. ~CancelTask /\ ~CancelAgain /\ ~CancelStep /\ ~CancellerDies
  <2>1. ~CancelDirectory
    <3>1. SUFFICES ASSUME CancelDirectory PROVE FALSE
        OBVIOUS
    <3>2. PICK e \in canceller.left :
             dir' = [dir EXCEPT ![e].status = "cancelled", ![e].error = "cancelled",
                                ![e].stopAsked = TRUE]
        BY <3>1 DEF CancelDirectory
    <3> DEFINE row == [dir[e] EXCEPT !.status = "cancelled", !.error = "cancelled",
                                     !.stopAsked = TRUE]
    <3>3. e \in Dir
        BY DEF IInv, RequestsOK, Cancellers
    <3>4. dir' = [dir EXCEPT ![e] = row]
        BY <1>1, <3>2, <3>3
    <3>5. row.status = "cancelled"
        BY <1>1, <3>3 DEF Row
    <3> HIDE DEF row
    <3> QED BY <1>2, <1>3, <3>3, <3>4, <3>5
  <2> QED BY <1>2, <2>1 DEF CancelTask, CancelAgain, CancelStep, CancelRead, CancelSummary, CancellerDies
<1>9. ASSUME NEW r \in Requests
      PROVE  ~((\E e \in Dir : RetryRead(r, e)) \/ RetrySave(r) \/ RetryTask(r) \/ RetryDies(r))
  <2>1. ~RetrySave(r)
    <3>1. SUFFICES ASSUME RetrySave(r) PROVE FALSE
        OBVIOUS
    <3> DEFINE row == Requeue(retrier[r].row, "none")
    <3>2. retrier[r].dir \in Dir /\ retrier[r].row \in Row
        BY DEF IInv, RequestsOK, Retriers
    <3>3. dir' = [dir EXCEPT ![retrier[r].dir] = row]
        BY <3>1 DEF RetrySave
    <3>4. row.status = "pending"
        BY <3>2 DEF Requeue, Row
    <3> HIDE DEF row
    <3> QED BY <1>2, <1>3, <3>2, <3>3, <3>4
  <2> QED BY <1>2, <2>1 DEF RetryRead, RetryTask, RetryDies
<1>10. PICK e \in Dir, a \in 1..MaxCommands : Project(e, a)
    BY <1>2, <1>4, <1>5, <1>6, <1>7, <1>8, <1>9 DEF Next, vars
<1>11. d = e
  <2>1. dir' = [dir EXCEPT ![e] = [dir[e] EXCEPT !.status = "available", !.error = "none"]]
      BY <1>1, <1>10 DEF Project
  <2> QED BY <1>1, <2>1
<1>12. /\ a \in 1..Len(command[d]) /\ command[d][a].status = "success"
       /\ dir[d].cmd = a /\ command[d][a].attempt = dir[d].retry + 1
    BY <1>10, <1>11 DEF Project, MatchesAttempt
<1>13. dir'[d].cmd = dir[d].cmd
  <2>1. dir' = [dir EXCEPT ![d] = [dir[d] EXCEPT !.status = "available", !.error = "none"]]
      BY <1>1, <1>10, <1>11 DEF Project
  <2> QED BY <1>1, <2>1 DEF Row
<1>14. a = Len(command[d])
  <2>1. Numbered(dir[d], command[d]) /\ command[d] \in Seq(Command) /\ dir[d].retry \in Nat
      BY FitsBound DEF IInv, RowsNumbered, RowsFit, Fits
  <2>2. \A c \in Command : c.attempt \in Nat
      BY Sizes DEF Command
  <2>3. Len(command[d]) \in Nat /\ Len(command[d]) \in 1..Len(command[d])
      BY <1>12, <2>1
  <2>4. command[d][Len(command[d])].attempt \in Nat /\ command[d][a].attempt \in Nat
      BY <1>12, <2>1, <2>2, <2>3
  <2>5. command[d][Len(command[d])].attempt <= dir[d].retry + 1
    <3>1. command[d][Len(command[d])].attempt + Pend(dir[d]) <= dir[d].retry + 1
        BY <2>1, <2>3 DEF Numbered
    <3>2. Pend(dir[d]) \in {0, 1}
        BY DEF Pend
    <3> QED BY <2>1, <2>4, <3>1, <3>2
  <2>6. a < Len(command[d]) => command[d][a].attempt < command[d][Len(command[d])].attempt
      BY <1>12, <2>1, <2>3 DEF Numbered
  <2> QED BY <1>12, <2>1, <2>3, <2>4, <2>5, <2>6
<1> QED BY <1>12, <1>13, <1>14

(* Although late progress binds a row to an old command again, no result   *)
(* of an attempt that was superseded is adopted after the end of the run   *)
(* (_late_backup_result_matches_current_attempt), for every number of      *)
(* directories and of requests that do not overlap.                        *)
THEOREM LateAdoptionFollowsLatest == Spec => LateAdoptionIsCurrent
<1> DEFINE Adopts == \A d \in Dir :
        (/\ task \in Ended /\ "request" \notin overtaken
         /\ dir[d].status # "available" /\ dir'[d].status = "available")
        => dir'[d].cmd = Len(command[d]) /\ command[d][dir'[d].cmd].status = "success"
<1>1. Init => IInv
    BY InitInv
<1>2. IInv /\ [Next]_vars => IInv'
    BY StepInv
<1>3. IInv /\ [Next]_vars => [Adopts]_vars
    BY LateAdoption
<1> QED BY <1>1, <1>2, <1>3, PTL DEF Spec, LateAdoptionIsCurrent

-----------------------------------------------------------------------------
(* A success is complete                                                   *)

\* A request that will save has read a row that had failed: it sees that a row of a
\* success has moved on.
ReadFailed == \A r \in Requests : retrier[r].pc = "save" => retrier[r].row.status = "failed"

AllAvailable == \A d \in Dir : dir[d].status = "available"

LEMMA SummaryComplete ==
    ASSUME NEW rows
    PROVE  Summary(rows) = "available" <=> \A d \in Dir : rows[d].status = "available"
<1> DEFINE good == {d \in Dir : rows[d].status = "available"}
           done == {d \in Dir : rows[d].status \in {"available", "failed", "cancelled"}}
<1>1. Summary(rows) = CASE done # Dir /\ snapshot = "failed" -> "failed"
                        [] done # Dir /\ snapshot # "failed" -> "creating"
                        [] done = Dir /\ good = Dir          -> "available"
                        [] done = Dir /\ good = {}           -> "failed"
                        [] OTHER                             -> "partial"
    BY DEF Summary
<1>2. Dir # {}
    BY SizesAssumption DEF Dir
<1>3. good = Dir <=> \A d \in Dir : rows[d].status = "available"
    OBVIOUS
<1>4. good = Dir => done = Dir
    OBVIOUS
<1> HIDE DEF good, done
<1>5. Summary(rows) = "available" <=> good = Dir
    BY <1>1, <1>2, <1>4
<1> QED BY <1>3, <1>5

LEMMA ReadFailedStep ==
    ASSUME IInv, ReadFailed, [Next]_vars
    PROVE  ReadFailed'
<1>1. retrier \in [Requests -> Retriers]
    BY DEF IInv, RequestsOK
<1>2. CASE retrier' = retrier
    BY <1>2 DEF ReadFailed
<1>3. ASSUME NEW r \in Requests, NEW new, retrier' = [retrier EXCEPT ![r] = new],
             new.pc = "save" => new.row.status = "failed"
      PROVE  ReadFailed'
    BY <1>1, <1>3 DEF ReadFailed
<1>4. ASSUME NEW r \in Requests, NEW d \in Dir, RetryRead(r, d) PROVE ReadFailed'
  <2> DEFINE new == [pc |-> "save", dir |-> d, row |-> dir[d], ended |-> task \in Ended]
  <2>1. retrier' = [retrier EXCEPT ![r] = new] /\ new.row.status = "failed"
      BY <1>4 DEF RetryRead
  <2> HIDE DEF new
  <2> QED BY <1>3, <2>1
<1>5. ASSUME NEW r \in Requests, RetrySave(r) PROVE ReadFailed'
  <2> DEFINE new == [Idle EXCEPT !.pc = IF retrier[r].ended THEN "retry" ELSE "done"]
  <2>1. retrier' = [retrier EXCEPT ![r] = new] /\ new.pc # "save"
      BY <1>5 DEF RetrySave, Idle
  <2> HIDE DEF new
  <2> QED BY <1>3, <2>1
<1>6. ASSUME NEW r \in Requests, RetryTask(r) \/ RetryDies(r) PROVE ReadFailed'
  <2>1. PICK p \in {"done", "dead"} : retrier' = [retrier EXCEPT ![r] = [retrier[r] EXCEPT !.pc = p]]
      BY <1>6 DEF RetryTask, RetryDies
  <2>2. [retrier[r] EXCEPT !.pc = p].pc = p
      BY <1>1 DEF Retriers
  <2> QED BY <1>3, <2>1, <2>2
<1>7. CASE UNCHANGED vars
    BY <1>2, <1>7 DEF vars
<1>8. Advance => retrier' = retrier
    BY DEF Advance, AdvanceEnded, AdvanceWaits, AdvanceRefused, AdvanceRun
<1>9. \A d, a : Project(d, a) \/ CommandStep(d, a) => retrier' = retrier
    BY DEF Project, CommandStep, Accept, End, ProgressSync, Reattach, LateSuccess, TimeOut
<1>10. QueueRecovery \/ QueueTimeout \/ AgentRestarts \/ OfflineSweep => retrier' = retrier
    BY DEF QueueRecovery, QueueTimeout, AgentRestarts, OfflineSweep, EndAll
<1>11. CancelTask \/ CancelAgain \/ CancelStep \/ CancellerDies => retrier' = retrier
    BY DEF CancelTask, CancelAgain, CancelStep, CancelRead, CancelDirectory, CancelSummary,
           CancellerDies
<1> QED BY <1>2, <1>4, <1>5, <1>6, <1>7, <1>8, <1>9, <1>10, <1>11 DEF Next

LEMMA SuccessStep ==
    ASSUME IInv, ReadFailed, SuccessMeansAvailable, [Next]_vars
    PROVE  SuccessMeansAvailable'
<1>0. dir \in [Dir -> Row] /\ overtaken \in SUBSET Writers
    BY DEF IInv, Shapes
<1> SUFFICES ASSUME task' = "success", "request" \notin overtaken'
             PROVE  snapshot' = "available" /\ AllAvailable'
    BY DEF SuccessMeansAvailable, AllAvailable
<1>1. \A r \in Requests : /\ RetryTask(r) => task = "success"
                          /\ RetryTask(r) => UNCHANGED <<snapshot, dir, overtaken>>
    BY DEF RetryTask
<1>2. ASSUME task = "success", "request" \notin overtaken, UNCHANGED <<snapshot, dir>>
      PROVE  snapshot' = "available" /\ AllAvailable'
    BY <1>2 DEF SuccessMeansAvailable, AllAvailable
<1>3. task = "success" /\ "request" \notin overtaken => snapshot = "available" /\ AllAvailable
    BY DEF SuccessMeansAvailable, AllAvailable
<1>4. ASSUME AllAvailable', snapshot' = Summary(dir')
      PROVE  snapshot' = "available" /\ AllAvailable'
    BY <1>4, SummaryComplete DEF AllAvailable
<1>5. CASE AdvanceEnded
  <2>1. AllAvailable /\ dir' = Refreshed /\ snapshot' = Summary(Refreshed)
      BY <1>3, <1>5 DEF AdvanceEnded
  <2>2. \A d \in Dir : Refreshed[d] = dir[d]
      BY <2>1 DEF AllAvailable, Refreshed, Refresh
  <2>3. AllAvailable'
      BY <2>1, <2>2 DEF AllAvailable
  <2> QED BY <1>4, <2>1, <2>3
<1>6. ASSUME NEW link, NEW capable, NEW stalled, NEW busy,
             AdvanceRun(link, capable, stalled, busy)
      PROVE  snapshot' = "available" /\ AllAvailable'
  <2>1. /\ snapshot' = Summary(dir')
        /\ task' = IF Finished(dir') THEN FinalStatus(dir') ELSE "running"
      BY <1>6 DEF AdvanceRun
  <2>2. Summary(dir') = "available"
      BY <2>1 DEF FinalStatus
  <2>3. AllAvailable'
      BY <2>2, SummaryComplete DEF AllAvailable
  <2> QED BY <2>1, <2>2, <2>3
<1>7. CASE Advance
    BY <1>5, <1>6, <1>7 DEF Advance, AdvanceWaits, AdvanceRefused
<1>8. ~QueueRecovery /\ ~QueueTimeout /\ ~CancelTask
    BY DEF QueueRecovery, QueueTimeout, CancelTask
<1>9. ASSUME NEW d \in Dir, NEW a, Project(d, a)
      PROVE  snapshot' = "available" /\ AllAvailable'
  <2>1. snapshot' = Summary(dir') /\ snapshot' = "available"
      BY <1>9 DEF Project, CorrectedTask
  <2>2. AllAvailable'
      BY <2>1, SummaryComplete DEF AllAvailable
  <2> QED BY <2>1, <2>2
<1>10. ASSUME NEW d \in Dir, NEW a, CommandStep(d, a)
       PROVE  snapshot' = "available" /\ AllAvailable'
  <2>1. CASE ProgressSync(d, a)
    <3>1. /\ task = "success" /\ "request" \notin overtaken /\ snapshot' = snapshot
          /\ dir' = [dir EXCEPT ![d] = [dir[d] EXCEPT !.cmd = a]]
        BY <1>0, <2>1 DEF ProgressSync
    <3>2. \A e \in Dir : dir'[e].status = dir[e].status
        BY <1>0, <3>1 DEF Row
    <3> QED BY <1>3, <3>1, <3>2 DEF AllAvailable
  <2> QED BY <1>2, <1>10, <2>1 DEF CommandStep, Accept, End, Reattach, LateSuccess, TimeOut
<1>11. CASE AgentRestarts \/ OfflineSweep
    BY <1>2, <1>11 DEF AgentRestarts, OfflineSweep, EndAll
<1>12. CASE CancelAgain \/ CancelRead \/ CancellerDies
    BY <1>2, <1>12 DEF CancelAgain, CancelRead, CancellerDies
<1>13. ~CancelDirectory
    BY DEF CancelDirectory, Overtakes
<1>14. CASE CancelSummary
  <2>1. AllAvailable /\ dir' = dir /\ snapshot' = Summary(dir)
      BY <1>3, <1>14 DEF CancelSummary
  <2>2. AllAvailable'
      BY <2>1 DEF AllAvailable
  <2> QED BY <1>4, <2>1, <2>2
<1>15. ASSUME NEW r \in Requests, RetrySave(r)
       PROVE  FALSE
  <2>1. retrier[r].dir \in Dir /\ retrier[r].row.status = "failed"
      BY <1>15 DEF RetrySave, ReadFailed, IInv, RequestsOK, Retriers
  <2>2. task = "success" /\ "request" \notin overtaken /\ dir[retrier[r].dir] = retrier[r].row
      BY <1>15 DEF RetrySave, Overtakes
  <2> QED BY <1>3, <2>1, <2>2 DEF AllAvailable
<1>16. ASSUME NEW r \in Requests, RetryTask(r) \/ RetryDies(r) \/ \E d \in Dir : RetryRead(r, d)
       PROVE  snapshot' = "available" /\ AllAvailable'
    BY <1>1, <1>2, <1>16 DEF RetryDies, RetryRead
<1>17. CASE UNCHANGED vars
    BY <1>2, <1>17 DEF vars
<1> QED BY <1>7, <1>8, <1>9, <1>10, <1>11, <1>12, <1>13, <1>14, <1>15, <1>16, <1>17
        DEF Next, CancelStep

(* A backup task that is a success has a snapshot with every directory,    *)
(* also when late results correct a task that had failed, unless a request *)
(* wrote over the run (_finalize_backup_task, the correction in            *)
(* project_backup_node_task_result, retry_task).                           *)
THEOREM SuccessIsComplete == Spec => []SuccessMeansAvailable
<1>1. Init => IInv /\ ReadFailed /\ SuccessMeansAvailable
    BY InitInv DEF Init, Idle, ReadFailed, SuccessMeansAvailable
<1>2. IInv /\ ReadFailed /\ SuccessMeansAvailable /\ [Next]_vars
        => (IInv /\ ReadFailed /\ SuccessMeansAvailable)'
    BY StepInv, ReadFailedStep, SuccessStep
<1> QED BY <1>1, <1>2, PTL DEF Spec

-----------------------------------------------------------------------------
(* One command at a time                                                   *)

\* Unless a command of the directory came back to life, only the latest one may be
\* live, and the row stands for it.
Single(row, cmds) ==
    \/ \E a \in 1..Len(cmds) : cmds[a].revived
    \/ /\ row.cmd \in {0, Len(cmds)}
       /\ \A a \in 1..Len(cmds) : cmds[a].status \in Live => a = Len(cmds)

Singles == \A d \in Dir : Single(dir[d], command[d])

\* What may change without a second command coming to life.
Calm(row, cmds, row2, cmds2) ==
    /\ Len(cmds2) = Len(cmds) /\ row2.cmd \in {row.cmd, 0, Len(cmds)}
    /\ \A a \in 1..Len(cmds) : /\ cmds[a].revived => cmds2[a].revived
                               /\ cmds2[a].status \in Live => cmds[a].status \in Live

LEMMA CalmKeeps ==
    ASSUME NEW row, NEW cmds, NEW row2, NEW cmds2, Single(row, cmds), Calm(row, cmds, row2, cmds2)
    PROVE  Single(row2, cmds2)
<1>1. Len(cmds2) = Len(cmds) /\ row2.cmd \in {row.cmd, 0, Len(cmds)}
    BY DEF Calm
<1>2. CASE \E a \in 1..Len(cmds) : cmds[a].revived
  <2>1. PICK a \in 1..Len(cmds) : cmds[a].revived
      BY <1>2
  <2>2. cmds2[a].revived
      BY <2>1 DEF Calm
  <2> QED BY <1>1, <2>2 DEF Single
<1>3. CASE ~ \E a \in 1..Len(cmds) : cmds[a].revived
  <2>1. /\ row.cmd \in {0, Len(cmds)}
        /\ \A a \in 1..Len(cmds) : cmds[a].status \in Live => a = Len(cmds)
      BY <1>3 DEF Single
  <2>2. \A a \in 1..Len(cmds) : cmds2[a].status \in Live => a = Len(cmds)
      BY <2>1 DEF Calm
  <2> QED BY <1>1, <2>1, <2>2 DEF Single
<1> QED BY <1>2, <1>3

LEMMA SameCalm ==
    ASSUME NEW row, NEW cmds, NEW row2, row2.cmd = row.cmd
    PROVE  Calm(row, cmds, row2, cmds)
BY DEF Calm

LEMMA CalmStep ==
    ASSUME Singles, \A d \in Dir : Calm(dir[d], command[d], dir'[d], command'[d])
    PROVE  Singles'
BY CalmKeeps DEF Singles

\* One command gets another status, and does not come to life by it.
LEMMA SetCalm ==
    ASSUME NEW cmds \in Seq(Command), NEW a \in 1..Len(cmds), NEW st \in Live \cup Outcome,
           st \in Live => cmds[a].status \in Live,
           NEW cmds2, cmds2 = [cmds EXCEPT ![a] = [cmds[a] EXCEPT !.status = st]]
    PROVE  /\ Len(cmds2) = Len(cmds)
           /\ \A b \in 1..Len(cmds) :
                 /\ cmds[b].revived => cmds2[b].revived
                 /\ cmds2[b].status \in Live => cmds[b].status \in Live
<1> DEFINE c == [cmds[a] EXCEPT !.status = st]
<1>1. cmds[a] \in Command
    OBVIOUS
<1>2. c \in Command /\ c.status = st /\ c.revived = cmds[a].revived
    BY <1>1 DEF Command
<1>3. cmds2 = [cmds EXCEPT ![a] = c]
    OBVIOUS
<1> HIDE DEF c
<1>4. Len(cmds2) = Len(cmds) /\ \A b \in 1..Len(cmds) : cmds2[b] = IF b = a THEN c ELSE cmds[b]
    BY <1>2, <1>3
<1> QED BY <1>2, <1>4

LEMMA OneCommandCalm ==
    ASSUME IInv, Singles, NEW d \in Dir, NEW a \in 1..Len(command[d]), NEW st \in Live \cup Outcome,
           st \in Live => command[d][a].status \in Live, SetStatus(d, a, st), dir' = dir
    PROVE  Singles'
<1>1. command \in [Dir -> Seq(Command)] /\ command[d] \in Seq(Command)
    BY DEF IInv, Shapes
<1> DEFINE k == [command[d] EXCEPT ![a] = [command[d][a] EXCEPT !.status = st]]
<1>2. command' = [command EXCEPT ![d] = k]
    BY DEF SetStatus
<1>3. Calm(dir[d], command[d], dir[d], k)
  <2>1. k = [command[d] EXCEPT ![a] = [command[d][a] EXCEPT !.status = st]]
      OBVIOUS
  <2> HIDE DEF k
  <2>2. /\ Len(k) = Len(command[d])
        /\ \A b \in 1..Len(command[d]) :
              /\ command[d][b].revived => k[b].revived
              /\ k[b].status \in Live => command[d][b].status \in Live
      BY <1>1, <2>1, SetCalm
  <2> QED BY <2>2 DEF Calm
<1> HIDE DEF k
<1>4. command'[d] = k /\ \A e \in Dir \ {d} : command'[e] = command[e]
    BY <1>1, <1>2
<1> QED BY <1>3, <1>4, SameCalm, CalmStep

(* A dispatch appends a command only when the one it sees has ended.       *)
LEMMA DispatchSingle ==
    ASSUME Shapes, NEW d \in Dir, NEW row, Fits(row, command[d], Cardinality(Saved)),
           Single(row, command[d]), NEW granted,
           d \in granted => StatusOf(d, row) \notin Live \cup {"success"},
           NEW cmds2, cmds2 = IF d \in granted THEN Append(command[d], NewCommand(row)) ELSE command[d]
    PROVE  Single(Dispatch(d, row, granted), cmds2)
<1> DEFINE new == Dispatch(d, row, granted)
<1>0. row \in Row /\ command[d] \in Seq(Command) /\ Len(command[d]) \in Nat
    BY FitsBound DEF Fits
<1>1. CASE d \in granted
  <2>1. new.cmd = Len(command[d]) + 1
      BY <1>0, <1>1 DEF Dispatch, Row
  <2>2. NewCommand(row) \in Command
      BY <1>0, NewCommandType
  <2>3. /\ Len(cmds2) = Len(command[d]) + 1
        /\ \A a \in 1..Len(command[d]) : cmds2[a] = command[d][a]
      BY <1>0, <1>1, <2>2
  <2>4. CASE \E a \in 1..Len(command[d]) : command[d][a].revived
      BY <1>0, <2>3, <2>4 DEF Single
  <2>5. CASE ~ \E a \in 1..Len(command[d]) : command[d][a].revived
    <3>1. \A a \in 1..Len(command[d]) : command[d][a].status \notin Live
        BY <1>0, <1>1, <2>5 DEF Single, StatusOf, CurrentOf
    <3>2. \A a \in 1..Len(cmds2) : a \in 1..Len(command[d]) \/ a = Len(cmds2)
        BY <1>0, <2>3
    <3> SUFFICES Single(new, cmds2)
        OBVIOUS
    <3> HIDE DEF new
    <3> QED BY <2>1, <2>3, <3>1, <3>2 DEF Single
  <2> QED BY <2>4, <2>5
<1>2. CASE d \notin granted
  <2>1. new.cmd \in {row.cmd, Len(command[d])}
      BY <1>0, <1>2 DEF Dispatch, CurrentOf, Row
  <2>2. Calm(row, command[d], new, command[d])
      BY <2>1 DEF Calm
  <2> QED BY <1>2, <2>2, CalmKeeps
<1> QED BY <1>1, <1>2

LEMMA ObservedCalm ==
    ASSUME NEW row \in Row, NEW cmds \in Seq(Command), row.cmd <= Len(cmds),
           NEW link, NEW capable \in {"yes", "grace", "no"}, NEW stalled
    PROVE  Calm(row, cmds, ObservedRow(row, cmds, link, capable, stalled),
                ObservedCommands(row, cmds, link, stalled))
<1> DEFINE a == IF row.cmd # 0 THEN row.cmd ELSE Len(cmds)
           bound == [row EXCEPT !.cmd = a]
           new == ObservedRow(row, cmds, link, capable, stalled)
<1>1. bound.cmd = a /\ a \in {row.cmd, Len(cmds)} /\ a \in Nat /\ a <= Len(cmds)
    BY Sizes DEF Row
<1>2. new.cmd \in {row.cmd, 0, Len(cmds)}
  <2>1. bound \in [status : InProgress \cup {"none", "available", "failed", "cancelled"},
                   cmd : {a}, retry : 0..(MaxCommands - 1), error : Error, stopAsked : BOOLEAN]
      BY DEF Row
  <2>2. CASE a = 0
    <3>1. new = [row EXCEPT !.status = "pending"]
        BY <2>2 DEF ObservedRow
    <3> QED BY <3>1 DEF Row
  <2>3. CASE a # 0 /\ cmds[a].status \in Live
    <3>1. new = ObserveLive(bound, cmds[a].status, link, stalled)
        BY <2>3 DEF ObservedRow
    <3> HIDE DEF new, bound
    <3>2. ObserveLive(bound, cmds[a].status, link, stalled).cmd = bound.cmd
        BY <2>1 DEF ObserveLive, Fail
    <3> QED BY <1>1, <3>1, <3>2
  <2>4. CASE a # 0 /\ cmds[a].status \notin Live
    <3>1. new = ObserveEnded(bound, cmds[a].status, link, capable)
        BY <2>4 DEF ObservedRow
    <3> HIDE DEF new, bound
    <3>2. ObserveEnded(bound, cmds[a].status, link, capable).cmd \in {0, bound.cmd}
        BY <2>1 DEF ObserveEnded, Fail, Requeue
    <3> QED BY <1>1, <3>1, <3>2
  <2> QED BY <2>2, <2>3, <2>4
<1> SUFFICES Calm(row, cmds, new, ObservedCommands(row, cmds, link, stalled))
    OBVIOUS
<1>3. CASE ObservedCommands(row, cmds, link, stalled) = cmds
    BY <1>2, <1>3 DEF Calm
<1>4. CASE /\ a # 0 /\ cmds[a].status \in Live
           /\ \E st \in {"offline", "stopping"} :
                 ObservedCommands(row, cmds, link, stalled) = [cmds EXCEPT ![a].status = st]
  <2>1. PICK st \in {"offline", "stopping"} :
           ObservedCommands(row, cmds, link, stalled)
               = [cmds EXCEPT ![a] = [cmds[a] EXCEPT !.status = st]]
      BY <1>4
  <2>2. st \in Live \cup Outcome /\ a \in 1..Len(cmds)
      BY <1>1, <1>4 DEF Live, Outcome
  <2> HIDE DEF new, a
  <2> DEFINE k == ObservedCommands(row, cmds, link, stalled)
  <2> HIDE DEF k
  <2>3. k = [cmds EXCEPT ![a] = [cmds[a] EXCEPT !.status = st]]
      BY <2>1 DEF k
  <2>4. /\ Len(k) = Len(cmds)
        /\ \A b \in 1..Len(cmds) :
              /\ cmds[b].revived => k[b].revived
              /\ k[b].status \in Live => cmds[b].status \in Live
      BY <1>4, <2>2, <2>3, SetCalm
  <2> QED BY <1>2, <2>4 DEF Calm, k
<1>5. \/ ObservedCommands(row, cmds, link, stalled) = cmds
      \/ /\ a # 0 /\ cmds[a].status \in Live
         /\ \E st \in {"offline", "stopping"} :
               ObservedCommands(row, cmds, link, stalled) = [cmds EXCEPT ![a].status = st]
    BY DEF ObservedCommands
<1> QED BY <1>3, <1>4, <1>5

-----------------------------------------------------------------------------
(* What a cancel has to find                                               *)

Asked == {"stopping", "cancelling"}

\* Nothing is at work for a directory that was not asked to stop, or a command of it
\* came back to life.
Settled(cmds) ==
    \/ \E a \in 1..Len(cmds) : cmds[a].revived
    \/ \A a \in 1..Len(cmds) : cmds[a].status \in Live => cmds[a].status \in Asked

\* Work that was not asked to stop belongs to a row in progress that names it; a row
\* whose work was asked to stop once does not go back to waiting with that mark.
Held(row, cmds) ==
    /\ Settled(cmds) \/ (row.status \in InProgress /\ row.cmd = Len(cmds))
    /\ row.stopAsked => /\ row.status \notin {"none", "pending"}
                        /\ Len(cmds) > 0 \/ row.status = "cancelled"
                        /\ Settled(cmds)

Links == {"up", "reconnecting", "down", "gone"}

\* A row that waits for its dispatch although its command is live.
Waits(row, cmds) ==
    /\ row.status = "pending" /\ Len(cmds) > 0
    /\ cmds[IF row.cmd # 0 THEN row.cmd ELSE Len(cmds)].status \in Live

LEMMA CalmSettled ==
    ASSUME NEW cmds, NEW cmds2, Settled(cmds), Len(cmds2) = Len(cmds),
           \A a \in 1..Len(cmds) :
              /\ cmds[a].revived => cmds2[a].revived
              /\ cmds2[a].status \in Live =>
                    cmds2[a].status \in Asked \/ cmds2[a].status = cmds[a].status
    PROVE  Settled(cmds2)
<1>1. CASE \E a \in 1..Len(cmds) : cmds[a].revived
  <2>1. PICK a \in 1..Len(cmds) : cmds[a].revived
      BY <1>1
  <2> QED BY <2>1 DEF Settled
<1>2. CASE \A a \in 1..Len(cmds) : cmds[a].status \in Live => cmds[a].status \in Asked
  <2>1. \A a \in 1..Len(cmds) : cmds2[a].status \in Live => cmds2[a].status \in Asked
      BY <1>2
  <2> QED BY <2>1 DEF Settled
<1> QED BY <1>1, <1>2 DEF Settled

\* The only command that may be at work has ended, or was asked to stop.
LEMMA LatestSettled ==
    ASSUME NEW row, NEW cmds, Single(row, cmds),
           cmds[Len(cmds)].status \notin Live \/ cmds[Len(cmds)].status \in Asked
    PROVE  Settled(cmds)
BY DEF Single, Settled

LEMMA DispatchHeld ==
    ASSUME Shapes, NEW d \in Dir, NEW row, Fits(row, command[d], Cardinality(Saved)),
           Single(row, command[d]), Held(row, command[d]), row.status = "pending", NEW granted,
           d \in granted => StatusOf(d, row) \notin Live \cup {"success"},
           NEW cmds2, cmds2 = IF d \in granted THEN Append(command[d], NewCommand(row)) ELSE command[d]
    PROVE  Held(Dispatch(d, row, granted), cmds2) /\ ~ Waits(Dispatch(d, row, granted), cmds2)
<1> DEFINE new == Dispatch(d, row, granted)
           c == CurrentOf(d, row)
<1>0. /\ row \in Row /\ command[d] \in Seq(Command) /\ Len(command[d]) \in Nat
      /\ row.stopAsked = FALSE
  <2>1. row \in Row /\ command[d] \in Seq(Command) /\ Len(command[d]) \in Nat
      BY FitsBound DEF Fits
  <2>2. ~row.stopAsked
      BY DEF Held
  <2> QED BY <2>1, <2>2 DEF Row
<1>1. new.stopAsked = FALSE
    BY <1>0 DEF Dispatch, Row
<1>6. ~ Waits(new, cmds2)
  <2> SUFFICES ASSUME new.status = "pending", Len(cmds2) > 0
               PROVE  cmds2[IF new.cmd # 0 THEN new.cmd ELSE Len(cmds2)].status \notin Live
      BY DEF Waits
  <2>1. d \notin granted /\ StatusOf(d, row) \notin Live \cup {"success"}
    <3>1. d \in granted => new.status = "dispatching"
        BY <1>0 DEF Dispatch, Row
    <3>2. StatusOf(d, row) = "success" => new.status = "available"
        BY <1>0 DEF Dispatch, Row
    <3>3. StatusOf(d, row) \in Live => new.status \in {"dispatching", "running"}
        BY <1>0 DEF Dispatch, Row, Live
    <3> QED BY <3>1, <3>2, <3>3
  <2>2. new = row /\ cmds2 = command[d]
      BY <2>1 DEF Dispatch
  <2> QED BY <1>0, <2>1, <2>2 DEF StatusOf, CurrentOf
<1> SUFFICES Settled(cmds2) \/ (new.status \in InProgress /\ new.cmd = Len(cmds2))
    BY <1>1, <1>6 DEF Held
<1>2. Settled(command[d]) \/ row.cmd = Len(command[d])
    BY DEF Held
<1>3. CASE d \in granted
  <2>1. new.cmd = Len(command[d]) + 1 /\ new.status = "dispatching"
      BY <1>0, <1>3 DEF Dispatch, Row
  <2>2. NewCommand(row) \in Command
      BY <1>0, NewCommandType
  <2>3. Len(cmds2) = Len(command[d]) + 1
      BY <1>0, <1>3, <2>2
  <2> QED BY <2>1, <2>3 DEF InProgress
<1>4. CASE d \notin granted /\ ~Settled(command[d])
  <2>1. row.cmd = Len(command[d]) /\ cmds2 = command[d]
      BY <1>2, <1>4
  <2>2. command[d][Len(command[d])].status \in Live
      BY <1>4, LatestSettled
  <2>3. Len(command[d]) # 0
      BY <1>0, <1>4 DEF Settled
  <2>4. c = Len(command[d]) /\ StatusOf(d, row) \in Live
      BY <2>1, <2>2, <2>3 DEF CurrentOf, StatusOf
  <2>5. new = [row EXCEPT !.cmd = c,
                   !.status = IF StatusOf(d, row) = "pending" THEN "dispatching" ELSE "running"]
      BY <2>4 DEF Dispatch, Live
  <2> HIDE DEF new, c
  <2>6. new.cmd = c /\ new.status \in InProgress
      BY <1>0, <2>5 DEF Row, InProgress
  <2> QED BY <2>1, <2>4, <2>6
<1>5. CASE d \notin granted /\ Settled(command[d])
    BY <1>5
<1> QED BY <1>3, <1>4, <1>5

LEMMA EndedHeld ==
    ASSUME NEW row \in Row, NEW cmds, Settled(cmds), Len(cmds) > 0,
           row.stopAsked => row.status \notin {"none", "pending"},
           NEW status, NEW link, NEW capable \in {"yes", "grace", "no"}
    PROVE  Held(ObserveEnded(row, status, link, capable), cmds)
<1> DEFINE new == ObserveEnded(row, status, link, capable)
<1>1. \/ new = row
      \/ \E e \in Error : new = Requeue(row, e)
      \/ \E st \in {"available", "failed", "cancelled"}, e \in Error :
            new = [row EXCEPT !.status = st, !.error = e]
  <2>1. {"none", "offline", "final", "repair"} \subseteq Error /\ ErrorOf(status) \in Error
      BY ErrorType DEF Error, Adoptable, Stale
  <2> QED BY <2>1 DEF ObserveEnded, Fail
<1> HIDE DEF new
<1>2. new.stopAsked => new.status \notin {"none", "pending"}
  <2>1. ASSUME NEW e \in Error, new = Requeue(row, e) PROVE new.stopAsked = FALSE
      BY <2>1 DEF Requeue, Row
  <2>2. ASSUME NEW st \in {"available", "failed", "cancelled"}, NEW e \in Error,
               new = [row EXCEPT !.status = st, !.error = e]
        PROVE  new.status = st
      BY <2>2 DEF Row
  <2> QED BY <1>1, <2>1, <2>2
<1>3. Held(new, cmds)
    BY <1>2 DEF Held
<1> QED BY <1>3 DEF new

LEMMA LiveHeld ==
    ASSUME NEW row \in Row, NEW cmds \in Seq(Command), row.status \in InProgress,
           row.cmd \in 1..Len(cmds), cmds[row.cmd].status \in Live, row.status # "pending",
           Single(row, cmds), Held(row, cmds), NEW link \in Links, NEW stalled
    PROVE  Held(ObserveLive(row, cmds[row.cmd].status, link, stalled),
                ObservedCommands(row, cmds, link, stalled))
<1> DEFINE a == row.cmd
           status == cmds[a].status
           new == ObserveLive(row, status, link, stalled)
           cmds2 == ObservedCommands(row, cmds, link, stalled)
           seen == IF row.status = "dispatching" /\ status # "pending"
                   THEN [row EXCEPT !.status = "running"] ELSE row
<1>0. a \in Nat /\ a # 0 /\ Len(cmds) \in Nat /\ Len(cmds) > 0 /\ a \in 1..Len(cmds)
    OBVIOUS
<1>1. Settled(cmds) \/ a = Len(cmds)
    BY <1>0 DEF Held
<1>2. /\ seen \in Row /\ seen.cmd = a /\ seen.stopAsked = row.stopAsked
      /\ seen.status \in InProgress /\ seen.status \in {row.status, "running"}
  <2>1. "running" \in InProgress
      BY DEF InProgress
  <2> QED BY <2>1 DEF Row
<1>3. ~Settled(cmds) => Single(row, cmds) /\ row.stopAsked = FALSE
    BY DEF Held, Row
<1>4. Held(row, cmds) /\ Held(seen, cmds)
    BY <1>0, <1>1, <1>2 DEF Held
<1>5. ASSUME NEW st \in {"offline", "stopping"}, cmds2 = [cmds EXCEPT ![a].status = st]
      PROVE  Settled(cmds2) /\ Len(cmds2) = Len(cmds)
  <2>1. cmds2 = [cmds EXCEPT ![a] = [cmds[a] EXCEPT !.status = st]]
      BY <1>5
  <2>2. st \in Live \cup Outcome /\ (st \in Live => st \in Asked)
      BY DEF Live, Outcome, Asked
  <2> DEFINE c == [cmds[a] EXCEPT !.status = st]
  <2>3. c \in Command /\ c.status = st /\ c.revived = cmds[a].revived
    <3>1. cmds[a] \in Command
        BY <1>0
    <3> QED BY <2>2, <3>1 DEF Command
  <2>4. cmds2 = [cmds EXCEPT ![a] = c]
      BY <2>1
  <2> HIDE DEF c, cmds2, status
  <2>5. Len(cmds2) = Len(cmds) /\ \A b \in 1..Len(cmds) : cmds2[b] = IF b = a THEN c ELSE cmds[b]
      BY <2>3, <2>4
  <2> HIDE DEF a
  <2>6. CASE Settled(cmds)
      BY <2>2, <2>3, <2>5, <2>6, CalmSettled
  <2>7. CASE ~Settled(cmds)
    <3>1. \A b \in 1..Len(cmds) : cmds[b].status \in Live => b = a
        BY <1>1, <2>7 DEF Single, Settled
    <3>2. \A b \in 1..Len(cmds2) : cmds2[b].status \in Live => cmds2[b].status \in Asked
        BY <2>2, <2>3, <2>5, <3>1
    <3> QED BY <2>5, <3>2 DEF Settled
  <2> QED BY <2>5, <2>6, <2>7
<1>6. CASE link = "gone"
  <2>1. new = [row EXCEPT !.status = "failed", !.error = "offline"]
        /\ cmds2 = [cmds EXCEPT ![a].status = "offline"]
      BY <1>0, <1>6 DEF ObserveLive, ObservedCommands, Fail
  <2>2. new.status = "failed"
      BY <2>1 DEF Row
  <2>3. Settled(cmds2) /\ Len(cmds2) = Len(cmds)
      BY <1>5, <2>1
  <2> HIDE DEF new, cmds2
  <2> QED BY <1>0, <2>2, <2>3 DEF Held, new, cmds2
<1>7. CASE link \in {"down", "reconnecting"}
  <2>1. new = row /\ cmds2 = cmds
      BY <1>0, <1>7 DEF ObserveLive, ObservedCommands
  <2> QED BY <1>4, <2>1
<1>8. CASE link = "up" /\ (~stalled \/ status = "pending")
  <2>1. new = seen /\ cmds2 = cmds
      BY <1>0, <1>8 DEF ObserveLive, ObservedCommands
  <2> QED BY <1>4, <2>1
<1>9. CASE link = "up" /\ stalled /\ status # "pending"
  <2>1. CASE row.stopAsked
    <3>1. new = [seen EXCEPT !.status = "failed", !.error = "progress"] /\ cmds2 = cmds
        BY <1>0, <1>2, <1>9, <2>1 DEF ObserveLive, ObservedCommands, Fail
    <3> HIDE DEF seen, new, cmds2
    <3>2. new.status = "failed"
        BY <1>2, <3>1 DEF Row
    <3>3. Settled(cmds)
        BY <1>4, <2>1 DEF Held
    <3> QED BY <1>0, <3>1, <3>2, <3>3 DEF Held, new, cmds2
  <2>2. CASE ~row.stopAsked
    <3>1. new = [seen EXCEPT !.stopAsked = TRUE]
        BY <1>2, <1>9, <2>2 DEF ObserveLive
    <3>2. new.status = seen.status
      <4> HIDE DEF seen, new
      <4> QED BY <1>2, <3>1 DEF Row
    <3>3. seen.status \notin {"none", "pending"}
        BY <1>9 DEF InProgress
    <3>4. Settled(cmds2) /\ Len(cmds2) = Len(cmds)
      <4>1. CASE status = "running"
        <5>1. cmds2 = [cmds EXCEPT ![a].status = "stopping"]
            BY <1>0, <1>9, <2>2, <4>1 DEF ObservedCommands, Live
        <5> QED BY <1>5, <5>1
      <4>2. CASE status # "running"
        <5>1. cmds2 = cmds /\ status \in Asked
            BY <1>0, <1>9, <4>2 DEF ObservedCommands, Live, Asked
        <5> QED BY <1>1, <5>1, LatestSettled
      <4> QED BY <4>1, <4>2
    <3> HIDE DEF seen, new, cmds2
    <3> QED BY <1>0, <3>2, <3>3, <3>4 DEF Held, new, cmds2
  <2> QED BY <2>1, <2>2
<1> QED BY <1>6, <1>7, <1>8, <1>9 DEF Links

LEMMA ObservedHeld ==
    ASSUME NEW row \in Row, NEW cmds \in Seq(Command), row.cmd <= Len(cmds),
           Len(cmds) <= MaxCommands, row.status \in InProgress, Single(row, cmds),
           Held(row, cmds), ~ Waits(row, cmds),
           NEW link \in Links, NEW capable \in {"yes", "grace", "no"}, NEW stalled
    PROVE  Held(ObservedRow(row, cmds, link, capable, stalled),
                ObservedCommands(row, cmds, link, stalled))
<1> DEFINE a == IF row.cmd # 0 THEN row.cmd ELSE Len(cmds)
           bound == [row EXCEPT !.cmd = a]
           new == ObservedRow(row, cmds, link, capable, stalled)
           cmds2 == ObservedCommands(row, cmds, link, stalled)
<1>0. row.cmd \in Nat /\ Len(cmds) \in Nat /\ a \in 0..Len(cmds)
  <2>1. row.cmd \in Nat /\ Len(cmds) \in Nat
      BY Sizes DEF Row
  <2> QED BY <2>1
<1>1. CASE a = 0
  <2>1. new = [row EXCEPT !.status = "pending"] /\ cmds2 = cmds
      BY <1>1 DEF ObservedRow, ObservedCommands
  <2>2. Len(cmds) = 0 /\ ~row.stopAsked
      BY <1>0, <1>1 DEF Held, InProgress
  <2>3. new.stopAsked = row.stopAsked
      BY <2>1 DEF Row
  <2>4. Settled(cmds)
      BY <2>2 DEF Settled
  <2> HIDE DEF new, cmds2
  <2>5. Held(new, cmds2)
      BY <2>1, <2>2, <2>3, <2>4 DEF Held
  <2> QED BY <2>5 DEF new, cmds2
<1>2. CASE a # 0
  <2>1. a \in 1..Len(cmds) /\ Len(cmds) > 0 /\ a \in 0..MaxCommands
      BY <1>0, <1>2, Sizes
  <2>2. a \in {row.cmd, Len(cmds)} /\ (row.cmd = Len(cmds) => a = Len(cmds))
      OBVIOUS
  <2>3. /\ new = IF cmds[a].status \in Live
                 THEN ObserveLive(bound, cmds[a].status, link, stalled)
                 ELSE ObserveEnded(bound, cmds[a].status, link, capable)
      BY <1>2 DEF ObservedRow
  <2>4. bound.cmd = a /\ bound.status = row.status /\ bound.stopAsked = row.stopAsked
      BY DEF Row
  <2>5. cmds2 = ObservedCommands(bound, cmds, link, stalled)
      BY <1>2, <2>4 DEF ObservedCommands
  <2>6. cmds[a].status \notin Live => cmds2 = cmds
      BY <1>2 DEF ObservedCommands
  <2>7. bound \in Row
      BY <2>1 DEF Row
  <2> HIDE DEF a, bound, new, cmds2
  <2>8. Single(bound, cmds) /\ Held(bound, cmds)
    <3>1. Single(bound, cmds)
        BY <2>2, <2>4 DEF Single
    <3>2. Settled(cmds) \/ bound.cmd = Len(cmds)
        BY <2>2, <2>4 DEF Held
    <3> QED BY <2>4, <3>1, <3>2 DEF Held
  <2>9. CASE cmds[a].status \in Live
      <3>1. bound.status \in InProgress /\ bound.status # "pending"
          BY <2>1, <2>4, <2>9 DEF Waits, a
      <3> QED BY <2>1, <2>3, <2>4, <2>5, <2>7, <2>8, <2>9, <3>1, LiveHeld DEF new, cmds2
  <2>10. CASE cmds[a].status \notin Live
    <3>1. Settled(cmds)
        BY <2>4, <2>8, <2>10, LatestSettled DEF Held
    <3>2. bound.stopAsked => bound.status \notin {"none", "pending"}
        BY <2>8 DEF Held
    <3> QED BY <2>1, <2>3, <2>6, <2>7, <2>10, <3>1, <3>2, EndedHeld DEF new, cmds2
  <2> QED BY <2>9, <2>10
<1> QED BY <1>1, <1>2

LEMMA AdvanceRunRow ==
    ASSUME IInv, Singles, NEW link \in Links, NEW capable \in {"yes", "grace", "no"}, NEW stalled,
           NEW busy, AdvanceRun(link, capable, stalled, busy), NEW d \in Dir
    PROVE  /\ Single(dir'[d], command'[d])
           /\ Held(dir[d], command[d]) => Held(dir'[d], command'[d])
<1> DEFINE rows == Rows
           taken == Taken(rows, Free(busy))
           granted == Granted(rows, Free(busy))
           cleared == [e \in Dir |-> IF e \in taken /\ rows[e].error = "repair"
                                     THEN [rows[e] EXCEPT !.error = "none", !.stopAsked = FALSE]
                                     ELSE rows[e]]
           sent == [e \in Dir |-> IF e \in taken THEN Dispatch(e, cleared[e], granted)
                                  ELSE cleared[e]]
           cmds == [e \in Dir |-> IF e \in granted
                                  THEN Append(command[e], NewCommand(rows[e])) ELSE command[e]]
           observed == {e \in Dir : /\ sent[e].status \in InProgress
                                    /\ sent[e].status = "pending" => e \in taken}
<1>1. /\ dir'[d] = IF d \in observed
                   THEN ObservedRow(sent[d], cmds[d], link, capable, d \in stalled) ELSE sent[d]
      /\ command'[d] = IF d \in observed
                       THEN ObservedCommands(sent[d], cmds[d], link, d \in stalled) ELSE cmds[d]
    BY DEF AdvanceRun
<1>2. /\ d \in taken => rows[d].status = "pending"
      /\ d \in granted => d \in taken /\ StatusOf(d, rows[d]) \notin Live \cup {"success"}
    BY DEF Granted, Taken
<1>3. Keeps(dir[d], command[d], rows[d], command[d])
    BY RowsKeep
<1>4. /\ rows[d].cmd = dir[d].cmd /\ rows[d].stopAsked = dir[d].stopAsked
      /\ \/ rows[d].status = dir[d].status
         \/ dir[d].status = "none" /\ rows[d].status = "pending"
  <2>1. dir[d] \in Row
      BY DEF IInv, Shapes
  <2> QED BY <2>1 DEF Rows, Refreshed, Refresh, Row
<1>5. Single(dir[d], command[d]) /\ Fits(dir[d], command[d], Cardinality(Saved)) /\ Shapes
    BY DEF Singles, IInv, RowsFit
<1>6. rows[d] \in Row
    BY <1>3 DEF Keeps
<1>7. /\ cleared[d] \in Row /\ cleared[d].status = rows[d].status
      /\ cleared[d].cmd = rows[d].cmd /\ cleared[d].retry = rows[d].retry
      /\ cleared[d].stopAsked => rows[d].stopAsked
  <2> DEFINE x == [rows[d] EXCEPT !.error = "none", !.stopAsked = FALSE]
  <2>1. /\ x \in Row /\ x.status = rows[d].status /\ x.cmd = rows[d].cmd
        /\ x.retry = rows[d].retry /\ ~x.stopAsked
    <3>1. "none" \in Error
        BY DEF Error
    <3> QED BY <1>6, <3>1 DEF Row
  <2>2. cleared[d] = x \/ cleared[d] = rows[d]
      OBVIOUS
  <2> HIDE DEF x, cleared, rows
  <2> QED BY <1>6, <2>1, <2>2
<1>8. cmds[d] = IF d \in granted THEN Append(command[d], NewCommand(cleared[d])) ELSE command[d]
  <2>1. NewCommand(rows[d]) = NewCommand(cleared[d])
      BY <1>7 DEF NewCommand
  <2> QED BY <2>1
<1>9. sent[d] = IF d \in taken THEN Dispatch(d, cleared[d], granted) ELSE cleared[d]
    OBVIOUS
<1> HIDE DEF rows, taken, granted, cleared, sent, cmds, observed
<1>10. /\ Fits(cleared[d], command[d], Cardinality(Saved)) /\ Single(cleared[d], command[d])
       /\ Held(dir[d], command[d]) => Held(cleared[d], command[d])
  <2>1. Keeps(dir[d], command[d], cleared[d], command[d])
      BY <1>3, <1>7 DEF Keeps, Pend
  <2>2. Calm(dir[d], command[d], cleared[d], command[d])
      BY <1>4, <1>7, SameCalm
  <2>3. Held(dir[d], command[d]) => Held(cleared[d], command[d])
      BY <1>4, <1>7 DEF Held, InProgress
  <2> QED BY <1>5, <2>1, <2>2, <2>3, KeepsFit, CalmKeeps, Sizes
<1>11. StatusOf(d, rows[d]) = StatusOf(d, cleared[d])
    BY <1>7 DEF StatusOf, CurrentOf
<1>12. /\ Fits(sent[d], cmds[d], Cardinality(Saved)) /\ Single(sent[d], cmds[d])
       /\ Held(dir[d], command[d]) => Held(sent[d], cmds[d])
       /\ Held(dir[d], command[d]) /\ d \in taken => ~ Waits(sent[d], cmds[d])
  <2>1. CASE d \in taken
    <3>1. cleared[d].status = "pending" /\ sent[d] = Dispatch(d, cleared[d], granted)
        BY <1>2, <1>7, <1>9, <2>1
    <3>2. d \in granted => StatusOf(d, cleared[d]) \notin Live \cup {"success"}
        BY <1>2, <1>11
    <3>3. /\ Shapes /\ Fits(cleared[d], command[d], Cardinality(Saved))
          /\ Single(cleared[d], command[d])
        BY <1>5, <1>10
    <3>4. Fits(Dispatch(d, cleared[d], granted), cmds[d], Cardinality(Saved))
        BY <1>8, <3>1, <3>2, <3>3, DispatchFits, ZenonT(60)
    <3>5. Single(Dispatch(d, cleared[d], granted), cmds[d])
        BY <1>8, <3>2, <3>3, DispatchSingle, ZenonT(60)
    <3>6. ASSUME Held(dir[d], command[d])
          PROVE  /\ Held(Dispatch(d, cleared[d], granted), cmds[d])
                 /\ ~ Waits(Dispatch(d, cleared[d], granted), cmds[d])
      <4>1. Held(cleared[d], command[d]) /\ cleared[d].status = "pending"
          BY <1>10, <3>1, <3>6
      <4> QED BY <1>8, <3>2, <3>3, <4>1, DispatchHeld, ZenonT(60)
    <3> QED BY <3>1, <3>4, <3>5, <3>6
  <2>2. CASE d \notin taken
      BY <1>2, <1>8, <1>9, <1>10, <2>2
  <2> QED BY <2>1, <2>2
<1>13. CASE d \in observed
  <2>0. sent[d].status \in InProgress /\ (sent[d].status = "pending" => d \in taken)
      BY <1>13 DEF observed
  <2>1. Calm(sent[d], cmds[d], dir'[d], command'[d])
    <3>1. sent[d] \in Row /\ cmds[d] \in Seq(Command) /\ sent[d].cmd <= Len(cmds[d])
        BY <1>12 DEF Fits
    <3> QED BY <1>1, <1>13, <3>1, ObservedCalm
  <2>2. ASSUME Held(dir[d], command[d]) PROVE Held(dir'[d], command'[d])
    <3>1. /\ sent[d] \in Row /\ cmds[d] \in Seq(Command) /\ sent[d].cmd <= Len(cmds[d])
          /\ Len(cmds[d]) <= MaxCommands
      <4>1. sent[d] \in Row /\ cmds[d] \in Seq(Command) /\ sent[d].cmd <= Len(cmds[d])
          BY <1>12 DEF Fits
      <4>2. Len(cmds[d]) \in Nat /\ Len(cmds[d]) + Pend(sent[d]) <= MaxCommands
          BY <1>12, FitsBound
      <4>3. Pend(sent[d]) \in {0, 1}
          BY DEF Pend
      <4> QED BY <4>1, <4>2, <4>3, Sizes
    <3>2. Held(sent[d], cmds[d]) /\ ~ Waits(sent[d], cmds[d])
        BY <1>12, <2>0, <2>2 DEF Waits
    <3> QED BY <1>1, <1>12, <1>13, <2>0, <3>1, <3>2, ObservedHeld
  <2> QED BY <1>12, <2>1, <2>2, CalmKeeps
<1>14. CASE d \notin observed
    BY <1>1, <1>12, <1>14
<1> QED BY <1>13, <1>14

\* Steps that write rows and no command.
LEMMA RowsSingle ==
    ASSUME Singles, command' = command,
           \A d \in Dir : dir'[d].cmd \in {dir[d].cmd, 0}
    PROVE  Singles'
<1>1. \A d \in Dir : Calm(dir[d], command[d], dir'[d], command'[d])
    BY DEF Calm
<1> QED BY <1>1, CalmStep

LEMMA AdvanceSingle ==
    ASSUME IInv, Singles, Advance
    PROVE  Singles'
<1>1. dir \in [Dir -> Row]
    BY DEF IInv, Shapes
<1>2. CASE AdvanceEnded \/ AdvanceWaits \/ \E offline \in BOOLEAN : AdvanceRefused(offline)
  <2>1. command' = command /\ (dir' = dir \/ dir' = Refreshed)
      BY <1>2 DEF AdvanceEnded, AdvanceWaits, AdvanceRefused
  <2>2. \A d \in Dir : Refreshed[d].cmd = dir[d].cmd
      BY <1>1 DEF Refreshed, Refresh, Row
  <2> QED BY <2>1, <2>2, RowsSingle
<1>3. ASSUME NEW link \in Links, NEW capable \in Capable, NEW stalled, NEW busy,
             AdvanceRun(link, capable, stalled, busy)
      PROVE  Singles'
  <2>1. capable \in {"yes", "grace", "no"}
      BY DEF Capable
  <2> QED BY <1>3, <2>1, AdvanceRunRow DEF Singles
<1> QED BY <1>2, <1>3 DEF Advance, Links

LEMMA CommandStepSingle ==
    ASSUME IInv, Singles, NEW d \in Dir, NEW a, CommandStep(d, a)
    PROVE  Singles'
<1>1. command \in [Dir -> Seq(Command)] /\ dir \in [Dir -> Row] /\ command[d] \in Seq(Command)
    BY DEF IInv, Shapes
<1>2. {"success", "failed", "policy", "stopped", "canceled", "sealed", "timeout", "running"}
         \subseteq Live \cup Outcome
    BY DEF Live, Outcome
<1>3. CASE Accept(d, a)
    BY <1>2, <1>3, OneCommandCalm DEF Accept, Live
<1>4. CASE End(d, a)
  <2>1. PICK st \in {"success", "failed", "policy", "stopped", "canceled"} : SetStatus(d, a, st)
      BY <1>4 DEF End
  <2>2. st \notin Live /\ st \in Live \cup Outcome
      BY <1>2 DEF Live
  <2> QED BY <1>4, <2>1, <2>2, OneCommandCalm DEF End
<1>5. CASE ProgressSync(d, a)
  <2> DEFINE row == [dir[d] EXCEPT !.cmd = a]
  <2>1. /\ a \in 1..Len(command[d]) /\ command[d][a].status \in Live /\ command' = command
        /\ dir' = [dir EXCEPT ![d] = row]
      BY <1>1, <1>5 DEF ProgressSync
  <2>2. row.cmd = a
      BY <1>1 DEF Row
  <2> HIDE DEF row
  <2>3. dir'[d] = row /\ \A e \in Dir \ {d} : dir'[e] = dir[e]
      BY <1>1, <2>1
  <2>4. Single(row, command[d])
      BY <2>1, <2>2 DEF Singles, Single
  <2> QED BY <2>1, <2>3, <2>4 DEF Singles
<1>6. CASE Reattach(d, a)
  <2> DEFINE c == [command[d][a] EXCEPT !.status = "running", !.revived = TRUE]
             k == [command[d] EXCEPT ![a] = c]
  <2>1. a \in 1..Len(command[d]) /\ dir' = dir /\ command' = [command EXCEPT ![d] = k]
      BY <1>1, <1>6 DEF Reattach
  <2>2. c.revived
    <3>1. command[d][a] \in Command
        BY <1>1, <2>1
    <3> QED BY <3>1 DEF Command
  <2> HIDE DEF c
  <2>3. Len(k) = Len(command[d]) /\ k[a] = c
      BY <1>1, <2>1
  <2> HIDE DEF k
  <2>4. command'[d] = k /\ \A e \in Dir \ {d} : command'[e] = command[e]
      BY <1>1, <2>1
  <2>5. Single(dir[d], k)
      BY <2>1, <2>2, <2>3 DEF Single
  <2> QED BY <2>1, <2>4, <2>5 DEF Singles
<1>7. CASE LateSuccess(d, a)
    BY <1>2, <1>7, OneCommandCalm DEF LateSuccess, Live
<1>8. CASE TimeOut(d, a)
  <2>1. PICK st \in {"sealed", "timeout"} : SetStatus(d, a, st)
      BY <1>8 DEF TimeOut
  <2>2. st \notin Live /\ st \in Live \cup Outcome
      BY <1>2 DEF Live
  <2> QED BY <1>8, <2>1, <2>2, OneCommandCalm DEF TimeOut
<1> QED BY <1>3, <1>4, <1>5, <1>6, <1>7, <1>8 DEF CommandStep

LEMMA EndAllSingle ==
    ASSUME IInv, Singles, NEW statuses, NEW outcome \in {"restarted", "offline"},
           EndAll(statuses, outcome)
    PROVE  Singles'
<1>1. outcome \notin Live
    BY DEF Live
<1>2. ASSUME NEW d \in Dir PROVE Calm(dir[d], command[d], dir'[d], command'[d])
  <2>1. command[d] \in Seq(Command) /\ Len(command[d]) \in Nat
      BY DEF IInv, Shapes
  <2> DEFINE c(a) == IF command[d][a].status \in statuses
                     THEN [command[d][a] EXCEPT !.status = outcome] ELSE command[d][a]
  <2>2. \A a \in 1..Len(command[d]) : /\ c(a).revived = command[d][a].revived
                                      /\ c(a).status \in Live => command[d][a].status \in Live
    <3> SUFFICES ASSUME NEW a \in 1..Len(command[d])
                 PROVE  /\ c(a).revived = command[d][a].revived
                        /\ c(a).status \in Live => command[d][a].status \in Live
        OBVIOUS
    <3>1. command[d][a] \in Command
        BY <2>1
    <3> QED BY <1>1, <3>1 DEF Command
  <2>3. command'[d] = [a \in 1..Len(command[d]) |-> c(a)] /\ dir' = dir
      BY DEF EndAll
  <2> HIDE DEF c
  <2>4. Len(command'[d]) = Len(command[d])
      BY <2>1, <2>3
  <2>5. \A a \in 1..Len(command[d]) : command'[d][a] = c(a)
      BY <2>3
  <2> QED BY <2>2, <2>3, <2>4, <2>5 DEF Calm
<1> QED BY <1>2, CalmStep

LEMMA CancelDirectorySingle ==
    ASSUME IInv, Singles, CancelDirectory
    PROVE  Singles'
<1>1. PICK d \in canceller.left :
          /\ command' = IF canceller.seen[d] = 0 THEN command
                        ELSE CancelCommand(d, canceller.seen[d])
          /\ dir' = [dir EXCEPT ![d].status = "cancelled", ![d].error = "cancelled",
                                ![d].stopAsked = TRUE]
    BY DEF CancelDirectory
<1> DEFINE a == canceller.seen[d]
<1>2. /\ d \in Dir /\ a \in Nat /\ a <= Len(command[d]) /\ Len(command[d]) \in Nat
      /\ command \in [Dir -> Seq(Command)] /\ dir \in [Dir -> Row] /\ command[d] \in Seq(Command)
    BY DEF IInv, RequestsOK, Cancellers, Shapes
<1>3. \A e \in Dir : dir'[e].cmd = dir[e].cmd
    BY <1>1, <1>2 DEF Row
<1>4. command' = IF a = 0 THEN command ELSE CancelCommand(d, a)
    BY <1>1
<1> HIDE DEF a
<1>5. CASE command' = command
    BY <1>3, <1>5, RowsSingle
<1>6. ASSUME a \in 1..Len(command[d]), command[d][a].status \in Live,
             NEW st \in {"canceled", "cancelling"},
             command' = [command EXCEPT ![d][a].status = st]
      PROVE  Singles'
  <2> DEFINE k == [command[d] EXCEPT ![a] = [command[d][a] EXCEPT !.status = st]]
  <2>1. k = [command[d] EXCEPT ![a] = [command[d][a] EXCEPT !.status = st]]
      OBVIOUS
  <2>2. command' = [command EXCEPT ![d] = k] /\ st \in Live \cup Outcome
      BY <1>6 DEF Live, Outcome
  <2> HIDE DEF k
  <2>3. command'[d] = k /\ \A e \in Dir \ {d} : command'[e] = command[e]
      BY <1>2, <2>2
  <2>4. /\ Len(k) = Len(command[d])
        /\ \A b \in 1..Len(command[d]) :
              /\ command[d][b].revived => k[b].revived
              /\ k[b].status \in Live => command[d][b].status \in Live
      BY <1>2, <1>6, <2>1, <2>2, SetCalm
  <2>5. \A e \in Dir : Calm(dir[e], command[e], dir'[e], command'[e])
      BY <1>3, <2>3, <2>4 DEF Calm
  <2> QED BY <2>5, CalmStep
<1>7. \/ command' = command
      \/ /\ a \in 1..Len(command[d]) /\ command[d][a].status \in Live
         /\ \E st \in {"canceled", "cancelling"} :
               command' = [command EXCEPT ![d][a].status = st]
  <2>1. CASE a = 0
      BY <1>4, <2>1
  <2>2. CASE a # 0
    <3>1. a \in 1..Len(command[d])
        BY <1>2, <2>2
    <3>2. \/ CancelCommand(d, a) = command
          \/ /\ command[d][a].status \in Live
             /\ \E st \in {"canceled", "cancelling"} :
                   CancelCommand(d, a) = [command EXCEPT ![d][a].status = st]
        BY DEF CancelCommand
    <3> QED BY <1>4, <2>2, <3>1, <3>2
  <2> QED BY <2>1, <2>2
<1> QED BY <1>5, <1>6, <1>7

LEMMA SingleStep ==
    ASSUME IInv, Singles, [Next]_vars
    PROVE  Singles'
<1>1. dir \in [Dir -> Row]
    BY DEF IInv, Shapes
<1>2. CASE UNCHANGED <<dir, command>>
    BY <1>2, RowsSingle
<1>3. CASE Advance
    BY <1>3, AdvanceSingle
<1>4. CASE QueueRecovery
    BY <1>2, <1>4 DEF QueueRecovery
<1>5. CASE QueueTimeout
  <2>1. command' = command /\ \A d \in Dir : dir'[d].cmd = dir[d].cmd
      BY <1>1, <1>5 DEF QueueTimeout, Fail, Row
  <2> QED BY <2>1, RowsSingle
<1>6. ASSUME NEW d \in Dir, NEW a, Project(d, a) PROVE Singles'
  <2>1. dir' = [dir EXCEPT ![d] = [dir[d] EXCEPT !.status = "available", !.error = "none"]]
      BY <1>1, <1>6 DEF Project
  <2>2. command' = command /\ \A e \in Dir : dir'[e].cmd = dir[e].cmd
      BY <1>1, <1>6, <2>1 DEF Project, Row
  <2> QED BY <2>2, RowsSingle
<1>7. ASSUME NEW d \in Dir, NEW a, CommandStep(d, a) PROVE Singles'
    BY <1>7, CommandStepSingle
<1>8. CASE AgentRestarts \/ OfflineSweep
    BY <1>8, EndAllSingle DEF AgentRestarts, OfflineSweep
<1>9. CASE CancelTask \/ CancelAgain \/ CancelRead \/ CancelSummary \/ CancellerDies
    BY <1>2, <1>9 DEF CancelTask, CancelAgain, CancelRead, CancelSummary, CancellerDies
<1>10. CASE CancelDirectory
    BY <1>10, CancelDirectorySingle
<1>11. ASSUME NEW r \in Requests, RetrySave(r) PROVE Singles'
  <2>1. retrier[r].dir \in Dir /\ retrier[r].row \in Row
      BY DEF IInv, RequestsOK, Retriers
  <2>2. /\ command' = command
        /\ dir' = [dir EXCEPT ![retrier[r].dir] = Requeue(retrier[r].row, "none")]
      BY <1>11 DEF RetrySave
  <2>3. Requeue(retrier[r].row, "none").cmd = 0
      BY <2>1 DEF Requeue, Row
  <2>4. \A e \in Dir : dir'[e].cmd \in {dir[e].cmd, 0}
      BY <1>1, <2>1, <2>2, <2>3
  <2> QED BY <2>2, <2>4, RowsSingle
<1>12. ASSUME NEW r \in Requests, RetryTask(r) \/ RetryDies(r) \/ \E d \in Dir : RetryRead(r, d)
       PROVE  Singles'
    BY <1>2, <1>12 DEF RetryRead, RetryTask, RetryDies
<1>13. CASE UNCHANGED vars
    BY <1>2, <1>13 DEF vars
<1> QED BY <1>3, <1>4, <1>5, <1>6, <1>7, <1>8, <1>9, <1>10, <1>11, <1>12, <1>13
        DEF Next, CancelStep

LEMMA SinglesOne == IInv /\ Singles => OneLiveCommand
<1> SUFFICES ASSUME IInv, Singles, NEW d \in Dir, ~Revived(d)
             PROVE  Cardinality({c \in LiveCommands : c[1] = d}) <= 1
    BY DEF OneLiveCommand
<1> DEFINE live == {c \in LiveCommands : c[1] = d}
           last == {<<d, Len(command[d])>>}
<1>1. \A a \in 1..Len(command[d]) : command[d][a].status \in Live => a = Len(command[d])
    BY DEF Singles, Single, Revived
<1>2. live \subseteq last
  <2> SUFFICES ASSUME NEW c \in live PROVE c = <<d, Len(command[d])>>
      OBVIOUS
  <2>1. /\ c \in Dir \X (1..MaxCommands) /\ c[1] = d /\ c[2] <= Len(command[d])
        /\ command[d][c[2]].status \in Live
      BY DEF LiveCommands
  <2>2. c = <<c[1], c[2]>> /\ c[2] \in 1..MaxCommands
      BY <2>1
  <2>3. Len(command[d]) \in Nat /\ command[d] \in Seq(Command)
      BY DEF IInv, Shapes
  <2>4. c[2] \in 1..Len(command[d])
      BY <2>1, <2>2, <2>3, Sizes
  <2> QED BY <1>1, <2>1, <2>2, <2>4
<1> HIDE DEF live
<1>3. IsFiniteSet(last) /\ Cardinality(last) = 1
    BY FS_Singleton
<1>4. Cardinality(live) <= Cardinality(last)
    BY <1>2, <1>3, FS_Subset
<1> QED BY <1>3, <1>4 DEF live

(* An Agent never backs one directory up twice at a time for one run, for  *)
(* every number of directories, slots, faults and overlapping requests,    *)
(* unless a command that had been given up came back to life               *)
(* (_dispatch_directory_backup looks at the directory's command before it  *)
(* creates another; reattach_backup_node_task).                            *)
THEOREM OneCommandAtATime == Spec => []OneLiveCommand
<1>1. Init => IInv /\ Singles
  <2> SUFFICES ASSUME Init PROVE Singles
      BY InitInv
  <2> QED BY DEF Init, Singles, Single, NoRow
<1>2. IInv /\ Singles /\ [Next]_vars => (IInv /\ Singles)'
    BY StepInv, SingleStep
<1>3. IInv /\ Singles => OneLiveCommand
    BY SinglesOne
<1> QED BY <1>1, <1>2, <1>3, PTL DEF Spec

-----------------------------------------------------------------------------
(* A cancel reaches the work                                               *)

Helds == \A d \in Dir : Held(dir[d], command[d])

\* What is left for a cancel to do covers what may be at work.
CancelHolds ==
    task = "cancelled" =>
        /\ canceller.pc = "directories" =>
              \A d \in Dir : \/ Settled(command[d])
                             \/ d \in canceller.left /\ canceller.seen[d] = Len(command[d])
        /\ canceller.pc = "idle" => \A d \in Dir : Settled(command[d])

WorkInv == overtaken = {} => Helds /\ CancelHolds

\* A row and its commands change so that what was held, or at rest, remains so.
Rests(row, cmds, row2, cmds2) ==
    /\ Held(row, cmds) => Held(row2, cmds2)
    /\ Len(cmds2) = Len(cmds)
    /\ Settled(cmds) => Settled(cmds2)

LEMMA WorkKept ==
    ASSUME WorkInv, overtaken' = {} => overtaken = {},
           overtaken = {} => \A d \in Dir : Rests(dir[d], command[d], dir'[d], command'[d]),
           task' = "cancelled" => task = "cancelled", UNCHANGED canceller
    PROVE  WorkInv'
<1> SUFFICES ASSUME overtaken = {} PROVE Helds' /\ CancelHolds'
    BY DEF WorkInv
<1>1. Helds /\ CancelHolds
    BY DEF WorkInv
<1>2. Helds'
    BY <1>1 DEF Helds, Rests
<1>3. CancelHolds'
    BY <1>1 DEF CancelHolds, Rests
<1> QED BY <1>2, <1>3

LEMMA SameRests ==
    ASSUME NEW row, NEW cmds
    PROVE  Rests(row, cmds, row, cmds)
BY DEF Rests

\* Commands may end or be asked to stop without any effect on their row.
LEMMA CalmRests ==
    ASSUME NEW row, NEW cmds, NEW cmds2, Len(cmds2) = Len(cmds), Settled(cmds) => Settled(cmds2)
    PROVE  Rests(row, cmds, row, cmds2)
BY DEF Rests, Held

\* A row that leaves what it was doing has nothing at work.
LEMMA LeavingRests ==
    ASSUME NEW row, NEW cmds, NEW row2, Held(row, cmds) => Settled(cmds),
           row2.stopAsked => /\ row2.status \notin {"none", "pending"}
                             /\ row.stopAsked
                             /\ row2.status = row.status \/ row.status # "cancelled"
    PROVE  Rests(row, cmds, row2, cmds)
BY DEF Rests, Held

LEMMA OneCommandRests ==
    ASSUME IInv, NEW d \in Dir, NEW a \in 1..Len(command[d]),
           NEW st \in Live \cup Outcome, SetStatus(d, a, st),
           st \in Live => st \in Asked \/ command[d][a].status \in Live \ Asked,
           NEW e \in Dir
    PROVE  Rests(dir[e], command[e], dir[e], command'[e])
<1>1. command \in [Dir -> Seq(Command)] /\ command[d] \in Seq(Command) /\ Len(command[d]) \in Nat
    BY DEF IInv, Shapes
<1> DEFINE c == [command[d][a] EXCEPT !.status = st]
           k == [command[d] EXCEPT ![a] = c]
<1>2. command' = [command EXCEPT ![d] = k]
    BY DEF SetStatus
<1>3. c \in Command /\ c.status = st /\ c.revived = command[d][a].revived
  <2>1. command[d][a] \in Command
      BY <1>1
  <2> QED BY <2>1 DEF Command
<1> HIDE DEF c
<1>4. Len(k) = Len(command[d]) /\ \A b \in 1..Len(command[d]) : k[b] = IF b = a THEN c ELSE command[d][b]
    BY <1>1, <1>3
<1> HIDE DEF k
<1>5. ASSUME Settled(command[d]) PROVE Settled(k)
  <2>1. CASE \E b \in 1..Len(command[d]) : command[d][b].revived
    <3>1. PICK b \in 1..Len(command[d]) : command[d][b].revived
        BY <2>1
    <3>2. k[b].revived
        BY <1>3, <1>4, <3>1
    <3> QED BY <1>4, <3>2 DEF Settled
  <2>2. CASE \A b \in 1..Len(command[d]) : command[d][b].status \in Live => command[d][b].status \in Asked
    <3>1. st \in Live => st \in Asked
        BY <2>2
    <3>2. \A b \in 1..Len(k) : k[b].status \in Live => k[b].status \in Asked
        BY <1>3, <1>4, <2>2, <3>1
    <3> QED BY <3>2 DEF Settled
  <2> QED BY <1>5, <2>1, <2>2 DEF Settled
<1>6. command'[d] = k /\ (e # d => command'[e] = command[e])
    BY <1>1, <1>2
<1>7. CASE e = d
    BY <1>4, <1>5, <1>6, <1>7, CalmRests
<1>8. CASE e # d
    BY <1>6, <1>8, SameRests
<1> QED BY <1>7, <1>8

LEMMA RefreshedRests ==
    ASSUME IInv, NEW d \in Dir
    PROVE  Rests(dir[d], command[d], Refreshed[d], command[d])
<1>1. dir[d] \in Row
    BY DEF IInv, Shapes
<1>2. /\ Refreshed[d].status = dir[d].status /\ Refreshed[d].cmd = dir[d].cmd
      /\ Refreshed[d].stopAsked = dir[d].stopAsked
    BY <1>1 DEF Refreshed, Refresh, Row
<1> HIDE DEF Refreshed
<1> QED BY <1>2 DEF Rests, Held

LEMMA AdvanceWork ==
    ASSUME IInv, Singles, WorkInv, Advance
    PROVE  WorkInv'
<1>1. CASE AdvanceEnded \/ AdvanceWaits \/ \E offline \in BOOLEAN : AdvanceRefused(offline)
  <2>1. /\ command' = command /\ (dir' = dir \/ dir' = Refreshed)
        /\ UNCHANGED <<canceller, overtaken>> /\ (task' = "cancelled" => task = "cancelled")
      BY <1>1 DEF AdvanceEnded, AdvanceWaits, AdvanceRefused
  <2>2. \A d \in Dir : Rests(dir[d], command[d], dir'[d], command'[d])
      BY <2>1, SameRests, RefreshedRests
  <2> QED BY <2>1, <2>2, WorkKept
<1>2. ASSUME NEW link \in Links, NEW capable \in Capable, NEW stalled, NEW busy,
             AdvanceRun(link, capable, stalled, busy)
      PROVE  WorkInv'
  <2>1. capable \in {"yes", "grace", "no"}
      BY DEF Capable
  <2>2. overtaken' = overtaken /\ task' # "cancelled"
      BY <1>2 DEF AdvanceRun, FinalStatus
  <2>3. overtaken = {} => Helds'
      BY <1>2, <2>1, AdvanceRunRow DEF Helds, WorkInv
  <2> QED BY <2>2, <2>3 DEF WorkInv, CancelHolds
<1> QED BY <1>1, <1>2 DEF Advance, Links

LEMMA QueueTimeoutWork ==
    ASSUME IInv, WorkInv, QueueTimeout
    PROVE  WorkInv'
<1>1. task' = "timeout" /\ overtaken' = (IF LiveCommands # {} THEN overtaken \cup {"queue"} ELSE overtaken)
    BY DEF QueueTimeout, Overtakes
<1>2. CancelHolds'
    BY <1>1 DEF CancelHolds
<1> SUFFICES ASSUME overtaken = {}, LiveCommands = {}, NEW d \in Dir
             PROVE  Held(dir'[d], command'[d])
    BY <1>1, <1>2 DEF WorkInv, Helds
<1>3. /\ dir[d] \in Row /\ command[d] \in Seq(Command) /\ Len(command[d]) \in Nat
      /\ Len(command[d]) <= MaxCommands
  <2>1. Fits(dir[d], command[d], Cardinality(Saved)) /\ dir[d] \in Row
      BY DEF IInv, Shapes, RowsFit
  <2>2. Len(command[d]) \in Nat /\ Len(command[d]) + Pend(dir[d]) <= MaxCommands
      BY <2>1, FitsBound
  <2>3. Pend(dir[d]) \in {0, 1} /\ command[d] \in Seq(Command)
      BY <2>1 DEF Pend, Fits
  <2> QED BY <2>1, <2>2, <2>3, Sizes
<1>4. \A a \in 1..Len(command[d]) : command[d][a].status \notin Live
  <2> SUFFICES ASSUME NEW a \in 1..Len(command[d]), command[d][a].status \in Live PROVE FALSE
      OBVIOUS
  <2>1. a \in 1..MaxCommands /\ a <= Len(command[d])
      BY <1>3, Sizes
  <2>2. <<d, a>> \in LiveCommands
      BY <2>1 DEF LiveCommands
  <2> QED BY <2>2
<1>5. Settled(command[d]) /\ command' = command
    BY <1>4 DEF Settled, QueueTimeout
<1>6. Held(dir[d], command[d])
    BY DEF WorkInv, Helds
<1>7. \/ dir'[d] = dir[d]
      \/ /\ dir[d].status \in InProgress
         /\ dir'[d].status = "failed" /\ dir'[d].stopAsked = dir[d].stopAsked
    BY <1>3 DEF QueueTimeout, Fail, Row
<1> QED BY <1>5, <1>6, <1>7 DEF Held, InProgress

LEMMA ProjectWork ==
    ASSUME IInv, Singles, WorkInv, NEW d \in Dir, NEW a, Project(d, a)
    PROVE  WorkInv'
<1> DEFINE row == [dir[d] EXCEPT !.status = "available", !.error = "none"]
<1>1. dir \in [Dir -> Row] /\ dir[d] \in Row /\ command[d] \in Seq(Command) /\ Len(command[d]) \in Nat
    BY DEF IInv, Shapes
<1>2. /\ a \in 1..Len(command[d]) /\ command[d][a].status = "success" /\ dir[d].cmd = a
      /\ task' \in {"failed", "timeout", "success"} /\ UNCHANGED <<command, canceller, overtaken>>
      /\ dir' = [dir EXCEPT ![d] = row]
    BY <1>1 DEF Project, MatchesAttempt, CorrectedTask
<1>3. row.status = "available" /\ row.stopAsked = dir[d].stopAsked
    BY <1>1 DEF Row
<1>4. dir[d].status # "cancelled"
    BY DEF Project, Recoverable, InProgress
<1> HIDE DEF row
<1>5. Held(dir[d], command[d]) => Settled(command[d])
  <2>1. "success" \notin Live
      BY DEF Live
  <2>2. Single(dir[d], command[d])
      BY DEF Singles
  <2> QED BY <1>2, <2>1, <2>2, LatestSettled DEF Held
<1>6. Rests(dir[d], command[d], row, command[d])
    BY <1>3, <1>4, <1>5, LeavingRests
<1>7. \A e \in Dir : Rests(dir[e], command[e], dir'[e], command'[e])
    BY <1>1, <1>2, <1>6, SameRests
<1> QED BY <1>2, <1>7, WorkKept

LEMMA CommandStepWork ==
    ASSUME IInv, Singles, WorkInv, NEW d \in Dir, NEW a, CommandStep(d, a)
    PROVE  WorkInv'
<1>0. UNCHANGED <<task, canceller, overtaken>> /\ a \in 1..Len(command[d])
    BY DEF CommandStep, Accept, End, ProgressSync, Reattach, LateSuccess, TimeOut
<1>1. /\ command \in [Dir -> Seq(Command)] /\ dir \in [Dir -> Row] /\ command[d] \in Seq(Command)
      /\ command[d][a] \in Command
    BY <1>0 DEF IInv, Shapes
<1> SUFFICES ASSUME NEW e \in Dir
             PROVE  Rests(dir[e], command[e], dir'[e], command'[e])
    BY <1>0, WorkKept
<1>2. ASSUME NEW st \in Live \cup Outcome, SetStatus(d, a, st), dir' = dir,
             st \in Live => command[d][a].status \in Live \ Asked
      PROVE  Rests(dir[e], command[e], dir'[e], command'[e])
    BY <1>0, <1>2, OneCommandRests
<1>3. CASE Accept(d, a)
  <2>1. "running" \in Live \cup Outcome /\ "pending" \in Live \ Asked
      BY DEF Live, Asked
  <2> QED BY <1>2, <1>3, <2>1 DEF Accept
<1>4. CASE End(d, a)
  <2>1. PICK st \in {"success", "failed", "policy", "stopped", "canceled"} : SetStatus(d, a, st)
      BY <1>4 DEF End
  <2>2. st \notin Live /\ st \in Live \cup Outcome
      BY DEF Live, Outcome
  <2> QED BY <1>2, <1>4, <2>1, <2>2 DEF End
<1>5. CASE ProgressSync(d, a)
  <2> DEFINE row == [dir[d] EXCEPT !.cmd = a]
  <2>1. command[d][a].status \in Live /\ command' = command /\ dir' = [dir EXCEPT ![d] = row]
      BY <1>1, <1>5 DEF ProgressSync
  <2>2. row.cmd = a /\ row.status = dir[d].status /\ row.stopAsked = dir[d].stopAsked
      BY <1>1 DEF Row
  <2> HIDE DEF row
  <2>3. ~Settled(command[d]) => a = Len(command[d])
      BY <1>0, <2>1 DEF Singles, Single, Settled
  <2>4. Rests(dir[d], command[d], row, command[d])
      BY <2>2, <2>3 DEF Rests, Held
  <2> QED BY <1>1, <2>1, <2>4, SameRests
<1>6. CASE Reattach(d, a)
  <2> DEFINE c == [command[d][a] EXCEPT !.status = "running", !.revived = TRUE]
             k == [command[d] EXCEPT ![a] = c]
  <2>1. dir' = dir /\ command' = [command EXCEPT ![d] = k]
      BY <1>1, <1>6 DEF Reattach
  <2>2. c.revived
      BY <1>1 DEF Command
  <2> HIDE DEF c
  <2>3. Len(k) = Len(command[d]) /\ k[a] = c
      BY <1>0, <1>1
  <2> HIDE DEF k
  <2>4. Settled(k)
      BY <1>0, <2>2, <2>3 DEF Settled
  <2>5. Rests(dir[d], command[d], dir[d], k)
      BY <2>3, <2>4, CalmRests
  <2> QED BY <1>1, <2>1, <2>5, SameRests
<1>7. CASE LateSuccess(d, a)
  <2>1. "success" \notin Live /\ "success" \in Live \cup Outcome
      BY DEF Live, Outcome
  <2> QED BY <1>2, <1>7, <2>1 DEF LateSuccess
<1>8. CASE TimeOut(d, a)
  <2>1. PICK st \in {"sealed", "timeout"} : SetStatus(d, a, st)
      BY <1>8 DEF TimeOut
  <2>2. st \notin Live /\ st \in Live \cup Outcome
      BY DEF Live, Outcome
  <2> QED BY <1>2, <1>8, <2>1, <2>2 DEF TimeOut
<1> QED BY <1>3, <1>4, <1>5, <1>6, <1>7, <1>8 DEF CommandStep

LEMMA EndAllWork ==
    ASSUME IInv, WorkInv, NEW statuses, NEW outcome \in {"restarted", "offline"},
           EndAll(statuses, outcome)
    PROVE  WorkInv'
<1>1. outcome \notin Live /\ UNCHANGED <<task, dir, canceller, overtaken>>
    BY DEF Live, EndAll
<1>2. ASSUME NEW d \in Dir PROVE Rests(dir[d], command[d], dir'[d], command'[d])
  <2>1. command[d] \in Seq(Command) /\ Len(command[d]) \in Nat
      BY DEF IInv, Shapes
  <2> DEFINE c(a) == IF command[d][a].status \in statuses
                     THEN [command[d][a] EXCEPT !.status = outcome] ELSE command[d][a]
  <2>2. \A a \in 1..Len(command[d]) :
           /\ command[d][a].revived => c(a).revived
           /\ c(a).status \in Live => c(a).status \in Asked \/ c(a).status = command[d][a].status
    <3> SUFFICES ASSUME NEW a \in 1..Len(command[d])
                 PROVE  /\ command[d][a].revived => c(a).revived
                        /\ c(a).status \in Live => c(a).status = command[d][a].status
        OBVIOUS
    <3>1. command[d][a] \in Command
        BY <2>1
    <3> QED BY <1>1, <3>1 DEF Command
  <2>3. command'[d] = [a \in 1..Len(command[d]) |-> c(a)]
      BY DEF EndAll
  <2> HIDE DEF c
  <2>4. Len(command'[d]) = Len(command[d])
      BY <2>1, <2>3
  <2>5. \A a \in 1..Len(command[d]) : command'[d][a] = c(a)
      BY <2>3
  <2>6. \A a \in 1..Len(command[d]) :
           /\ command[d][a].revived => command'[d][a].revived
           /\ command'[d][a].status \in Live =>
                 command'[d][a].status \in Asked \/ command'[d][a].status = command[d][a].status
      BY <2>2, <2>5
  <2>7. Settled(command[d]) => Settled(command'[d])
      BY <2>4, <2>6, CalmSettled
  <2> QED BY <1>1, <2>4, <2>7, CalmRests
<1> QED BY <1>1, <1>2, WorkKept

LEMMA CancelWork ==
    ASSUME IInv, Singles, WorkInv, CancelTask \/ CancelAgain \/ CancelStep \/ CancellerDies
    PROVE  WorkInv'
<1>0. /\ canceller \in Cancellers /\ dir \in [Dir -> Row]
      /\ command \in [Dir -> Seq(Command)] /\ overtaken \in SUBSET Writers
    BY DEF IInv, RequestsOK, Shapes
<1>1. CASE CancelTask \/ CancelAgain \/ CancellerDies
  <2>1. canceller'.pc \in {"read", "dead"} /\ UNCHANGED <<dir, command, overtaken>>
      BY <1>0, <1>1 DEF CancelTask, CancelAgain, CancellerDies, Cancellers
  <2> QED BY <2>1 DEF WorkInv, Helds, CancelHolds
<1>2. CASE CancelRead
  <2>1. /\ canceller'.pc = "directories"
        /\ \A d \in Dir : canceller'.seen[d] = dir[d].cmd
        /\ \A d \in Dir : d \in canceller'.left <=> dir[d].status \in InProgress \cup {"none"}
        /\ UNCHANGED <<dir, command, overtaken, task>>
      BY <1>2 DEF CancelRead
  <2>2. Helds => CancelHolds'
      BY <2>1 DEF Helds, Held, CancelHolds
  <2> QED BY <2>1, <2>2 DEF WorkInv, Helds
<1>3. CASE CancelSummary
  <2>1. /\ canceller.pc = "directories" /\ canceller.left = {} /\ canceller'.pc = "idle"
        /\ UNCHANGED <<dir, command, overtaken, task>>
      BY <1>3 DEF CancelSummary
  <2>2. CancelHolds => CancelHolds'
      BY <2>1 DEF CancelHolds
  <2> QED BY <2>1, <2>2 DEF WorkInv, Helds
<1>4. CASE CancelDirectory
  <2>1. PICK d \in canceller.left :
            /\ command' = IF canceller.seen[d] = 0 THEN command
                          ELSE CancelCommand(d, canceller.seen[d])
            /\ dir' = [dir EXCEPT ![d].status = "cancelled", ![d].error = "cancelled",
                                  ![d].stopAsked = TRUE]
            /\ canceller' = [canceller EXCEPT !.left = @ \ {d}]
      BY <1>4 DEF CancelDirectory
  <2> SUFFICES ASSUME overtaken' = {} PROVE Helds' /\ CancelHolds'
      BY DEF WorkInv
  <2>2. overtaken = {} /\ task = "cancelled" /\ task' = task /\ canceller.pc = "directories"
      BY <1>4 DEF CancelDirectory, Overtakes
  <2>3. Helds /\ CancelHolds
      BY <2>2 DEF WorkInv
  <2> DEFINE a == canceller.seen[d]
             row == [dir[d] EXCEPT !.status = "cancelled", !.error = "cancelled",
                                   !.stopAsked = TRUE]
  <2>4. /\ d \in Dir /\ a \in Nat /\ a <= Len(command[d]) /\ Len(command[d]) \in Nat
        /\ command[d] \in Seq(Command)
      BY <1>0 DEF IInv, RequestsOK, Cancellers
  <2>5. dir' = [dir EXCEPT ![d] = row] /\ row.status = "cancelled"
      BY <1>0, <2>1, <2>4 DEF Row
  <2>6. Settled(command[d]) \/ a = Len(command[d])
      BY <2>2, <2>3, <2>4 DEF CancelHolds
  <2>7. command' = IF a = 0 THEN command ELSE CancelCommand(d, a)
      BY <2>1
  <2> HIDE DEF a, row
  <2>8. \/ command' = command /\ Settled(command[d])
        \/ /\ a \in 1..Len(command[d]) /\ command[d][a].status \in Live
           /\ \E st \in {"canceled", "cancelling"} :
                 command' = [command EXCEPT ![d][a].status = st]
    <3>1. CASE a = 0
        BY <2>4, <2>6, <2>7, <3>1 DEF Settled
    <3>2. CASE a # 0
      <4>1. a \in 1..Len(command[d])
          BY <2>4, <3>2
      <4>2. \/ CancelCommand(d, a) = command /\ command[d][a].status \notin Live
            \/ /\ command[d][a].status \in Live
               /\ \E st \in {"canceled", "cancelling"} :
                     CancelCommand(d, a) = [command EXCEPT ![d][a].status = st]
          BY <3>2 DEF CancelCommand
      <4>3. command[d][a].status \notin Live => Settled(command[d])
        <5>1. Single(dir[d], command[d])
            BY <2>4 DEF Singles
        <5>2. command[d][a].status \notin Live /\ a = Len(command[d])
                 => command[d][Len(command[d])].status \notin Live
            OBVIOUS
        <5> QED BY <2>6, <5>1, <5>2, LatestSettled
      <4> QED BY <2>7, <3>2, <4>1, <4>2, <4>3
    <3> QED BY <3>1, <3>2
  <2>9. Settled(command'[d]) /\ \A e \in Dir \ {d} : command'[e] = command[e]
    <3>1. CASE command' = command /\ Settled(command[d])
        BY <3>1
    <3>2. ASSUME a \in 1..Len(command[d]), command[d][a].status \in Live,
                 NEW st \in {"canceled", "cancelling"},
                 command' = [command EXCEPT ![d][a].status = st]
          PROVE  Settled(command'[d]) /\ \A e \in Dir \ {d} : command'[e] = command[e]
      <4> DEFINE c == [command[d][a] EXCEPT !.status = st]
                 k == [command[d] EXCEPT ![a] = c]
      <4>1. command' = [command EXCEPT ![d] = k]
          BY <3>2
      <4>2. c \in Command /\ c.status = st /\ c.revived = command[d][a].revived
        <5>1. command[d][a] \in Command /\ st \in Live \cup Outcome
            BY <2>4, <3>2 DEF Live, Outcome
        <5> QED BY <5>1 DEF Command
      <4>3. st \in Live => st \in Asked
          BY <3>2 DEF Live, Asked
      <4> HIDE DEF c
      <4>4. /\ Len(k) = Len(command[d])
            /\ \A b \in 1..Len(command[d]) : k[b] = IF b = a THEN c ELSE command[d][b]
          BY <2>4, <4>2
      <4> HIDE DEF k
      <4>5. Settled(k)
        <5>1. CASE Settled(command[d])
            BY <4>2, <4>3, <4>4, <5>1, CalmSettled
        <5>2. CASE ~Settled(command[d])
          <6>1. \A b \in 1..Len(command[d]) : command[d][b].status \in Live => b = a
              BY <2>6, <2>4, <5>2 DEF Singles, Single, Settled
          <6>2. \A b \in 1..Len(k) : k[b].status \in Live => k[b].status \in Asked
              BY <4>2, <4>3, <4>4, <6>1
          <6> QED BY <6>2 DEF Settled
        <5> QED BY <5>1, <5>2
      <4> QED BY <1>0, <2>4, <4>1, <4>5
    <3> QED BY <2>8, <3>1, <3>2
  <2>10. Held(dir'[d], command'[d])
    <3>1. dir'[d] = row
        BY <1>0, <2>4, <2>5
    <3> QED BY <2>5, <2>9, <3>1 DEF Held
  <2>11. \A e \in Dir \ {d} : dir'[e] = dir[e]
      BY <1>0, <2>5
  <2>12. Helds'
      BY <2>3, <2>9, <2>10, <2>11 DEF Helds
  <2>13. canceller'.pc = "directories" /\ canceller'.left = canceller.left \ {d}
         /\ canceller'.seen = canceller.seen
      BY <1>0, <2>1, <2>2 DEF Cancellers
  <2>14. CancelHolds'
      BY <2>2, <2>3, <2>9, <2>13 DEF CancelHolds
  <2> QED BY <2>12, <2>14
<1> QED BY <1>1, <1>2, <1>3, <1>4 DEF CancelStep

LEMMA RetryWork ==
    ASSUME IInv, ReadFailed, WorkInv, NEW r \in Requests,
           \/ RetrySave(r) \/ RetryTask(r) \/ RetryDies(r)
           \/ \E d \in Dir : RetryRead(r, d)
    PROVE  WorkInv'
<1>0. dir \in [Dir -> Row] /\ retrier[r].dir \in Dir /\ retrier[r].row \in Row
    BY DEF IInv, RequestsOK, Retriers, Shapes
<1>1. CASE RetryTask(r) \/ RetryDies(r) \/ \E d \in Dir : RetryRead(r, d)
  <2>1. /\ UNCHANGED <<dir, command, canceller, overtaken>>
        /\ task' = "cancelled" => task = "cancelled"
      BY <1>1 DEF RetryTask, RetryDies, RetryRead
  <2> QED BY <2>1, SameRests, WorkKept
<1>2. CASE RetrySave(r)
  <2> DEFINE d == retrier[r].dir
             row == Requeue(retrier[r].row, "none")
  <2>1. /\ dir' = [dir EXCEPT ![d] = row] /\ UNCHANGED <<task, command, canceller>>
        /\ retrier[r].pc = "save"
        /\ overtaken' = {} => overtaken = {} /\ dir[d] = retrier[r].row
      BY <1>2 DEF RetrySave, Overtakes
  <2>2. row.stopAsked = FALSE
      BY <1>0 DEF Requeue, Row
  <2>3. retrier[r].row.status = "failed"
      BY <2>1 DEF ReadFailed
  <2> HIDE DEF row
  <2>4. ASSUME overtaken' = {} PROVE Rests(dir[d], command[d], row, command[d])
    <3>1. dir[d].status = "failed"
        BY <2>1, <2>3, <2>4
    <3>2. Held(dir[d], command[d]) => Settled(command[d])
        BY <3>1 DEF Held, InProgress
    <3> QED BY <2>2, <3>2, LeavingRests
  <2> SUFFICES ASSUME overtaken' = {} PROVE WorkInv'
      BY DEF WorkInv
  <2>5. \A e \in Dir : Rests(dir[e], command[e], dir'[e], command'[e])
      BY <1>0, <2>1, <2>4, SameRests
  <2> QED BY <2>1, <2>5, WorkKept
<1> QED BY <1>1, <1>2

LEMMA WorkStep ==
    ASSUME IInv, Singles, ReadFailed, WorkInv, [Next]_vars
    PROVE  WorkInv'
<1>1. CASE QueueRecovery \/ UNCHANGED vars
  <2>1. UNCHANGED <<task, dir, command, canceller, overtaken>>
      BY <1>1 DEF QueueRecovery, vars
  <2> QED BY <2>1 DEF WorkInv, Helds, CancelHolds
<1>2. CASE AgentRestarts \/ OfflineSweep
    BY <1>2, EndAllWork DEF AgentRestarts, OfflineSweep
<1> QED BY <1>1, <1>2, AdvanceWork, QueueTimeoutWork, ProjectWork, CommandStepWork, CancelWork,
           RetryWork DEF Next

LEMMA WorkFound == IInv /\ WorkInv => CancelStopsWork
<1> SUFFICES ASSUME IInv, WorkInv, task = "cancelled", canceller.pc = "idle", overtaken = {},
                    NEW c \in LiveCommands
             PROVE  Revived(c[1]) \/ command[c[1]][c[2]].status \in {"stopping", "cancelling"}
    BY DEF CancelStopsWork
<1>1. /\ c[1] \in Dir /\ c[2] \in 1..MaxCommands /\ c[2] <= Len(command[c[1]])
      /\ command[c[1]][c[2]].status \in Live
    BY DEF LiveCommands
<1>2. Len(command[c[1]]) \in Nat
    BY <1>1 DEF IInv, Shapes
<1>3. c[2] \in 1..Len(command[c[1]])
    BY <1>1, <1>2, Sizes
<1>4. Settled(command[c[1]])
    BY <1>1 DEF WorkInv, CancelHolds
<1> QED BY <1>1, <1>3, <1>4 DEF Settled, Asked, Revived

(* When a cancel request has ended, everything of the run that may still   *)
(* be at work was asked to stop: the unlocked rows that the request reads  *)
(* name the only command that can be live, for every number of directories *)
(* and requests, unless a command came back to life or a request or the    *)
(* queue timeout wrote over the run (cancel_backup,                        *)
(* _dispatch_directory_backup, _observe_running_directory).                *)
THEOREM CancelReachesWork == Spec => []CancelStopsWork
<1>1. Init => IInv /\ Singles /\ ReadFailed /\ WorkInv
  <2> SUFFICES ASSUME Init PROVE Singles /\ ReadFailed /\ WorkInv
      BY InitInv
  <2>1. Singles
      BY DEF Init, Singles, Single, NoRow
  <2>2. ReadFailed
      BY DEF Init, ReadFailed, Idle
  <2>3. Helds
      BY DEF Init, Helds, Held, Settled, NoRow
  <2>4. CancelHolds
      BY DEF Init, CancelHolds
  <2> QED BY <2>1, <2>2, <2>3, <2>4 DEF WorkInv
<1>2. IInv /\ Singles /\ ReadFailed /\ WorkInv /\ [Next]_vars
        => (IInv /\ Singles /\ ReadFailed /\ WorkInv)'
    BY StepInv, SingleStep, ReadFailedStep, WorkStep
<1>3. IInv /\ WorkInv => CancelStopsWork
    BY WorkFound
<1> QED BY <1>1, <1>2, <1>3, PTL DEF Spec

=============================================================================
