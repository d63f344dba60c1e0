-------------------------- MODULE UplinkQueue_proofs --------------------------
(***************************************************************************)
(* Theorems about UplinkQueue for every set of workers, every number of    *)
(* frames, every batch size and every bound: the queue keeps what it       *)
(* accepts, and it implements Mailbox.                                     *)
(***************************************************************************)
EXTENDS UplinkQueue, TLAPS, SequenceTheorems, FiniteSetTheorems

-----------------------------------------------------------------------------
(* Numbers and sequences                                                   *)

LEMMA MinOfTwo ==
    ASSUME NEW a \in Int, NEW b \in Int
    PROVE  Min({a, b}) = IF a <= b THEN a ELSE b
<1>1. CASE a <= b
  <2>1. \A x \in {a, b} : (\A y \in {a, b} : x <= y) <=> x = a
      BY <1>1
  <2> QED BY <1>1, <2>1 DEF Min
<1>2. CASE b < a
  <2>1. \A x \in {a, b} : (\A y \in {a, b} : x <= y) <=> x = b
      BY <1>2
  <2> QED BY <1>2, <2>1 DEF Min
<1> QED BY <1>1, <1>2

(* A sequence over some numbers is one over more of them.                  *)
LEMMA LargerRange ==
    ASSUME NEW m \in Nat, NEW n \in Nat, m <= n, NEW s \in Seq(1..m)
    PROVE  s \in Seq(1..n)
<1>1. s \in [1..Len(s) -> 1..m] /\ Len(s) \in Nat
    BY LenProperties
<1>2. s \in [1..Len(s) -> 1..n]
    BY <1>1
<1> QED BY <1>1, <1>2

(* The new entries of a batch, in order.                                   *)
LEMMA FreshEntries ==
    ASSUME NEW d \in Nat, NEW n \in Nat, d <= n,
           NEW s, s = [i \in 1..Cardinality(d + 1 .. n) |-> d + i]
    PROVE  s \in Seq(1..n) /\ Len(s) = n - d
<1>1. Cardinality(d + 1 .. n) = n - d
  <2> DEFINE a == d + 1
  <2>1. a \in Int /\ n \in Int /\ (IF a > n THEN 0 ELSE n - a + 1) = n - d
      OBVIOUS
  <2> HIDE DEF a
  <2>2. Cardinality(a .. n) = n - d
      BY <2>1, FS_Interval
  <2> QED BY <2>2 DEF a
<1> DEFINE k == n - d
<1>0. s = [i \in 1..k |-> d + i]
    BY <1>1
<1>2. s \in [1..k -> 1..n]
  <2>1. \A i \in 1..k : d + i \in 1..n
      OBVIOUS
  <2> HIDE DEF k
  <2> QED BY <1>0, <2>1
<1>3. k \in Nat
    OBVIOUS
<1> HIDE DEF k
<1> DEFINE t == [i \in 1..k |-> d + i]
<1>4. t \in [1..k -> 1..n]
    BY <1>0, <1>2
<1>5. t \in Seq(1..n) /\ Len(t) = k
    BY <1>3, <1>4
<1> QED BY <1>0, <1>1, <1>5 DEF k

(* A read goes on from the last delivered entry, and not beyond the stream. *)
LEMMA ReadBounds ==
    ASSUME NEW d \in Nat, NEW n \in Nat, d <= n, NEW k \in Nat, k <= 1,
           NEW last, last = Min({d + (BatchSize - k), n})
    PROVE  last \in Nat /\ d <= last /\ last <= n
<1> DEFINE a == d + (BatchSize - k)
<1>1. a \in Int /\ a >= d /\ n \in Int
    BY BoundAssumption
<1> HIDE DEF a
<1>2. Min({a, n}) = IF a <= n THEN a ELSE n
    BY <1>1, MinOfTwo
<1>3. last = Min({a, n})
    BY DEF a
<1> QED BY <1>1, <1>2, <1>3

-----------------------------------------------------------------------------
(* The inductive invariant                                                 *)

\* The pending list holds exactly what was delivered and is still in the stream, and
\* the stream everything that was not delivered.
QueueOK ==
  /\ entries \in Seq(Frames) /\ Len(entries) \in 0..MaxEntries
  /\ stream \subseteq Added /\ delivered \in 0..Len(entries)
  /\ \A e \in Added : e > delivered => e \in stream
  /\ DOMAIN pending = {e \in stream : e <= delivered}
  /\ \A e \in DOMAIN pending : pending[e] \in 1..MinDeliveries
  /\ idle \subseteq DOMAIN pending /\ old \subseteq DOMAIN pending /\ cursor \in 0..MaxEntries
  /\ letters \in [Ids -> Nat] /\ \A e \in Ids \ Added : letters[e] = 0
  /\ marker \in 0..Len(entries) /\ markerLate \in BOOLEAN

\* A batch consists of delivered entries, and what is acknowledged was handled.
WorkerOK(r, d, en, ap) ==
  /\ r \in [pc : PCs, batch : Seq(1..d), done : Nat, holds : BOOLEAN]
  /\ r.pc \in {"off", "reclaim", "more", "end"} => r.batch = <<>>
  /\ r.pc = "read" => Len(r.batch) <= 1
  /\ r.pc \in {"handle", "ack", "failed", "quarantine"} => r.batch # <<>>
  /\ r.pc = "ack" => en[Head(r.batch)] \in ap

WorkersOK ==
  /\ worker = [w \in Workers |-> worker[w]]
  /\ \A w \in Workers : WorkerOK(worker[w], delivered, entries, applied)

RestOK == lease \in Workers \cup {NoWorker} /\ applied \subseteq Frames /\ faults \in 0..MaxFaults

\* No frame is lost: it waits, is dead or was processed.
Dead == {e \in Added : letters[e] > 0}
Kept == \A e \in Added : entries[e] \in FramesOf(stream) \cup FramesOf(Dead) \cup applied

IInv == QueueOK /\ WorkersOK /\ RestOK /\ Kept /\ LatestFrameMarked

-----------------------------------------------------------------------------
(* Effects                                                                 *)

(* A new entry gets the next number.                                       *)
LEMMA AddEffect ==
    ASSUME QueueOK, NEW f \in Frames, Add(f)
    PROVE  LET n == Len(entries) + 1 IN
           /\ entries' \in Seq(Frames) /\ Len(entries') = n /\ n \in 1..MaxEntries
           /\ \A e \in Added : entries'[e] = entries[e]
           /\ entries'[n] = f
           /\ stream' = stream \cup {n} /\ Added' = Added \cup {n}
<1>1. entries \in Seq(Frames) /\ Len(entries) \in Nat /\ Len(entries) < MaxEntries /\ MaxEntries \in Nat
    BY BoundAssumption DEF QueueOK, Add
<1>2. entries' = Append(entries, f) /\ stream' = stream \cup {Len(entries')}
    BY DEF Add
<1>3. /\ entries' \in Seq(Frames) /\ Len(entries') = Len(entries) + 1
      /\ \A e \in 1..Len(entries) : entries'[e] = entries[e]
      /\ entries'[Len(entries) + 1] = f
    BY <1>1, <1>2, AppendProperties
<1>4. Added' = Added \cup {Len(entries) + 1}
    BY <1>1, <1>3 DEF Added
<1> QED BY <1>1, <1>2, <1>3, <1>4 DEF Added

(* A worker that goes on leaves the others as they are, while deliveries   *)
(* and entries only grow.                                                  *)
LEMMA WorkerStep ==
    ASSUME WorkersOK, NEW w \in Workers, NEW r,
           worker' = [worker EXCEPT ![w] = r],
           delivered \in Nat, delivered' \in Nat, delivered <= delivered',
           \A e \in 1..delivered : entries'[e] = entries[e], applied \subseteq applied',
           WorkerOK(r, delivered', entries', applied')
    PROVE  WorkersOK'
<1>1. worker' = [v \in Workers |-> IF v = w THEN r ELSE worker[v]]
    BY DEF WorkersOK
<1>2. ASSUME NEW v \in Workers, v # w
      PROVE  WorkerOK(worker[v], delivered', entries', applied')
  <2>1. WorkerOK(worker[v], delivered, entries, applied)
      BY DEF WorkersOK
  <2>2. worker[v].batch \in Seq(1..delivered')
      BY <2>1, LargerRange DEF WorkerOK
  <2>3. worker[v] \in [pc : PCs, batch : Seq(1..delivered'), done : Nat, holds : BOOLEAN]
      BY <2>1, <2>2 DEF WorkerOK
  <2>4. ASSUME worker[v].pc = "ack" PROVE entries'[Head(worker[v].batch)] \in applied'
    <3>1. worker[v].batch # <<>> /\ worker[v].batch \in Seq(1..delivered)
        BY <2>1, <2>4 DEF WorkerOK
    <3>2. Head(worker[v].batch) \in 1..delivered
        BY <3>1, HeadTailProperties
    <3> QED BY <2>1, <2>4, <3>2 DEF WorkerOK
  <2> QED BY <2>1, <2>3, <2>4 DEF WorkerOK
<1> QED BY <1>1, <1>2 DEF WorkersOK

(* The same when no worker does anything.                                  *)
LEMMA WorkersWait ==
    ASSUME WorkersOK, UNCHANGED worker,
           delivered \in Nat, UNCHANGED delivered,
           \A e \in 1..delivered : entries'[e] = entries[e], UNCHANGED applied
    PROVE  WorkersOK'
<1> SUFFICES ASSUME NEW v \in Workers
             PROVE  WorkerOK(worker[v], delivered, entries', applied)
    BY DEF WorkersOK
<1>1. WorkerOK(worker[v], delivered, entries, applied)
    BY DEF WorkersOK
<1>2. ASSUME worker[v].pc = "ack" PROVE entries'[Head(worker[v].batch)] = entries[Head(worker[v].batch)]
  <2>1. worker[v].batch # <<>> /\ worker[v].batch \in Seq(1..delivered)
      BY <1>1, <1>2 DEF WorkerOK
  <2>2. Head(worker[v].batch) \in 1..delivered
      BY <2>1, HeadTailProperties
  <2> QED BY <2>2
<1> QED BY <1>1, <1>2 DEF WorkerOK

(* The entry in hand is a delivered one.                                   *)
LEMMA CurrentEntry ==
    ASSUME IInv, NEW w \in Workers, worker[w].pc \in {"handle", "ack", "failed", "quarantine"}
    PROVE  /\ Current(w) \in 1..delivered /\ Current(w) \in Added /\ Current(w) \in Ids
           /\ entries[Current(w)] \in Frames
           /\ worker[w].batch \in Seq(1..delivered) /\ worker[w].batch # <<>>
           /\ Tail(worker[w].batch) \in Seq(1..delivered)
           /\ Len(Tail(worker[w].batch)) = Len(worker[w].batch) - 1
<1>1. worker[w].batch \in Seq(1..delivered) /\ worker[w].batch # <<>>
    BY DEF IInv, WorkersOK, WorkerOK
<1>2. /\ Head(worker[w].batch) \in 1..delivered /\ Tail(worker[w].batch) \in Seq(1..delivered)
      /\ Len(Tail(worker[w].batch)) = Len(worker[w].batch) - 1
    BY <1>1, HeadTailProperties
<1>3. delivered \in 0..Len(entries) /\ Len(entries) \in 0..MaxEntries /\ entries \in Seq(Frames)
    BY DEF IInv, QueueOK
<1>4. Current(w) \in 1..Len(entries) /\ Current(w) \in 1..MaxEntries
    BY <1>2, <1>3, BoundAssumption DEF Current
<1>5. entries[Current(w)] \in Frames
    BY <1>3, <1>4, LenProperties
<1> QED BY <1>1, <1>2, <1>4, <1>5 DEF Current, Added, Ids

(* The last entry of a batch leaves nothing.                               *)
LEMMA TailOfLast ==
    ASSUME NEW S, NEW s \in Seq(S), s # <<>>
    PROVE  Tail(s) = <<>> <=> Len(s) = 1
<1> DEFINE t == Tail(s)
<1>1. t \in Seq(S) /\ Len(t) = Len(s) - 1 /\ Len(s) \in Nat
    BY HeadTailProperties, LenProperties
<1> HIDE DEF t
<1>2. t = <<>> <=> Len(t) = 0
    BY <1>1, EmptySeq
<1>3. t = <<>> <=> Len(s) = 1
    BY <1>1, <1>2
<1> QED BY <1>3 DEF t

(* The batch goes on.                                                      *)
LEMMA NextEntryEffect ==
    ASSUME IInv, NEW w \in Workers, worker[w].pc \in {"ack", "failed", "quarantine"},
           NEW done \in {0, 1}, NextEntry(w, done), UNCHANGED <<delivered, entries, applied>>
    PROVE  WorkersOK'
<1>1. WorkerOK(worker[w], delivered, entries, applied) /\ WorkersOK /\ delivered \in Nat
    BY DEF IInv, WorkersOK, QueueOK
<1> DEFINE b == worker[w].batch
           last == Len(b) = 1
           full == worker[w].done + done = BatchSize
           r == [pc |-> IF ~last THEN "handle" ELSE IF full THEN "more" ELSE "end",
                 batch |-> Tail(b), done |-> IF last THEN 0 ELSE worker[w].done + done,
                 holds |-> worker[w].holds]
<1>2. worker' = [worker EXCEPT ![w] = r]
  <2> DEFINE p == CASE ~last -> "handle" [] last /\ full -> "more" [] OTHER -> "end"
             d == IF last THEN 0 ELSE worker[w].done + done
  <2>1. p = IF ~last THEN "handle" ELSE IF full THEN "more" ELSE "end"
      OBVIOUS
  <2>2. worker' = [worker EXCEPT ![w] = [worker[w] EXCEPT !.pc = p, !.batch = Tail(b), !.done = d]]
      BY <1>1 DEF NextEntry, WorkersOK
  <2>3. worker[w] \in [pc : PCs, batch : Seq(1..delivered), done : Nat, holds : BOOLEAN]
      BY <1>1 DEF WorkerOK
  <2> DEFINE x == worker[w]
  <2>4. x = [pc |-> x.pc, batch |-> x.batch, done |-> x.done, holds |-> x.holds]
      BY <2>3
  <2> HIDE DEF p, d, x
  <2>5. [x EXCEPT !.pc = p, !.batch = Tail(b), !.done = d]
          = [pc |-> p, batch |-> Tail(b), done |-> d, holds |-> x.holds]
    <3> DEFINE t == Tail(b)
               y == [pc |-> p, batch |-> x.batch, done |-> x.done, holds |-> x.holds]
               z == [pc |-> p, batch |-> t, done |-> x.done, holds |-> x.holds]
    <3> HIDE DEF t
    <3>1. [x EXCEPT !.pc = p] = y
        BY <2>4
    <3>2. [y EXCEPT !.batch = t] = z
        OBVIOUS
    <3>3. [z EXCEPT !.done = d] = [pc |-> p, batch |-> t, done |-> d, holds |-> x.holds]
        OBVIOUS
    <3> HIDE DEF y, z
    <3>4. [x EXCEPT !.pc = p, !.batch = t, !.done = d]
            = [pc |-> p, batch |-> t, done |-> d, holds |-> x.holds]
        BY <3>1, <3>2, <3>3
    <3> QED BY <3>4 DEF t
  <2>6. r = [pc |-> p, batch |-> Tail(b), done |-> d, holds |-> worker[w].holds]
      BY <2>1 DEF d
  <2> HIDE DEF r
  <2> QED BY <2>2, <2>5, <2>6 DEF x
<1>3. Tail(b) \in Seq(1..delivered) /\ (last => Tail(b) = <<>>) /\ (~last => Tail(b) # <<>>)
    BY CurrentEntry, TailOfLast
<1>4. WorkerOK(r, delivered, entries, applied)
  <2>1. r.pc \in {"handle", "more", "end"} /\ r.batch = Tail(b) /\ (r.pc = "handle" <=> ~last)
      OBVIOUS
  <2>2. r.done \in Nat /\ r.holds \in BOOLEAN
      BY <1>1 DEF WorkerOK
  <2>3. r \in [pc : PCs, batch : Seq(1..delivered), done : Nat, holds : BOOLEAN]
      BY <1>3, <2>1, <2>2 DEF PCs
  <2> HIDE DEF r, last
  <2> QED BY <1>3, <2>1, <2>3 DEF WorkerOK
<1> HIDE DEF r
<1>5. /\ delivered' = delivered /\ delivered <= delivered' /\ delivered' \in Nat
      /\ \A e \in 1..delivered : entries'[e] = entries[e]
      /\ applied \subseteq applied' /\ entries' = entries /\ applied' = applied
    BY <1>1
<1>6. WorkerOK(r, delivered', entries', applied')
    BY <1>4, <1>5
<1> QED BY <1>1, <1>2, <1>5, <1>6, WorkerStep

-----------------------------------------------------------------------------
(* The invariant holds initially                                           *)

LEMMA InitInv == Init => IInv
<1> SUFFICES ASSUME Init PROVE IInv
    OBVIOUS
<1> USE BoundAssumption
<1>1. entries = <<>> /\ Len(entries) = 0 /\ entries \in Seq(Frames) /\ Added = {}
    BY DEF Init, Added
<1>2. pending = <<>> /\ DOMAIN pending = {}
    BY DEF Init
<1>3. QueueOK
  <2>1. stream = {} /\ DOMAIN pending = {e \in stream : e <= delivered}
      BY <1>2 DEF Init
  <2>2. letters \in [Ids -> Nat] /\ \A e \in Ids : letters[e] = 0
      BY DEF Init
  <2>3. delivered = 0 /\ idle = {} /\ old = {} /\ cursor = 0 /\ marker = 0
      BY DEF Init
  <2>4. markerLate \in BOOLEAN
      BY DEF Init
  <2> QED BY <1>1, <1>2, <2>1, <2>2, <2>3, <2>4 DEF QueueOK
<1>4. WorkersOK
  <2> SUFFICES ASSUME NEW w \in Workers PROVE WorkerOK(Off, delivered, entries, applied)
      BY DEF Init, WorkersOK
  <2>1. <<>> \in Seq(1..delivered)
      BY EmptySeq
  <2> QED BY <2>1 DEF WorkerOK, Off, PCs
<1>5. RestOK
    BY DEF Init, RestOK
<1>6. Kept /\ LatestFrameMarked
    BY <1>1 DEF Kept, LatestFrameMarked
<1> QED BY <1>3, <1>4, <1>5, <1>6 DEF IInv

-----------------------------------------------------------------------------
(* Every step preserves it                                                 *)

(* Steps of a worker that leave Redis alone: only frames may be added to   *)
(* those that were handled.                                                *)
LEMMA RedisAlone ==
    ASSUME IInv, UNCHANGED redis, applied \subseteq applied'
    PROVE  QueueOK' /\ Kept' /\ LatestFrameMarked'
<1>1. UNCHANGED <<entries, stream, delivered, pending, idle, old, cursor, letters, marker, markerLate>>
    BY DEF redis
<1>2. UNCHANGED Added /\ UNCHANGED Dead
    BY <1>1 DEF Added, Dead
<1>3. QueueOK'
    BY <1>1, <1>2 DEF IInv, QueueOK
<1>4. Kept'
    BY <1>1, <1>2 DEF IInv, Kept, FramesOf
<1>5. LatestFrameMarked'
    BY <1>1, <1>2 DEF IInv, LatestFrameMarked
<1> QED BY <1>3, <1>4, <1>5

(* One worker moves on.                                                    *)
LEMMA WorkerMoves ==
    ASSUME IInv, UNCHANGED redis, applied \subseteq applied', RestOK',
           NEW w \in Workers, NEW r, worker' = [worker EXCEPT ![w] = r],
           WorkerOK(r, delivered, entries, applied')
    PROVE  IInv'
<1>1. UNCHANGED <<entries, delivered>> /\ delivered \in Nat
    BY DEF IInv, QueueOK, redis
<1>2. WorkerOK(r, delivered', entries', applied')
    BY <1>1
<1>3. WorkersOK /\ delivered <= delivered' /\ delivered' \in Nat
    BY <1>1 DEF IInv
<1>4. \A e \in 1..delivered : entries'[e] = entries[e]
    BY <1>1
<1>5. WorkersOK'
    BY <1>1, <1>2, <1>3, <1>4, WorkerStep
<1> QED BY <1>5, RedisAlone DEF IInv

(* The state of a worker as a record.                                      *)
LEMMA WorkerRecord ==
    ASSUME IInv, NEW w \in Workers
    PROVE  /\ WorkerOK(worker[w], delivered, entries, applied)
           /\ worker[w] = [pc |-> worker[w].pc, batch |-> worker[w].batch,
                           done |-> worker[w].done, holds |-> worker[w].holds]
           /\ worker = [v \in Workers |-> worker[v]]
<1>1. WorkersOK
    BY DEF IInv
<1>2. WorkerOK(worker[w], delivered, entries, applied)
    BY <1>1 DEF WorkersOK
<1> QED BY <1>1, <1>2 DEF WorkersOK, WorkerOK

(* A worker that only goes to another place in the code.                   *)
LEMMA WorkerGoes ==
    ASSUME IInv, UNCHANGED redis, applied \subseteq applied', RestOK',
           NEW w \in Workers, NEW p \in PCs, Goto(w, p),
           \/ p = "reclaim" /\ worker[w].pc = "more"
           \/ p \in {"failed", "quarantine"} /\ worker[w].pc \in {"handle", "failed"}
           \/ p = "ack" /\ worker[w].pc = "handle" /\ entries[Current(w)] \in applied'
    PROVE  IInv'
<1> DEFINE r == [pc |-> p, batch |-> worker[w].batch, done |-> worker[w].done,
                 holds |-> worker[w].holds]
<1>1. WorkerOK(worker[w], delivered, entries, applied)
    BY WorkerRecord
<1>2. worker' = [worker EXCEPT ![w] = r]
  <2>1. /\ worker[w] = [pc |-> worker[w].pc, batch |-> worker[w].batch,
                        done |-> worker[w].done, holds |-> worker[w].holds]
        /\ worker = [v \in Workers |-> worker[v]]
      BY WorkerRecord
  <2>2. [worker[w] EXCEPT !.pc = p] = r
      BY <2>1
  <2> QED BY <2>1, <2>2 DEF Goto
<1>3. WorkerOK(r, delivered, entries, applied')
    BY <1>1 DEF WorkerOK, Current
<1> HIDE DEF r
<1> QED BY <1>2, <1>3, WorkerMoves

(* Starting, going on, stopping: the lease and the worker only.            *)
LEMMA LeaseInv ==
    ASSUME IInv, NEW w \in Workers,
           AcquireLease(w) \/ AnotherBatch(w) \/ ReleaseLease(w) \/ RefreshFails(w) \/ WorkerCrash(w)
    PROVE  IInv'
<1> USE BoundAssumption
<1>0. /\ WorkerOK(worker[w], delivered, entries, applied) /\ RestOK
      /\ worker[w] = [pc |-> worker[w].pc, batch |-> worker[w].batch,
                      done |-> worker[w].done, holds |-> worker[w].holds]
      /\ worker = [v \in Workers |-> worker[v]]
    BY WorkerRecord DEF IInv
<1>1. WorkerOK(Off, delivered, entries, applied)
  <2>1. <<>> \in Seq(1..delivered)
      BY EmptySeq
  <2> QED BY <2>1 DEF WorkerOK, Off, PCs
<1>2. CASE AcquireLease(w)
  <2> DEFINE r == [pc |-> "reclaim", batch |-> worker[w].batch, done |-> worker[w].done, holds |-> TRUE]
  <2>1. worker[w].pc = "off" /\ UNCHANGED <<redis, applied>> /\ RestOK'
      BY <1>0, <1>2 DEF AcquireLease, RestOK
  <2>2. [worker[w] EXCEPT !.pc = "reclaim", !.holds = TRUE] = r
    <3> DEFINE h == TRUE
               x == worker[w]
               y == [pc |-> "reclaim", batch |-> x.batch, done |-> x.done, holds |-> x.holds]
    <3>1. [x EXCEPT !.pc = "reclaim"] = y
        BY <1>0
    <3> HIDE DEF h
    <3>2. [y EXCEPT !.holds = h]
            = [pc |-> "reclaim", batch |-> x.batch, done |-> x.done, holds |-> h]
        OBVIOUS
    <3> HIDE DEF x, y
    <3>3. [x EXCEPT !.pc = "reclaim", !.holds = h]
            = [pc |-> "reclaim", batch |-> x.batch, done |-> x.done, holds |-> h]
        BY <3>1, <3>2
    <3> QED BY <3>3 DEF h, x
  <2>3. worker' = [worker EXCEPT ![w] = r]
      BY <1>0, <1>2, <2>2 DEF AcquireLease
  <2>4. WorkerOK(r, delivered, entries, applied')
      BY <1>0, <2>1 DEF WorkerOK, PCs
  <2> HIDE DEF r
  <2> QED BY <2>1, <2>3, <2>4, WorkerMoves
<1>3. CASE AnotherBatch(w)
    BY <1>0, <1>3, WorkerGoes DEF AnotherBatch, RestOK, PCs
<1>4. CASE ReleaseLease(w) \/ WorkerCrash(w)
  <2>1. worker' = [worker EXCEPT ![w] = Off] /\ UNCHANGED <<redis, applied>>
      BY <1>4 DEF ReleaseLease, WorkerCrash, Leave
  <2>2. RestOK'
      BY <1>0, <1>4 DEF ReleaseLease, WorkerCrash, Fault, RestOK
  <2>3. WorkerOK(Off, delivered, entries, applied')
      BY <1>1, <2>1
  <2> QED BY <2>1, <2>2, <2>3, WorkerMoves
<1>5. CASE RefreshFails(w)
  <2> DEFINE r == [pc |-> worker[w].pc, batch |-> worker[w].batch, done |-> worker[w].done,
                   holds |-> FALSE]
  <2>1. UNCHANGED <<redis, applied>> /\ RestOK'
      BY <1>0, <1>5 DEF RefreshFails, Fault, RestOK
  <2>2. [worker[w] EXCEPT !.holds = FALSE] = r
    <3> DEFINE h == FALSE
    <3> HIDE DEF h
    <3>1. [worker[w] EXCEPT !.holds = h]
            = [pc |-> worker[w].pc, batch |-> worker[w].batch, done |-> worker[w].done,
               holds |-> h]
        BY <1>0
    <3> QED BY <3>1 DEF h
  <2>3. worker' = [worker EXCEPT ![w] = r]
      BY <1>0, <1>5, <2>2 DEF RefreshFails
  <2>4. WorkerOK(r, delivered, entries, applied')
      BY <1>0, <2>1 DEF WorkerOK
  <2> HIDE DEF r
  <2> QED BY <2>1, <2>3, <2>4, WorkerMoves
<1> QED BY <1>2, <1>3, <1>4, <1>5

(* Handling an entry, and looking at one that failed.                      *)
LEMMA HandleInv ==
    ASSUME IInv, NEW w \in Workers, HandleUplink(w) \/ CountDeliveries(w)
    PROVE  IInv'
<1> USE BoundAssumption
<1>0. RestOK
    BY DEF IInv
<1>1. CASE HandleUplink(w)
  <2>1. worker[w].pc = "handle" /\ UNCHANGED <<redis, lease, faults>>
      BY <1>1 DEF HandleUplink
  <2>2. entries[Current(w)] \in Frames
      BY <2>1, CurrentEntry
  <2>3. CASE applied' = applied \cup {entries[Current(w)]} /\ Goto(w, "ack")
    <3>1. RestOK' /\ applied \subseteq applied' /\ entries[Current(w)] \in applied'
        BY <1>0, <2>1, <2>2, <2>3 DEF RestOK
    <3> QED BY <2>1, <2>3, <3>1, WorkerGoes DEF PCs
  <2>4. CASE UNCHANGED applied /\ Goto(w, "failed")
    <3>1. RestOK' /\ applied \subseteq applied'
        BY <1>0, <2>1, <2>4 DEF RestOK
    <3> QED BY <2>1, <2>4, <3>1, WorkerGoes DEF PCs
  <2> QED BY <1>1, <2>3, <2>4 DEF HandleUplink
<1>2. CASE CountDeliveries(w)
  <2>1. worker[w].pc = "failed" /\ UNCHANGED <<redis, lease, applied, faults>>
      BY <1>2 DEF CountDeliveries
  <2>2. RestOK' /\ applied \subseteq applied'
      BY <1>0, <2>1 DEF RestOK
  <2>3. CASE Goto(w, "quarantine")
      BY <2>1, <2>2, <2>3, WorkerGoes DEF PCs
  <2>4. CASE NextEntry(w, 0)
    <3>1. UNCHANGED <<delivered, entries, applied>>
        BY <2>1 DEF redis
    <3>2. WorkersOK'
        BY <2>1, <2>4, <3>1, NextEntryEffect
    <3> QED BY <2>1, <2>2, <3>2, RedisAlone DEF IInv
  <2> QED BY <1>2, <2>3, <2>4 DEF CountDeliveries
<1> QED BY <1>1, <1>2

(* Removing an entry that was processed, or is a dead letter now, loses    *)
(* nothing.                                                                *)
LEMMA ForgetEffect ==
    ASSUME IInv, NEW e \in Added, e <= delivered, Forget(e), ClearMarker(e),
           UNCHANGED <<entries, delivered, cursor, markerLate>>,
           letters' \in [Ids -> Nat], \A x \in Ids \ Added : letters'[x] = letters[x],
           \A x \in Ids : letters'[x] >= letters[x],
           entries[e] \in applied \/ letters'[e] > 0, UNCHANGED applied
    PROVE  QueueOK' /\ Kept' /\ LatestFrameMarked'
<1>0. QueueOK /\ Kept /\ LatestFrameMarked
    BY DEF IInv
<1>1. UNCHANGED Added
    BY DEF Added
<1>2. /\ stream' = stream \ {e} /\ DOMAIN pending' = DOMAIN pending \ {e}
      /\ \A x \in DOMAIN pending' : pending'[x] = pending[x]
      /\ idle' = idle \ {e} /\ old' = old \ {e}
    BY DEF Forget
<1>3. marker' \in {0, marker} /\ (marker # e => marker' = marker)
    BY DEF ClearMarker
<1>4. QueueOK'
  <2>1. DOMAIN pending' = {x \in stream' : x <= delivered'}
      BY <1>0, <1>2 DEF QueueOK
  <2>2. \A x \in Ids \ Added : letters'[x] = 0
      BY <1>0 DEF QueueOK
  <2>3. marker' \in 0..Len(entries)
      BY <1>0, <1>3 DEF QueueOK
  <2>4. markerLate' \in BOOLEAN /\ cursor' \in 0..MaxEntries /\ delivered' \in 0..Len(entries')
      BY <1>0 DEF QueueOK
  <2>5. /\ stream' \subseteq Added' /\ idle' \subseteq DOMAIN pending' /\ old' \subseteq DOMAIN pending'
        /\ \A x \in Added' : x > delivered' => x \in stream'
        /\ \A x \in DOMAIN pending' : pending'[x] \in 1..MinDeliveries
    <3>1. \A x \in Added : x > delivered => x # e
        BY <1>0 DEF QueueOK, Added
    <3> QED BY <1>0, <1>1, <1>2, <3>1 DEF QueueOK
  <2>6. entries' \in Seq(Frames) /\ Len(entries') \in 0..MaxEntries
      BY <1>0 DEF QueueOK
  <2> QED BY <1>1, <2>1, <2>2, <2>3, <2>4, <2>5, <2>6 DEF QueueOK
<1>5. Kept'
  <2> SUFFICES ASSUME NEW x \in Added
               PROVE  entries[x] \in FramesOf(stream)' \cup FramesOf(Dead)' \cup applied
      BY <1>1 DEF Kept
  <2>1. Added \subseteq Ids
      BY <1>0, BoundAssumption DEF QueueOK, Added, Ids
  <2>2. \A y \in Added : letters[y] > 0 => letters'[y] > 0
      BY <1>0, <2>1 DEF QueueOK
  <2>3. CASE entries[x] \in FramesOf(stream)
    <3>1. PICK y \in stream : entries[x] = entries[y]
        BY <2>3 DEF FramesOf
    <3>2. CASE y = e
        BY <3>1, <3>2, <1>1 DEF FramesOf, Dead
    <3>3. CASE y # e
        BY <3>1, <3>3, <1>2 DEF FramesOf
    <3> QED BY <3>2, <3>3
  <2>4. CASE entries[x] \in FramesOf(Dead)
      BY <2>2, <2>4, <1>1 DEF FramesOf, Dead
  <2> QED BY <1>0, <2>3, <2>4 DEF Kept
<1>6. LatestFrameMarked'
    BY <1>0, <1>1, <1>2, <1>3 DEF LatestFrameMarked
<1> QED BY <1>4, <1>5, <1>6

(* A new entry, sent by an Agent or replayed from the dead letters: a dead *)
(* letter is taken only for the frame that is queued again.                *)
LEMMA AddInv ==
    ASSUME IInv, NEW f \in Frames, Add(f), letters' \in [Ids -> Nat],
           \A x \in Ids \ Added : letters'[x] = 0,
           \A x \in Added : letters'[x] = letters[x] \/ entries[x] = f,
           UNCHANGED <<delivered, pending, idle, cursor, old, lease, worker, applied, faults>>
    PROVE  IInv'
<1> DEFINE n == Len(entries) + 1
<1>0. QueueOK /\ Kept /\ LatestFrameMarked /\ WorkersOK /\ RestOK
    BY DEF IInv
<1>1. /\ entries' \in Seq(Frames) /\ Len(entries') = n /\ n \in 1..MaxEntries
      /\ \A e \in Added : entries'[e] = entries[e]
      /\ entries'[n] = f /\ stream' = stream \cup {n} /\ Added' = Added \cup {n}
    BY <1>0, AddEffect
<1>2. /\ Len(entries) \in Nat /\ delivered \in 0..Len(entries) /\ stream \subseteq Added
      /\ \A e \in Added : e < n
    BY <1>0, <1>1 DEF QueueOK, Added
<1>3. /\ marker' = IF f \in TaskFrames THEN n ELSE marker
      /\ markerLate' = IF f \in TaskFrames THEN FALSE ELSE markerLate
    BY <1>1 DEF Add
<1>4. QueueOK'
  <2>1. marker' \in 0..Len(entries')
      BY <1>0, <1>1, <1>2, <1>3 DEF QueueOK
  <2>2. markerLate' \in BOOLEAN
    <3>1. CASE f \in TaskFrames
        BY <1>3, <3>1
    <3>2. CASE f \notin TaskFrames
        BY <1>0, <1>3, <3>2 DEF QueueOK
    <3> QED BY <3>1, <3>2
  <2>3. DOMAIN pending' = {e \in stream' : e <= delivered'}
      BY <1>0, <1>1, <1>2 DEF QueueOK
  <2>4. \A x \in Ids \ Added' : letters'[x] = 0
      BY <1>1
  <2>5. /\ stream' \subseteq Added' /\ delivered' \in 0..Len(entries')
        /\ \A e \in Added' : e > delivered' => e \in stream'
      BY <1>0, <1>1, <1>2 DEF QueueOK
  <2>6. Len(entries') \in 0..MaxEntries
      BY <1>1
  <2>7. /\ \A e \in DOMAIN pending' : pending'[e] \in 1..MinDeliveries
        /\ idle' \subseteq DOMAIN pending' /\ old' \subseteq DOMAIN pending'
        /\ cursor' \in 0..MaxEntries
      BY <1>0 DEF QueueOK
  <2> QED BY <1>1, <2>1, <2>2, <2>3, <2>4, <2>5, <2>6, <2>7 DEF QueueOK
<1>5. WorkersOK'
  <2>1. delivered \in Nat /\ \A e \in 1..delivered : entries'[e] = entries[e]
      BY <1>1, <1>2 DEF Added
  <2> QED BY <1>0, <2>1, WorkersWait
<1>6. Kept'
  <2> SUFFICES ASSUME NEW x \in Added'
               PROVE  entries'[x] \in FramesOf(stream)' \cup FramesOf(Dead)' \cup applied
      BY DEF Kept
  <2>1. f \in FramesOf(stream)'
      BY <1>1 DEF FramesOf
  <2>2. CASE x = n
      BY <1>1, <2>1, <2>2
  <2>3. CASE x \in Added /\ entries[x] = f
      BY <1>1, <2>1, <2>3
  <2>4. CASE x \in Added /\ entries[x] # f
    <3>1. CASE entries[x] \in FramesOf(stream)
        BY <1>1, <1>2, <2>4, <3>1 DEF FramesOf
    <3>2. CASE entries[x] \in FramesOf(Dead)
      <4>1. PICK y \in Added : letters[y] > 0 /\ entries[x] = entries[y]
          BY <3>2 DEF FramesOf, Dead
      <4>2. y \in Added' /\ letters'[y] > 0 /\ entries'[y] = entries[x]
          BY <1>1, <2>4, <4>1
      <4> QED BY <1>1, <2>4, <4>2 DEF FramesOf, Dead
    <3>3. CASE entries[x] \in applied
        BY <1>1, <2>4, <3>3
    <3> QED BY <1>0, <2>4, <3>1, <3>2, <3>3 DEF Kept
  <2> QED BY <1>1, <2>2, <2>3, <2>4
<1>7. LatestFrameMarked'
  <2> SUFFICES ASSUME NEW e \in Added', entries'[e] \in TaskFrames, e \in stream',
                      \A x \in Added' : entries'[x] \in TaskFrames => x <= e
               PROVE  marker' = e \/ markerLate'
      BY DEF LatestFrameMarked
  <2>1. CASE e = n
      BY <1>1, <1>3, <2>1
  <2>2. CASE e # n
    <3>1. e \in Added /\ e \in stream /\ entries[e] \in TaskFrames /\ e < n
        BY <1>1, <1>2, <2>2
    <3>2. f \notin TaskFrames
      <4>1. n \in Nat /\ e \in Nat /\ n \in Added' /\ entries'[n] = f /\ e < n
          BY <1>1, <1>2, <3>1 DEF Added
      <4> HIDE DEF n
      <4>2. f \in TaskFrames => n <= e
          BY <4>1
      <4> QED BY <4>1, <4>2
    <3>3. \A x \in Added : entries[x] \in TaskFrames => x <= e
        BY <1>1
    <3>4. marker = e \/ markerLate
        BY <1>0, <3>1, <3>3 DEF LatestFrameMarked
    <3> QED BY <1>3, <3>2, <3>4
  <2> QED BY <2>1, <2>2
<1>8. RestOK'
    BY <1>0 DEF RestOK
<1> QED BY <1>4, <1>5, <1>6, <1>7, <1>8 DEF IInv

(* The actions that add an entry.                                          *)
LEMMA EnqueueInv ==
    ASSUME IInv,
           (\E f \in Frames : EnqueueUplink(f)) \/ (\E e \in Added : ReplayDeadLetter(e))
    PROVE  IInv'
<1> USE BoundAssumption
<1>0. QueueOK /\ Added \subseteq Ids /\ \A e \in Added : entries[e] \in Frames
  <2>1. QueueOK
      BY DEF IInv
  <2>2. entries \in Seq(Frames) /\ Len(entries) \in 0..MaxEntries
      BY <2>1 DEF QueueOK
  <2>3. \A e \in 1..Len(entries) : entries[e] \in Frames
      BY <2>2, LenProperties
  <2> QED BY <2>1, <2>2, <2>3 DEF Added, Ids
<1>1. ASSUME NEW f \in Frames, EnqueueUplink(f) PROVE IInv'
  <2>1. /\ Add(f)
        /\ UNCHANGED <<delivered, pending, idle, cursor, letters, old, lease, worker, applied, faults>>
      BY <1>1 DEF EnqueueUplink
  <2>2. letters' \in [Ids -> Nat] /\ \A x \in Ids \ Added : letters'[x] = 0
      BY <1>0, <2>1 DEF QueueOK
  <2>3. \A x \in Added : letters'[x] = letters[x] \/ entries[x] = f
      BY <2>1
  <2> QED BY <2>1, <2>2, <2>3, AddInv
<1>2. ASSUME NEW e \in Added, ReplayDeadLetter(e) PROVE IInv'
  <2>1. /\ Add(entries[e]) /\ letters[e] > 0 /\ letters' = [letters EXCEPT ![e] = @ - 1]
        /\ UNCHANGED <<delivered, pending, idle, cursor, old, lease, worker, applied, faults>>
      BY <1>2 DEF ReplayDeadLetter
  <2>2. letters \in [Ids -> Nat] /\ e \in Ids /\ entries[e] \in Frames
      BY <1>0 DEF QueueOK
  <2>3. letters' \in [Ids -> Nat] /\ \A x \in Ids \ {e} : letters'[x] = letters[x]
      BY <2>1, <2>2
  <2>4. \A x \in Ids \ Added : letters'[x] = 0
      BY <1>0, <2>3 DEF QueueOK
  <2>5. \A x \in Added : letters'[x] = letters[x] \/ entries[x] = entries[e]
      BY <1>0, <2>3
  <2> QED BY <2>1, <2>2, <2>3, <2>4, <2>5, AddInv
<1> QED BY <1>1, <1>2

(* The end of an entry.                                                    *)
LEMMA AckInv ==
    ASSUME IInv, NEW w \in Workers, AcknowledgeEntry(w) \/ QuarantineFailedEntry(w)
    PROVE  IInv'
<1> USE BoundAssumption
<1> DEFINE e == Current(w)
<1>0. QueueOK /\ RestOK /\ worker[w].pc \in {"ack", "quarantine"}
    BY DEF IInv, AcknowledgeEntry, QuarantineFailedEntry
<1>1. e \in Added /\ e \in Ids /\ e <= delivered /\ letters \in [Ids -> Nat]
    BY <1>0, CurrentEntry DEF QueueOK
<1>2. CASE AcknowledgeEntry(w)
  <2>1. /\ worker[w].pc = "ack" /\ Forget(e) /\ ClearMarker(e) /\ NextEntry(w, 1)
        /\ UNCHANGED <<entries, delivered, cursor, letters, markerLate, lease, applied, faults>>
      BY <1>2 DEF AcknowledgeEntry
  <2>2. entries[e] \in applied
      BY <2>1, WorkerRecord DEF WorkerOK, Current
  <2>3. /\ letters' \in [Ids -> Nat] /\ \A x \in Ids \ Added : letters'[x] = letters[x]
        /\ \A x \in Ids : letters'[x] >= letters[x]
      BY <1>1, <2>1
  <2> HIDE DEF e
  <2>4. QueueOK' /\ Kept' /\ LatestFrameMarked'
      BY <1>1, <2>1, <2>2, <2>3, ForgetEffect
  <2>5. WorkersOK'
      BY <2>1, NextEntryEffect
  <2>6. RestOK'
      BY <1>0, <2>1 DEF RestOK
  <2> QED BY <2>4, <2>5, <2>6 DEF IInv
<1>3. CASE QuarantineFailedEntry(w)
  <2>1. /\ worker[w].pc = "quarantine" /\ NextEntry(w, 0)
        /\ UNCHANGED <<entries, delivered, cursor, markerLate, lease, applied>>
      BY <1>3 DEF QuarantineFailedEntry
  <2>2. WorkersOK'
      BY <2>1, NextEntryEffect
  <2>3. CASE letters' = [letters EXCEPT ![e] = @ + 1] /\ Forget(e) /\ ClearMarker(e) /\ UNCHANGED faults
    <3>1. /\ letters' \in [Ids -> Nat] /\ \A x \in Ids \ {e} : letters'[x] = letters[x]
          /\ letters'[e] = letters[e] + 1
        BY <1>1, <2>3
    <3>2. /\ \A x \in Ids \ Added : letters'[x] = letters[x]
          /\ \A x \in Ids : letters'[x] >= letters[x]
          /\ letters'[e] > 0
        BY <1>1, <3>1
    <3> HIDE DEF e
    <3>3. QueueOK' /\ Kept' /\ LatestFrameMarked'
        BY <1>1, <2>1, <2>3, <3>1, <3>2, ForgetEffect
    <3>4. RestOK'
        BY <1>0, <2>1, <2>3 DEF RestOK
    <3> QED BY <2>2, <3>3, <3>4 DEF IInv
  <2>4. CASE Fault /\ UNCHANGED <<letters, stream, pending, idle, old, marker>>
    <3>1. UNCHANGED redis /\ applied \subseteq applied'
        BY <2>1, <2>4 DEF redis
    <3>2. RestOK'
        BY <1>0, <2>1, <2>4 DEF RestOK, Fault
    <3> QED BY <2>2, <3>1, <3>2, RedisAlone DEF IInv
  <2> QED BY <1>3, <2>3, <2>4 DEF QuarantineFailedEntry
<1> QED BY <1>2, <1>3

(* Time.                                                                   *)
LEMMA TimeInv ==
    ASSUME IInv, (\E e \in Added : BecomesIdle(e) \/ BecomesOld(e)) \/ LeaseExpires \/ MarkerExpires
    PROVE  IInv'
<1>0. QueueOK /\ WorkersOK /\ RestOK /\ Kept /\ LatestFrameMarked
    BY DEF IInv
<1>1. UNCHANGED <<entries, stream, delivered, pending, cursor, letters, worker, applied>>
    BY DEF BecomesIdle, BecomesOld, LeaseExpires, MarkerExpires, redis
<1>2. idle' \subseteq DOMAIN pending /\ old' \subseteq DOMAIN pending
    BY <1>0 DEF QueueOK, BecomesIdle, BecomesOld, LeaseExpires, MarkerExpires, redis
<1>3. /\ UNCHANGED <<marker, markerLate>> \/ (marker' = 0 /\ markerLate')
      /\ markerLate' \in BOOLEAN
    BY <1>0 DEF QueueOK, BecomesIdle, BecomesOld, LeaseExpires, MarkerExpires, redis
<1>4. RestOK'
    BY <1>0, BoundAssumption DEF RestOK, Fault, BecomesIdle, BecomesOld, LeaseExpires, MarkerExpires
<1>5. UNCHANGED <<Added, Dead>>
    BY <1>1 DEF Added, Dead
<1>6. marker' \in 0..Len(entries)
    BY <1>0, <1>3 DEF QueueOK
<1>7. QueueOK'
    BY <1>0, <1>1, <1>2, <1>3, <1>5, <1>6 DEF QueueOK
<1>8. Kept'
    BY <1>0, <1>1, <1>5 DEF Kept, FramesOf
<1>9. LatestFrameMarked'
    BY <1>0, <1>1, <1>3, <1>5 DEF LatestFrameMarked
<1>10. WorkersOK'
    BY <1>0, <1>1 DEF WorkersOK
<1> QED BY <1>4, <1>7, <1>8, <1>9, <1>10 DEF IInv

(* A reclaim delivers a pending entry once more.                           *)
LEMMA ClaimInv ==
    ASSUME IInv, NEW w \in Workers, ClaimStaleEntries(w)
    PROVE  IInv'
<1> USE BoundAssumption
<1> DEFINE claimed == First({e \in idle : e >= cursor})
           next == First({e \in DOMAIN pending : \A c \in claimed : e > c})
<1>0. QueueOK /\ WorkersOK /\ RestOK /\ Kept /\ LatestFrameMarked /\ worker[w].pc = "reclaim"
    BY DEF IInv, ClaimStaleEntries
<1>1. claimed \subseteq DOMAIN pending /\ next \subseteq DOMAIN pending
    BY <1>0 DEF First, QueueOK
<1>2. /\ pending' = [e \in DOMAIN pending |->
                       IF e \in claimed THEN Min({pending[e] + 1, MinDeliveries}) ELSE pending[e]]
      /\ idle' = idle \ claimed
      /\ \/ cursor' \in (IF claimed = {} \/ next = {} THEN {0} ELSE next) /\ UNCHANGED faults
         \/ Fault /\ UNCHANGED cursor
      /\ \E batch \in (IF claimed = {} THEN {<<>>} ELSE {<<e>> : e \in claimed}) :
           worker' = [worker EXCEPT ![w].pc = "read", ![w].batch = batch]
      /\ UNCHANGED <<entries, stream, delivered, letters, marker, markerLate, old, lease, applied>>
    BY DEF ClaimStaleEntries
<1>3. /\ delivered \in 0..Len(entries) /\ Len(entries) \in 0..MaxEntries /\ delivered \in Nat
      /\ DOMAIN pending \subseteq 1..delivered
  <2>1. delivered \in 0..Len(entries) /\ Len(entries) \in 0..MaxEntries /\ delivered \in Nat
      BY <1>0 DEF QueueOK
  <2>2. DOMAIN pending = {e \in stream : e <= delivered} /\ stream \subseteq 1..Len(entries)
      BY <1>0 DEF QueueOK, Added
  <2> QED BY <2>1, <2>2
<1> HIDE DEF claimed, next
<1>4. DOMAIN pending' = DOMAIN pending /\ \A e \in DOMAIN pending : pending'[e] \in 1..MinDeliveries
  <2>1. ASSUME NEW e \in DOMAIN pending PROVE Min({pending[e] + 1, MinDeliveries}) \in 1..MinDeliveries
    <3>1. pending[e] \in 1..MinDeliveries /\ pending[e] + 1 \in Int /\ MinDeliveries \in Int
        BY <1>0 DEF QueueOK
    <3>2. Min({pending[e] + 1, MinDeliveries})
            = IF pending[e] + 1 <= MinDeliveries THEN pending[e] + 1 ELSE MinDeliveries
        BY <3>1, MinOfTwo
    <3> QED BY <3>1, <3>2
  <2> QED BY <1>0, <1>2, <2>1 DEF QueueOK
<1>5. cursor' \in 0..MaxEntries /\ RestOK'
  <2>1. \A c \in next : c \in 0..MaxEntries
      BY <1>1, <1>3
  <2>2. cursor' \in next \cup {0, cursor}
      BY <1>2
  <2>3. cursor \in 0..MaxEntries /\ 0 \in 0..MaxEntries
      BY <1>0 DEF QueueOK
  <2>4. cursor' \in 0..MaxEntries
      BY <2>1, <2>2, <2>3
  <2>5. RestOK'
      BY <1>0, <1>2 DEF RestOK, Fault
  <2> QED BY <2>4, <2>5
<1>6. UNCHANGED <<Added, Dead>>
    BY <1>2 DEF Added, Dead
<1>7. QueueOK'
  <2>1. idle' \subseteq DOMAIN pending' /\ old' \subseteq DOMAIN pending'
      BY <1>0, <1>2, <1>4 DEF QueueOK
  <2>2. DOMAIN pending' = {e \in stream' : e <= delivered'}
      BY <1>0, <1>2, <1>4 DEF QueueOK
  <2>3. /\ entries' \in Seq(Frames) /\ Len(entries') \in 0..MaxEntries
        /\ stream' \subseteq Added' /\ delivered' \in 0..Len(entries')
        /\ \A e \in Added' : e > delivered' => e \in stream'
      BY <1>0, <1>2, <1>6 DEF QueueOK
  <2>4. /\ letters' \in [Ids -> Nat] /\ \A e \in Ids \ Added' : letters'[e] = 0
        /\ marker' \in 0..Len(entries') /\ markerLate' \in BOOLEAN
      BY <1>0, <1>2, <1>6 DEF QueueOK
  <2> QED BY <1>4, <1>5, <2>1, <2>2, <2>3, <2>4 DEF QueueOK
<1>8. Kept' /\ LatestFrameMarked'
    BY <1>0, <1>2, <1>6 DEF Kept, LatestFrameMarked, FramesOf
<1>9. WorkersOK'
  <2>1. PICK batch \in (IF claimed = {} THEN {<<>>} ELSE {<<e>> : e \in claimed}) :
          worker' = [worker EXCEPT ![w].pc = "read", ![w].batch = batch]
      BY <1>2
  <2>2. batch \in Seq(1..delivered) /\ Len(batch) <= 1
    <3>1. CASE claimed = {}
        BY <2>1, <3>1, EmptySeq
    <3>2. ASSUME NEW e \in claimed, batch = <<e>> PROVE batch \in Seq(1..delivered) /\ Len(batch) <= 1
      <4>1. e \in 1..delivered
          BY <1>1, <1>3
      <4> QED BY <3>2, <4>1
    <3> QED BY <2>1, <3>1, <3>2
  <2> DEFINE r == [pc |-> "read", batch |-> batch, done |-> worker[w].done, holds |-> worker[w].holds]
  <2>3. worker' = [worker EXCEPT ![w] = r]
    <3>1. /\ worker[w] = [pc |-> worker[w].pc, batch |-> worker[w].batch,
                          done |-> worker[w].done, holds |-> worker[w].holds]
          /\ worker = [v \in Workers |-> worker[v]]
        BY WorkerRecord
    <3> DEFINE x == worker[w]
               y == [pc |-> "read", batch |-> x.batch, done |-> x.done, holds |-> x.holds]
    <3>2. worker' = [worker EXCEPT ![w] = [x EXCEPT !.pc = "read", !.batch = batch]]
        BY <2>1, <3>1
    <3>3. [x EXCEPT !.pc = "read"] = y
        BY <3>1
    <3> HIDE DEF x
    <3>4. [y EXCEPT !.batch = batch]
            = [pc |-> "read", batch |-> batch, done |-> x.done, holds |-> x.holds]
        OBVIOUS
    <3> HIDE DEF y
    <3>5. [x EXCEPT !.pc = "read", !.batch = batch]
            = [pc |-> "read", batch |-> batch, done |-> x.done, holds |-> x.holds]
        BY <3>3, <3>4
    <3> QED BY <3>2, <3>5 DEF x
  <2>4. WorkerOK(r, delivered, entries, applied)
      BY <2>2, WorkerRecord DEF WorkerOK, PCs
  <2> HIDE DEF r
  <2>5. /\ delivered' = delivered /\ delivered' \in Nat /\ delivered <= delivered'
        /\ \A e \in 1..delivered : entries'[e] = entries[e]
        /\ applied \subseteq applied' /\ WorkerOK(r, delivered', entries', applied')
      BY <1>2, <1>3, <2>4
  <2> QED BY <1>0, <1>3, <2>3, <2>5, WorkerStep
<1> QED BY <1>5, <1>7, <1>8, <1>9 DEF IInv

(* A read delivers the next entries, in order, to the pending list and to  *)
(* the batch.                                                              *)
LEMMA ReadInv ==
    ASSUME IInv, NEW w \in Workers, ReadNewEntries(w)
    PROVE  IInv'
<1> USE BoundAssumption
<1> DEFINE b == worker[w].batch
           last == Min({delivered + (BatchSize - Len(b)), Len(entries)})
           fresh == delivered + 1 .. last
           new == [i \in 1..Cardinality(fresh) |-> delivered + i]
<1>0. QueueOK /\ WorkersOK /\ RestOK /\ Kept /\ LatestFrameMarked /\ worker[w].pc = "read"
    BY DEF IInv, ReadNewEntries
<1>1. /\ b \in Seq(1..delivered) /\ Len(b) \in Nat /\ Len(b) <= 1
      /\ delivered \in Nat /\ Len(entries) \in Nat /\ delivered <= Len(entries)
      /\ Len(entries) \in 0..MaxEntries
  <2>1. b \in Seq(1..delivered) /\ Len(b) <= 1
      BY <1>0, WorkerRecord DEF WorkerOK
  <2>2. Len(b) \in Nat
      BY <2>1, LenProperties
  <2>3. delivered \in 0..Len(entries) /\ Len(entries) \in 0..MaxEntries
      BY <1>0 DEF QueueOK
  <2>4. delivered \in Nat /\ Len(entries) \in Nat /\ delivered <= Len(entries)
      BY <2>3
  <2> QED BY <2>1, <2>2, <2>3, <2>4
<1>2. last \in Nat /\ delivered <= last /\ last <= Len(entries)
  <2> DEFINE k == Len(b)
             n == Len(entries)
             m == last
  <2>1. /\ k \in Nat /\ k <= 1 /\ n \in Nat /\ delivered <= n
        /\ m = Min({delivered + (BatchSize - k), n})
      BY <1>1
  <2> HIDE DEF k, n, m
  <2>2. m \in Nat /\ delivered <= m /\ m <= n
      BY <1>1, <2>1, ReadBounds
  <2> QED BY <2>2 DEF m, n
<1>3. /\ delivered' = last
      /\ pending' = [e \in DOMAIN pending \cup fresh |-> IF e \in fresh THEN 1 ELSE pending[e]]
      /\ UNCHANGED <<entries, stream, idle, cursor, letters, marker, markerLate, old, lease,
                     applied, faults>>
    BY DEF ReadNewEntries
<1>4. worker' = [worker EXCEPT
           ![w].pc = IF b = <<>> /\ fresh = {} THEN "end" ELSE "handle",
           ![w].batch = @ \o new, ![w].done = 0]
    BY DEF ReadNewEntries
<1>5. new \in Seq(1..last) /\ Len(new) = last - delivered /\ (fresh = {} <=> last = delivered)
  <2> HIDE DEF last
  <2>1. delivered \in Nat /\ last \in Nat /\ delivered <= last
      BY <1>1, <1>2
  <2>2. fresh = {} <=> last = delivered
      BY <2>1
  <2>3. new = [i \in 1..Cardinality(delivered + 1 .. last) |-> delivered + i]
      OBVIOUS
  <2> HIDE DEF new
  <2>4. new \in Seq(1..last) /\ Len(new) = last - delivered
      BY <2>1, <2>3, FreshEntries
  <2> QED BY <2>2, <2>4
<1> HIDE DEF last, new
<1>6. UNCHANGED <<Added, Dead>> /\ delivered \in Nat /\ delivered' \in Nat /\ delivered <= delivered'
    BY <1>1, <1>2, <1>3 DEF Added, Dead
<1>7. QueueOK'
  <2>1. fresh \subseteq stream
      BY <1>0, <1>1, <1>2 DEF QueueOK, Added
  <2>2. DOMAIN pending' = {e \in stream' : e <= delivered'}
    <3>1. DOMAIN pending' = {e \in stream : e <= delivered} \cup fresh
      <4>1. DOMAIN pending' = DOMAIN pending \cup fresh
          BY <1>3
      <4> QED BY <1>0, <4>1 DEF QueueOK
    <3>2. stream \subseteq Nat
        BY <1>0 DEF QueueOK, Added
    <3>3. {e \in stream : e <= last} = {e \in stream : e <= delivered} \cup fresh
      <4>1. \A e \in Nat : e <= last <=> e <= delivered \/ e \in fresh
          BY <1>1, <1>2
      <4> HIDE DEF fresh
      <4> QED BY <2>1, <3>2, <4>1
    <3>4. delivered' = last /\ stream' = stream
        BY <1>3
    <3> QED BY <3>1, <3>3, <3>4
  <2>3. \A e \in DOMAIN pending' : pending'[e] \in 1..MinDeliveries
    <3>1. \A e \in DOMAIN pending : pending[e] \in 1..MinDeliveries
        BY <1>0 DEF QueueOK
    <3>2. 1 \in 1..MinDeliveries
        OBVIOUS
    <3>3. pending' = [e \in DOMAIN pending \cup fresh |-> IF e \in fresh THEN 1 ELSE pending[e]]
        BY <1>3
    <3> HIDE DEF fresh
    <3> QED BY <3>1, <3>2, <3>3
  <2>4. idle' \subseteq DOMAIN pending' /\ old' \subseteq DOMAIN pending'
      BY <1>0, <1>3 DEF QueueOK
  <2>5. /\ entries' \in Seq(Frames) /\ Len(entries') \in 0..MaxEntries
        /\ stream' \subseteq Added' /\ delivered' \in 0..Len(entries')
        /\ \A e \in Added' : e > delivered' => e \in stream'
    <3>1. delivered' \in 0..Len(entries)
      <4>1. delivered' = last
          BY <1>3
      <4> QED BY <1>1, <1>2, <4>1
    <3>2. \A e \in Added : e > delivered' => e \in stream
        BY <1>0, <1>6 DEF QueueOK, Added
    <3> QED BY <1>0, <1>3, <1>6, <3>1, <3>2 DEF QueueOK
  <2>6. /\ letters' \in [Ids -> Nat] /\ \A e \in Ids \ Added' : letters'[e] = 0
        /\ marker' \in 0..Len(entries') /\ markerLate' \in BOOLEAN /\ cursor' \in 0..MaxEntries
      BY <1>0, <1>3, <1>6 DEF QueueOK
  <2> QED BY <2>2, <2>3, <2>4, <2>5, <2>6 DEF QueueOK
<1>8. Kept' /\ LatestFrameMarked' /\ RestOK'
    BY <1>0, <1>3, <1>6 DEF Kept, LatestFrameMarked, FramesOf, RestOK
<1>9. WorkersOK'
  <2> DEFINE p == IF b = <<>> /\ fresh = {} THEN "end" ELSE "handle"
             r == [pc |-> p, batch |-> b \o new, done |-> 0, holds |-> worker[w].holds]
  <2>1. b \o new \in Seq(1..delivered') /\ Len(b \o new) = Len(b) + Len(new)
    <3>1. b \in Seq(1..delivered') /\ new \in Seq(1..delivered')
        BY <1>1, <1>3, <1>5, <1>6, LargerRange
    <3> HIDE DEF b, new
    <3> QED BY <3>1, ConcatProperties
  <2>2. b \o new = <<>> <=> b = <<>> /\ fresh = {}
    <3>1. Len(b) = 0 <=> b = <<>>
        BY <1>1, EmptySeq
    <3>2. b \o new = <<>> <=> Len(b \o new) = 0
      <4> DEFINE c == b \o new
      <4>1. c \in Seq(1..delivered')
          BY <2>1
      <4> HIDE DEF c
      <4>2. c = <<>> <=> Len(c) = 0
          BY <4>1, EmptySeq
      <4> QED BY <4>2 DEF c
    <3>3. Len(b \o new) = 0 <=> Len(b) = 0 /\ Len(new) = 0
      <4>1. Len(new) \in Nat
          BY <1>1, <1>2, <1>5
      <4>2. Len(b) \in Nat /\ Len(b \o new) = Len(b) + Len(new)
          BY <1>1, <2>1
      <4> HIDE DEF b
      <4> QED BY <4>1, <4>2
    <3>4. Len(new) = 0 <=> fresh = {}
        BY <1>1, <1>2, <1>5
    <3> QED BY <3>1, <3>2, <3>3, <3>4
  <2>3. worker' = [worker EXCEPT ![w] = r]
    <3>1. /\ worker[w] = [pc |-> worker[w].pc, batch |-> worker[w].batch,
                          done |-> worker[w].done, holds |-> worker[w].holds]
          /\ worker = [v \in Workers |-> worker[v]]
        BY WorkerRecord
    <3> DEFINE x == worker[w]
               c == b \o new
               y == [pc |-> p, batch |-> x.batch, done |-> x.done, holds |-> x.holds]
               z == [pc |-> p, batch |-> c, done |-> x.done, holds |-> x.holds]
    <3>2. worker' = [worker EXCEPT ![w] = [x EXCEPT !.pc = p, !.batch = c, !.done = 0]]
        BY <1>4, <3>1
    <3>3. x = [pc |-> x.pc, batch |-> x.batch, done |-> x.done, holds |-> x.holds]
        BY <3>1
    <3> HIDE DEF x, c, p
    <3>4. [x EXCEPT !.pc = p] = y
        BY <3>3
    <3>5. [y EXCEPT !.batch = c] = z
        OBVIOUS
    <3>6. [z EXCEPT !.done = 0] = [pc |-> p, batch |-> c, done |-> 0, holds |-> x.holds]
        OBVIOUS
    <3> HIDE DEF y, z
    <3>7. [x EXCEPT !.pc = p, !.batch = c, !.done = 0]
            = [pc |-> p, batch |-> c, done |-> 0, holds |-> x.holds]
        BY <3>4, <3>5, <3>6
    <3> QED BY <3>2, <3>7 DEF x, c
  <2>4. WorkerOK(r, delivered', entries', applied')
      BY <1>0, <2>1, <2>2, WorkerRecord DEF WorkerOK, PCs
  <2>5. \A e \in 1..delivered : entries'[e] = entries[e]
      BY <1>3
  <2>6. applied \subseteq applied'
      BY <1>3
  <2> HIDE DEF r
  <2> QED BY <1>0, <1>6, <2>3, <2>4, <2>5, <2>6, WorkerStep
<1> QED BY <1>7, <1>8, <1>9 DEF IInv

LEMMA StepInv == IInv /\ [Next]_vars => IInv'
<1> SUFFICES ASSUME IInv, [Next]_vars PROVE IInv'
    OBVIOUS
<1>1. CASE UNCHANGED vars
  <2>1. UNCHANGED redis /\ UNCHANGED <<lease, worker, applied, faults>>
      BY <1>1 DEF vars
  <2>2. QueueOK' /\ Kept' /\ LatestFrameMarked'
      BY <2>1, RedisAlone
  <2>3. WorkersOK' /\ RestOK'
      BY <2>1 DEF IInv, WorkersOK, RestOK, redis
  <2> QED BY <2>2, <2>3 DEF IInv
<1>2. ASSUME NEW w \in Workers, Drain(w) \/ RefreshFails(w) \/ WorkerCrash(w) PROVE IInv'
    BY <1>2, LeaseInv, ClaimInv, ReadInv, HandleInv, AckInv DEF Drain
<1>3. CASE Next
    BY <1>2, <1>3, EnqueueInv, TimeInv DEF Next
<1> QED BY <1>1, <1>3

LEMMA Invariance == Spec => []IInv
BY InitInv, StepInv, PTL DEF Spec

-----------------------------------------------------------------------------
(* Theorems                                                                *)

(* Every reachable state is well typed.                                    *)
THEOREM QueueTypeCorrect == Spec => []TypeOK
<1>1. IInv => TypeOK
  <2> SUFFICES ASSUME IInv PROVE TypeOK
      OBVIOUS
  <2> USE BoundAssumption
  <2>0. QueueOK /\ WorkersOK /\ RestOK
      BY DEF IInv
  <2>1. worker \in [Workers -> [pc : PCs, batch : Seq(Ids), done : Nat, holds : BOOLEAN]]
    <3> SUFFICES ASSUME NEW w \in Workers
                 PROVE  worker[w] \in [pc : PCs, batch : Seq(Ids), done : Nat, holds : BOOLEAN]
        BY <2>0 DEF WorkersOK
    <3>1. worker[w] \in [pc : PCs, batch : Seq(1..delivered), done : Nat, holds : BOOLEAN]
        BY <2>0 DEF WorkersOK, WorkerOK
    <3>2. delivered \in Nat /\ MaxEntries \in Nat /\ delivered <= MaxEntries
        BY <2>0 DEF QueueOK
    <3>3. worker[w].batch \in Seq(Ids)
        BY <3>1, <3>2, LargerRange DEF Ids
    <3> QED BY <3>1, <3>3
  <2>2. DOMAIN pending \subseteq stream /\ Len(entries) <= MaxEntries
      BY <2>0 DEF QueueOK
  <2> QED BY <2>0, <2>1, <2>2 DEF TypeOK, QueueOK, RestOK
<1> QED BY <1>1, Invariance, PTL

(* Nothing is stranded: what is in the stream is still to be delivered or  *)
(* is in the pending list, whichever consumer crashes or is overtaken at   *)
(* whichever step (uplink_queue.py, drain_uplink_stream).                  *)
THEOREM NothingIsStranded == Spec => []NothingStranded
<1>1. IInv => NothingStranded
  <2> SUFFICES ASSUME IInv, NEW e \in stream PROVE e > delivered \/ e \in DOMAIN pending
      BY DEF NothingStranded
  <2>1. e \in Nat /\ delivered \in Nat /\ DOMAIN pending = {x \in stream : x <= delivered}
      BY DEF IInv, QueueOK, Added
  <2> QED BY <2>1
<1> QED BY <1>1, Invariance, PTL

(* While the latest frame of a command waits, its activity marker is there *)
(* unless its time to live has elapsed, although earlier entries of the    *)
(* command are acknowledged and buried meanwhile                           *)
(* (clear_task_uplink_activity_marker_if_token).                           *)
THEOREM LatestFrameIsMarked == Spec => []LatestFrameMarked
BY Invariance, PTL DEF IInv

(* Only its owner and time take the ingest lease away                      *)
(* (redis_store.py, release_periodic_lease).                               *)
THEOREM LeaseIsNotStolen == Spec => LeaseNotStolen
<1> DEFINE Kept2 == lease # NoWorker /\ lease' # lease
                      => lease' = NoWorker /\ (worker'[lease].pc = "off" \/ UNCHANGED worker)
<1>1. ASSUME IInv, Next PROVE Kept2
  <2> SUFFICES ASSUME lease # NoWorker, lease' # lease
               PROVE  lease' = NoWorker /\ (worker'[lease].pc = "off" \/ UNCHANGED worker)
      OBVIOUS
  <2>1. lease \in Workers /\ worker = [v \in Workers |-> worker[v]]
      BY <1>1 DEF IInv, RestOK, WorkersOK
  <2>2. ASSUME NEW w \in Workers, ReleaseLease(w)
        PROVE  lease' = NoWorker /\ worker'[lease].pc = "off"
      BY <2>1, <2>2 DEF ReleaseLease, Leave, Off
  <2>3. CASE LeaseExpires
      BY <2>3 DEF LeaseExpires
  <2>4. ASSUME NEW w \in Workers,
               \/ AcquireLease(w) \/ ClaimStaleEntries(w) \/ ReadNewEntries(w) \/ HandleUplink(w)
               \/ AcknowledgeEntry(w) \/ CountDeliveries(w) \/ QuarantineFailedEntry(w)
               \/ AnotherBatch(w) \/ RefreshFails(w) \/ WorkerCrash(w)
        PROVE  FALSE
      BY <2>4 DEF AcquireLease, ClaimStaleEntries, ReadNewEntries, HandleUplink, AcknowledgeEntry,
         CountDeliveries, QuarantineFailedEntry, AnotherBatch, RefreshFails, WorkerCrash
  <2>5. ASSUME \/ \E f \in Frames : EnqueueUplink(f)
               \/ \E e \in Added : ReplayDeadLetter(e) \/ BecomesIdle(e) \/ BecomesOld(e)
               \/ MarkerExpires
        PROVE  FALSE
      BY <2>5 DEF EnqueueUplink, ReplayDeadLetter, BecomesIdle, BecomesOld, MarkerExpires
  <2> QED BY <1>1, <2>2, <2>3, <2>4, <2>5 DEF Next, Drain
<1>2. IInv /\ [Next]_vars => [Kept2]_vars
    BY <1>1
<1> QED BY <1>2, Invariance, PTL DEF Spec, LeaseNotStolen

-----------------------------------------------------------------------------
(* The queue implements the mailbox                                        *)

Waiting == FramesOf(stream)
Letters == FramesOf(Dead)

LEMMA MailNames ==
    /\ mailbox!mail = <<Waiting, Letters, applied>>
    /\ mailbox!Init <=> Waiting = {} /\ Letters = {} /\ applied = {}
    /\ \A f : mailbox!Put(f) <=> Waiting' = Waiting \cup {f} /\ UNCHANGED <<Letters, applied>>
    /\ \A f : mailbox!Process(f) <=> /\ f \in Waiting \cup Letters \cup applied
                                     /\ applied' = applied \cup {f}
                                     /\ UNCHANGED <<Waiting, Letters>>
    /\ \A f : mailbox!Remove(f) <=> /\ f \in applied /\ Waiting' = Waiting \ {f}
                                    /\ UNCHANGED <<Letters, applied>>
    /\ \A f : mailbox!Bury(f) <=> /\ f \in Waiting \cup Letters \cup applied
                                  /\ Waiting' \in {Waiting, Waiting \ {f}}
                                  /\ Letters' = Letters \cup {f} /\ UNCHANGED applied
    /\ \A f : mailbox!Replay(f) <=> /\ f \in Letters /\ Waiting' = Waiting \cup {f}
                                    /\ Letters' \in {Letters, Letters \ {f}} /\ UNCHANGED applied
BY DEF mailbox!mail, mailbox!Init, mailbox!Put, mailbox!Process, mailbox!Remove, mailbox!Bury,
       mailbox!Replay, Waiting, Letters, Dead

\* A step of the mailbox or a stutter.
MailStep == mailbox!Next \/ UNCHANGED <<Waiting, Letters, applied>>

(* Without one of its entries a frame may still wait in another one.       *)
LEMMA OneLess ==
    ASSUME NEW S, NEW e \in S
    PROVE  FramesOf(S \ {e}) \in {FramesOf(S), FramesOf(S) \ {entries[e]}}
<1>1. CASE \E y \in S \ {e} : entries[y] = entries[e]
    BY <1>1 DEF FramesOf
<1>2. CASE \A y \in S \ {e} : entries[y] # entries[e]
    BY <1>2 DEF FramesOf
<1> QED BY <1>1, <1>2

(* Steps that neither add, remove, bury nor handle.                        *)
LEMMA Stutter ==
    ASSUME UNCHANGED <<entries, stream, letters, applied>>
    PROVE  MailStep
BY DEF MailStep, Waiting, Letters, Dead, Added, FramesOf

LEMMA HandleMail ==
    ASSUME IInv, NEW w \in Workers, HandleUplink(w)
    PROVE  MailStep
<1> DEFINE f == entries[Current(w)]
<1>1. Current(w) \in Added /\ f \in Frames
    BY CurrentEntry DEF HandleUplink
<1>2. f \in Waiting \cup Letters \cup applied
    BY <1>1 DEF IInv, Kept, Waiting, Letters
<1>3. UNCHANGED <<entries, stream, letters>>
    BY DEF HandleUplink, redis
<1>4. UNCHANGED <<Waiting, Letters>>
    BY <1>3 DEF Waiting, Letters, Dead, Added, FramesOf
<1>5. CASE applied' = applied \cup {f}
  <2> HIDE DEF f
  <2>1. mailbox!Process(f)
      BY <1>2, <1>4, <1>5, MailNames
  <2> QED BY <1>1, <2>1 DEF MailStep, mailbox!Next
<1>6. CASE UNCHANGED applied
    BY <1>4, <1>6 DEF MailStep
<1> QED BY <1>5, <1>6 DEF HandleUplink

LEMMA AddMail ==
    ASSUME IInv, NEW f \in Frames, Add(f)
    PROVE  /\ Waiting' = Waiting \cup {f}
           /\ \A S \in SUBSET Added : FramesOf(S)' = FramesOf(S)
           /\ Added' \subseteq Added \cup {Len(entries) + 1}
           /\ Len(entries) + 1 \in Ids \ Added
<1>1. QueueOK
    BY DEF IInv
<1>2. /\ Len(entries) + 1 \in 1..MaxEntries
      /\ \A e \in Added : entries'[e] = entries[e]
      /\ entries'[Len(entries) + 1] = f
      /\ stream' = stream \cup {Len(entries) + 1} /\ Added' = Added \cup {Len(entries) + 1}
    BY <1>1, AddEffect
<1>3. stream \subseteq Added /\ Len(entries) \in Nat
    BY <1>1 DEF QueueOK
<1>4. \A S \in SUBSET Added : FramesOf(S)' = FramesOf(S)
    BY <1>2 DEF FramesOf
<1>5. Waiting' = Waiting \cup {f}
    BY <1>2, <1>3 DEF Waiting, FramesOf
<1> QED BY <1>2, <1>3, <1>4, <1>5 DEF Added, Ids

LEMMA EnqueueMail ==
    ASSUME IInv, NEW f \in Frames, EnqueueUplink(f)
    PROVE  MailStep
<1>1. Add(f) /\ UNCHANGED <<letters, applied>>
    BY DEF EnqueueUplink
<1>2. Dead' = Dead /\ Dead \in SUBSET Added
  <2>1. \A e \in Ids \ Added : letters[e] = 0
      BY DEF IInv, QueueOK
  <2>2. Added \subseteq Added'
      BY <1>1, AddEffect DEF IInv
  <2> QED BY <1>1, <2>1, <2>2, AddMail DEF Dead
<1>3. Letters' = Letters
    BY <1>1, <1>2, AddMail DEF Letters, FramesOf
<1>4. mailbox!Put(f)
    BY <1>1, <1>3, AddMail, MailNames
<1> QED BY <1>4 DEF MailStep, mailbox!Next

LEMMA ReplayMail ==
    ASSUME IInv, NEW e \in Added, ReplayDeadLetter(e)
    PROVE  MailStep
<1> DEFINE f == entries[e]
<1>1. /\ Add(f) /\ letters[e] > 0 /\ letters' = [letters EXCEPT ![e] = @ - 1] /\ UNCHANGED applied
    BY DEF ReplayDeadLetter
<1>2. QueueOK /\ Added \subseteq Ids /\ f \in Frames /\ letters \in [Ids -> Nat]
  <2>1. QueueOK
      BY DEF IInv
  <2>2. entries \in Seq(Frames) /\ Len(entries) \in 0..MaxEntries /\ MaxEntries \in Nat
      BY <2>1, BoundAssumption DEF QueueOK
  <2>3. e \in 1..Len(entries) /\ Added \subseteq Ids
      BY <2>2 DEF Added, Ids
  <2> QED BY <2>1, <2>2, <2>3, LenProperties DEF QueueOK
<1>3. \A x \in Ids \ {e} : letters'[x] = letters[x]
    BY <1>1, <1>2
<1>4. Dead' \in {Dead, Dead \ {e}} /\ Dead \in SUBSET Added /\ e \in Dead
  <2>1. \A x \in Ids \ Added : letters[x] = 0
      BY <1>2 DEF QueueOK
  <2>2. /\ Added \subseteq Added' /\ Added' \subseteq Added \cup {Len(entries) + 1}
        /\ Len(entries) + 1 \in Ids \ Added
      BY <1>1, <1>2, AddMail, AddEffect
  <2>3. \A x \in Added' \ {e} : letters'[x] > 0 <=> x \in Added /\ letters[x] > 0
      BY <1>2, <1>3, <2>1, <2>2
  <2> QED BY <1>1, <2>2, <2>3 DEF Dead
<1>5. Letters' \in {Letters, Letters \ {f}}
  <2>1. Letters' = FramesOf(Dead')
    <3>1. \A S \in SUBSET Added : FramesOf(S)' = FramesOf(S)
        BY <1>1, <1>2, AddMail
    <3>2. Dead' \in SUBSET Added
        BY <1>4
    <3>3. \A x \in Added : entries'[x] = entries[x]
        BY <1>1, <1>2, AddEffect
    <3> QED BY <3>2, <3>3 DEF Letters, FramesOf
  <2>2. FramesOf(Dead \ {e}) \in {Letters, Letters \ {f}}
      BY <1>4, OneLess DEF Letters
  <2> QED BY <1>4, <2>1, <2>2 DEF Letters
<1>6. f \in Letters /\ Waiting' = Waiting \cup {f}
    BY <1>1, <1>2, <1>4, AddMail DEF Letters, FramesOf
<1> HIDE DEF f
<1>7. mailbox!Replay(f)
    BY <1>1, <1>5, <1>6, MailNames
<1> QED BY <1>2, <1>7 DEF MailStep, mailbox!Next

(* An entry leaves the queue: acknowledged or buried.                      *)
LEMMA LeaveMail ==
    ASSUME IInv, NEW w \in Workers, AcknowledgeEntry(w) \/ QuarantineFailedEntry(w)
    PROVE  MailStep
<1> DEFINE e == Current(w)
           f == entries[e]
<1>0. worker[w].pc \in {"ack", "quarantine"} /\ UNCHANGED <<entries, applied>>
    BY DEF AcknowledgeEntry, QuarantineFailedEntry
<1>1. e \in Added /\ e \in Ids /\ f \in Frames /\ UNCHANGED Added
    BY <1>0, CurrentEntry DEF Added
<1>2. Forget(e) => Waiting' \in {Waiting, Waiting \ {f}}
  <2> SUFFICES ASSUME Forget(e) PROVE Waiting' \in {Waiting, Waiting \ {f}}
      OBVIOUS
  <2>1. Waiting' = FramesOf(stream \ {e})
      BY <1>0 DEF Forget, Waiting, FramesOf
  <2>2. CASE e \in stream
      BY <2>1, <2>2, OneLess DEF Waiting
  <2>3. CASE e \notin stream
    <3>1. stream \ {e} = stream
        BY <2>3
    <3> QED BY <2>1, <3>1 DEF Waiting
  <2> QED BY <2>2, <2>3
<1>3. CASE AcknowledgeEntry(w)
  <2>1. worker[w].pc = "ack" /\ Forget(e) /\ UNCHANGED letters
      BY <1>3 DEF AcknowledgeEntry
  <2>2. f \in applied
      BY <2>1, WorkerRecord DEF WorkerOK, Current
  <2>3. Letters' = Letters
      BY <1>0, <1>1, <2>1 DEF Letters, Dead, FramesOf
  <2> HIDE DEF e, f
  <2>4. UNCHANGED <<Waiting, Letters, applied>> \/ mailbox!Remove(f)
      BY <1>0, <1>2, <2>1, <2>2, <2>3, MailNames
  <2> QED BY <1>1, <2>4 DEF MailStep, mailbox!Next
<1>4. CASE QuarantineFailedEntry(w)
  <2>1. CASE letters' = [letters EXCEPT ![e] = @ + 1] /\ Forget(e)
    <3>1. letters \in [Ids -> Nat]
        BY DEF IInv, QueueOK
    <3>2. letters' \in [Ids -> Nat] /\ letters'[e] = letters[e] + 1
          /\ \A x \in Ids \ {e} : letters'[x] = letters[x]
        BY <1>1, <2>1, <3>1
    <3>3. Added \subseteq Ids
        BY BoundAssumption DEF IInv, QueueOK, Added, Ids
    <3>4. letters'[e] > 0
        BY <1>1, <3>1, <3>2
    <3>5. Dead' = Dead \cup {e}
        BY <1>1, <3>2, <3>3, <3>4 DEF Dead
    <3>6. Letters' = Letters \cup {f}
        BY <1>0, <3>5 DEF Letters, FramesOf
    <3>7. f \in Waiting \cup Letters \cup applied
        BY <1>1 DEF IInv, Kept, Waiting, Letters
    <3> HIDE DEF e, f
    <3>8. mailbox!Bury(f)
        BY <1>0, <1>2, <2>1, <3>6, <3>7, MailNames
    <3> QED BY <1>1, <3>8 DEF MailStep, mailbox!Next
  <2>2. CASE UNCHANGED <<letters, stream>>
      BY <1>0, <2>2, Stutter
  <2> QED BY <1>4, <2>1, <2>2 DEF QuarantineFailedEntry
<1> QED BY <1>3, <1>4

LEMMA NextMail == IInv /\ [Next]_vars => MailStep
<1> SUFFICES ASSUME IInv, [Next]_vars PROVE MailStep
    OBVIOUS
<1>1. ASSUME NEW w \in Workers,
             \/ AcquireLease(w) \/ ClaimStaleEntries(w) \/ ReadNewEntries(w) \/ CountDeliveries(w)
             \/ AnotherBatch(w) \/ ReleaseLease(w) \/ RefreshFails(w) \/ WorkerCrash(w)
      PROVE  UNCHANGED <<entries, stream, letters, applied>>
    BY <1>1 DEF AcquireLease, ClaimStaleEntries, ReadNewEntries, CountDeliveries, AnotherBatch,
       ReleaseLease, RefreshFails, WorkerCrash, redis
<1>2. ASSUME \/ \E e \in Added : BecomesIdle(e) \/ BecomesOld(e)
             \/ LeaseExpires \/ MarkerExpires \/ UNCHANGED vars
      PROVE  UNCHANGED <<entries, stream, letters, applied>>
    BY <1>2 DEF BecomesIdle, BecomesOld, LeaseExpires, MarkerExpires, redis, vars
<1>3. ASSUME NEW w \in Workers, Drain(w) \/ RefreshFails(w) \/ WorkerCrash(w) PROVE MailStep
    BY <1>1, <1>3, HandleMail, LeaveMail, Stutter DEF Drain
<1> QED BY <1>2, <1>3, EnqueueMail, ReplayMail, Stutter DEF Next

(* Every frame that was accepted waits, is a dead letter or was processed  *)
(* at least once, for any number of workers that crash, are overtaken and  *)
(* take entries from each other: the queue implements the mailbox.         *)
THEOREM QueueKeepsFrames == Spec => KeepsFrames
<1>1. Init => mailbox!Init
    BY MailNames DEF Init, Waiting, Letters, Dead, Added, FramesOf
<1>2. IInv /\ [Next]_vars => [mailbox!Next]_(mailbox!mail)
  <2> SUFFICES ASSUME IInv, [Next]_vars PROVE mailbox!Next \/ UNCHANGED mailbox!mail
      OBVIOUS
  <2>1. MailStep
      BY NextMail
  <2>2. CASE mailbox!Next
      BY <2>2
  <2>3. CASE UNCHANGED <<Waiting, Letters, applied>>
      BY <2>3 DEF mailbox!mail, Waiting, Letters, Dead
  <2> QED BY <2>1, <2>2, <2>3 DEF MailStep
<1> QED BY <1>1, <1>2, Invariance, PTL DEF Spec, KeepsFrames, mailbox!Spec

=============================================================================
