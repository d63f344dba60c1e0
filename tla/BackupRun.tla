----------------------------- MODULE BackupRun -----------------------------
(***************************************************************************)
(* One run of a backup (apps/protection/services/backup_orchestrator.py):  *)
(* the product task, the logical snapshot, one row per directory, and the  *)
(* Agent commands (NodeTask rows) that back the directories up.            *)
(*                                                                         *)
(* Whatever happens -- a result, progress, the periodic reconciliation, a  *)
(* request -- ends in advance_backup, which reads everything under the     *)
(* lock of the task and moves the run on.  Beside it write, with other     *)
(* locks or with none: the projection of late results, the progress of     *)
(* commands, the cancel request, and the requests that retry a directory.  *)
(*                                                                         *)
(* A command is seen as the orchestrator sees it: live, or ended in a way  *)
(* that the orchestrator tells apart.  How a command gets there is the     *)
(* subject of NodeTask and TaskProtocol.                                   *)
(***************************************************************************)
EXTENDS Naturals, FiniteSets, Sequences

CONSTANTS
    NDirs,     \* directories of the backup configuration
    Slots,     \* commands one Agent may have at a time
    Requests,  \* requests that retry a directory
    MaxFaults  \* bound: timeouts, restarts, losses of the Agent, crashes

ASSUME SizesAssumption == NDirs \in Nat \ {0} /\ Slots \in Nat \ {0}
ASSUME BoundsAssumption == IsFiniteSet(Requests) /\ MaxFaults \in Nat

VARIABLES
    task,       \* status of the product task
    snapshot,   \* status of the logical snapshot
    dir,        \* row of each directory
    command,    \* commands created for each directory, the latest last
    queueTried, \* the queue recovery has enqueued the task once more
    canceller,  \* the cancel request and what it has read
    retrier,    \* the retry requests and what they have read
    overtaken,  \* history: who wrote over a run that had moved on
    faults      \* faults so far

vars == <<task, snapshot, dir, command, queueTried, canceller, retrier,
          overtaken, faults>>

Dir == 1..NDirs

(* The first dispatch, one requeue by the orchestrator, and the requests. *)
MaxCommands == 2 + Cardinality(Requests)

Ended == {"success", "failed", "timeout", "cancelled"}

InProgress == {"pending", "dispatching", "running"}

Live == {"pending", "running", "stopping", "cancelling"}

(* The errors of a directory by what the code does with them: "stall",     *)
(* "offline" and "restarted" (WATCHDOG_STALL, AGENT_OFFLINE,               *)
(* AGENT_RESTARTED) are looked at again; these, "progress"                 *)
(* (KOPIA_PROGRESS_STALL) and "lost" (AGENT_BACKUP_FAILED of an Agent that *)
(* went offline) may still turn into a success; "repair" waits for a       *)
(* policy repair; the rest is "final".                                     *)
Stale == {"stall", "offline", "restarted"}

Adoptable == Stale \cup {"progress", "lost"}

Error == Adoptable \cup {"none", "repair", "final", "cancelled"}

(* How a command ended: by its result, by the watchdog ("timeout"), as     *)
(* lost with its Agent ("offline"), interrupted by a restart of the Agent, *)
(* without a repository policy, undelivered ("sealed"), stopped because it *)
(* made no progress, or canceled.                                          *)
Outcome == {"success", "failed", "policy", "timeout", "offline", "restarted",
            "sealed", "stopped", "canceled"}

(* _node_task_error_code. *)
ErrorOf(status) ==
    CASE status = "timeout"   -> "stall"
      [] status = "offline"   -> "lost"
      [] status = "restarted" -> "restarted"
      [] status = "stopped"   -> "progress"
      [] status = "canceled"  -> "cancelled"
      [] OTHER                -> "final"

(* Mutant: only the command that the row names. *)
BoundOnly(d, row) == row.cmd

(* The command a row stands for: the one it names, else the latest one     *)
(* created for its directory; 0 when there is none.                        *)
CurrentOf(d, row) == IF row.cmd # 0 THEN row.cmd ELSE Len(command[d])

StatusOf(d, row) ==
    IF CurrentOf(d, row) = 0 THEN "none"
    ELSE command[d][CurrentOf(d, row)].status

LiveCommands == {c \in Dir \X (1..MaxCommands) :
                    c[2] <= Len(command[c[1]]) /\ command[c[1]][c[2]].status \in Live}

NoRow == [status |-> "none", cmd |-> 0, retry |-> 0, error |-> "none",
          stopAsked |-> FALSE]

Idle == [pc |-> "idle", dir |-> 1, row |-> NoRow, ended |-> FALSE]

Init ==
    /\ task = "pending"
    /\ snapshot = "creating"
    /\ dir = [d \in Dir |-> NoRow]
    /\ command = [d \in Dir |-> <<>>]
    /\ queueTried = FALSE
    /\ canceller = [pc |-> "idle", seen |-> [d \in Dir |-> 0], left |-> {}]
    /\ retrier = [r \in Requests |-> Idle]
    /\ overtaken = {}
    /\ faults = 0

-----------------------------------------------------------------------------
(* The logical snapshot.                                                   *)

(* refresh_source_snapshot_summary: a failed snapshot stays failed until   *)
(* every directory has ended.                                              *)
Summary(rows) ==
    LET good == {d \in Dir : rows[d].status = "available"}
        done == {d \in Dir : rows[d].status \in {"available", "failed", "cancelled"}}
    IN  CASE done # Dir /\ snapshot = "failed" -> "failed"
          [] done # Dir /\ snapshot # "failed" -> "creating"
          [] done = Dir /\ good = Dir          -> "available"
          [] done = Dir /\ good = {}           -> "failed"
          [] OTHER                             -> "partial"

(* Mutant: the snapshot is not sealed with the task. *)
FailingUnsealed(rows) == Summary(rows)

(* mark_source_snapshot_failed. *)
Failing(rows) == IF \E d \in Dir : rows[d].status \in InProgress \cup {"none"}
                 THEN "failed" ELSE Summary(rows)

-----------------------------------------------------------------------------
(* advance_backup.                                                         *)

(* _maybe_refresh_stale_directory_failure: a failure that was recorded     *)
(* while the Agent was away is named after what its command has become.    *)
Refresh(d, row) ==
    IF /\ row.status = "failed" /\ row.error \in Stale
       /\ StatusOf(d, row) \in Outcome
    THEN [row EXCEPT !.error = ErrorOf(StatusOf(d, row))]
    ELSE row

Refreshed == [d \in Dir |-> Refresh(d, dir[d])]

(* The rows as the dispatch loop finds them: each directory has one. *)
Rows == [d \in Dir |-> IF dir[d].status = "none"
                       THEN [dir[d] EXCEPT !.status = "pending"]
                       ELSE Refreshed[d]]

Repairing(rows) ==
    \E d \in Dir : rows[d].status = "pending" /\ rows[d].error = "repair"

(* _available_backup_dispatch_slots, next to other backups of the Agent. *)
Free(busy) == IF busy + Cardinality(LiveCommands) >= Slots THEN 0
              ELSE Slots - busy - Cardinality(LiveCommands)

(* The pending rows that the dispatch loop takes up.  While a policy       *)
(* repair waits, only repairs are taken, one at a time and when no other   *)
(* directory is at work.                                                   *)
Taken(rows, free) ==
    LET pending == {d \in Dir : rows[d].status = "pending"}
        repairs == {d \in pending : rows[d].error = "repair"}
        atWork == \E d \in Dir : rows[d].status \in {"dispatching", "running"}
    IN  IF ~Repairing(rows) THEN pending
        ELSE IF atWork THEN {}
        ELSE IF free = 0 THEN repairs
        ELSE {d \in repairs : \A e \in repairs : d <= e}

(* The rows that get a new command: those whose command has ended without  *)
(* success, or that have none, in the order of the directories.            *)
Granted(rows, free) ==
    LET wanting == {d \in Taken(rows, free) :
                       StatusOf(d, rows[d]) \notin Live \cup {"success"}}
    IN  {d \in wanting : Cardinality({e \in wanting : e < d}) < free}

(* _dispatch_directory_backup for a row that is taken up. *)
Dispatch(d, row, granted) ==
    LET status == StatusOf(d, row)
        current == CurrentOf(d, row)
    IN  IF status = "success"
        THEN [row EXCEPT !.status = "available", !.cmd = current, !.error = "none"]
        ELSE IF status \in Live
        THEN [row EXCEPT !.cmd = current,
                         !.status = IF status = "pending" THEN "dispatching" ELSE "running"]
        ELSE IF d \in granted
        THEN [row EXCEPT !.cmd = Len(command[d]) + 1, !.status = "dispatching"]
        ELSE row

(* Mutant: attempts counted from zero. *)
NewCommandFromZero(row) == [attempt |-> row.retry, status |-> "pending", revived |-> FALSE]

NewCommand(row) == [attempt |-> row.retry + 1, status |-> "pending", revived |-> FALSE]

Requeue(row, error) ==
    [row EXCEPT !.status = "pending", !.cmd = 0, !.retry = @ + 1, !.error = error,
                !.stopAsked = FALSE]

Fail(row, error) == [row EXCEPT !.status = "failed", !.error = error]

(* _observe_running_directory for a command that has ended. *)
ObserveEnded(row, status, link, capable) ==
    LET away == link \in {"down", "gone"} /\ status \notin {"sealed", "stopped", "canceled"}
        error == IF away THEN "offline" ELSE ErrorOf(status)
    IN  IF status = "success" THEN [row EXCEPT !.status = "available", !.error = "none"]
        ELSE IF error = "restarted" /\ row.retry < 1
             THEN CASE capable = "yes"   -> Requeue(row, "none")
                    [] capable = "grace" -> row
                    [] capable = "no"    -> Fail(row, "final")
        ELSE IF status = "policy" /\ ~away /\ row.retry < 1 THEN Requeue(row, "repair")
        ELSE IF error = "cancelled"
             THEN [row EXCEPT !.status = "cancelled", !.error = error]
        ELSE Fail(row, error)

(* _observe_running_directory for a live command: an Agent that is away    *)
(* for long ("gone") fails it; one without progress for long is asked to   *)
(* stop and, if that does not help, given up.                              *)
ObserveLive(row, status, link, stalled) ==
    LET seen == IF row.status = "dispatching" /\ status # "pending"
                THEN [row EXCEPT !.status = "running"] ELSE row
    IN  CASE link = "gone"                     -> Fail(row, "offline")
          [] link \in {"down", "reconnecting"} -> row
          [] link = "up" /\ (~stalled \/ status = "pending") -> seen
          [] OTHER -> IF seen.stopAsked THEN Fail(seen, "progress")
                      ELSE [seen EXCEPT !.stopAsked = TRUE]

(* What the observation leaves of a row; cmds are its commands. *)
ObservedRow(row, cmds, link, capable, stalled) ==
    LET a == IF row.cmd # 0 THEN row.cmd ELSE Len(cmds)
        bound == [row EXCEPT !.cmd = a]
    IN  IF a = 0 THEN [row EXCEPT !.status = "pending"]
        ELSE IF cmds[a].status \in Live
             THEN ObserveLive(bound, cmds[a].status, link, stalled)
             ELSE ObserveEnded(bound, cmds[a].status, link, capable)

(* ... and of its commands: fail_node_task_offline, or the request to stop. *)
ObservedCommands(row, cmds, link, stalled) ==
    LET a == IF row.cmd # 0 THEN row.cmd ELSE Len(cmds)
    IN  IF a = 0 \/ (a # 0 /\ cmds[a].status \notin Live) THEN cmds
        ELSE IF link = "gone" THEN [cmds EXCEPT ![a].status = "offline"]
        ELSE IF link = "up" /\ stalled /\ ~row.stopAsked /\ cmds[a].status = "running"
             THEN [cmds EXCEPT ![a].status = "stopping"]
        ELSE cmds

AdvanceEnded ==
    /\ task \in Ended
    /\ dir' = Refreshed
    /\ snapshot' = Summary(Refreshed)
    /\ UNCHANGED <<task, command, queueTried, canceller, retrier, overtaken, faults>>

(* The repository server, the probe or the policies are not ready yet. *)
AdvanceWaits ==
    /\ task \notin Ended
    /\ task' = "running"
    /\ dir' = Refreshed
    /\ snapshot' = Summary(Refreshed)
    /\ UNCHANGED <<command, queueTried, canceller, retrier, overtaken, faults>>

(* A check fails, for instance because the Agent is offline at this very   *)
(* moment: the task fails, the directories and their commands stay.        *)
AdvanceRefused(offline) ==
    /\ task \notin Ended
    /\ task' = "failed"
    /\ dir' = IF offline THEN dir ELSE Refreshed
    /\ snapshot' = Failing(dir')
    /\ UNCHANGED <<command, queueTried, canceller, retrier, overtaken, faults>>

Finished(rows) == ~ \E d \in Dir : rows[d].status \in InProgress

(* _finalize_backup_task. *)
FinalStatus(rows) == IF Summary(rows) = "available" THEN "success" ELSE "failed"

AdvanceRun(link, capable, stalled, busy) ==
    LET rows == Rows
        free == Free(busy)
        taken == Taken(rows, free)
        granted == Granted(rows, free)
        cleared == [d \in Dir |-> IF d \in taken /\ rows[d].error = "repair"
                                  THEN [rows[d] EXCEPT !.error = "none", !.stopAsked = FALSE]
                                  ELSE rows[d]]
        sent == [d \in Dir |-> IF d \in taken THEN Dispatch(d, cleared[d], granted)
                               ELSE cleared[d]]
        cmds == [d \in Dir |-> IF d \in granted
                               THEN Append(command[d], NewCommand(rows[d])) ELSE command[d]]
        \* a pending row that a policy repair holds back is not observed
        observed == {d \in Dir : /\ sent[d].status \in InProgress
                                 /\ sent[d].status = "pending" => d \in taken}
    IN  /\ task \notin Ended
        /\ dir' = [d \in Dir |->
              IF d \in observed
              THEN ObservedRow(sent[d], cmds[d], link, capable, d \in stalled) ELSE sent[d]]
        /\ command' = [d \in Dir |->
              IF d \in observed
              THEN ObservedCommands(sent[d], cmds[d], link, d \in stalled) ELSE cmds[d]]
        /\ snapshot' = Summary(dir')
        /\ task' = IF Finished(dir') THEN FinalStatus(dir') ELSE "running"
        /\ UNCHANGED <<queueTried, canceller, retrier, overtaken, faults>>

(* A stall is looked at only while the Agent is connected and has accepted *)
(* the command, the capabilities of the Agent only when it has interrupted *)
(* a command, and its other backups only when a directory waits.           *)
Stalls(link) == IF link # "up" THEN {{}}
                ELSE SUBSET {d \in Dir : StatusOf(d, dir[d]) \in Live \ {"pending"}}

Busy == IF \E d \in Dir : Rows[d].status = "pending" THEN 0..Slots ELSE {0}

Capable == IF \E d \in Dir : StatusOf(d, dir[d]) = "restarted"
           THEN {"yes", "grace", "no"} ELSE {"yes"}

Advance ==
    \/ AdvanceEnded
    \/ AdvanceWaits
    \/ \E offline \in BOOLEAN : AdvanceRefused(offline)
    \/ \E link \in {"up", "reconnecting", "down", "gone"}, capable \in Capable,
          busy \in Busy : \E stalled \in Stalls(link) :
             AdvanceRun(link, capable, stalled, busy)

-----------------------------------------------------------------------------
(* project_backup_node_task_result, from a result and from the periodic    *)
(* reconcile_backup_result_projections.                                    *)

(* Mutant: the attempt is not compared. *)
MatchesBound(d, a) == dir[d].cmd = a

(* _late_backup_result_matches_current_attempt. *)
MatchesAttempt(d, a) == dir[d].cmd = a /\ command[d][a].attempt = dir[d].retry + 1

Recoverable(row) == \/ row.status \in InProgress
                    \/ row.status = "failed" /\ row.error \in Adoptable

(* Mutant: any adopted result makes the task a success. *)
CorrectedAlways(summary) == "success"

CorrectedTask(summary) == IF summary = "available" THEN "success" ELSE task

Project(d, a) ==
    /\ a \in 1..Len(command[d]) /\ command[d][a].status = "success"
    /\ task \in {"failed", "timeout"}
    /\ Recoverable(dir[d]) /\ MatchesAttempt(d, a)
    /\ dir' = [dir EXCEPT ![d].status = "available", ![d].error = "none"]
    /\ snapshot' = Summary(dir')
    /\ task' = CorrectedTask(snapshot')
    /\ UNCHANGED <<command, queueTried, canceller, retrier, overtaken, faults>>

-----------------------------------------------------------------------------
(* A task that no worker claims: reconcile_backup_tasks.                   *)

Overtakes(who, moved) == overtaken' = IF moved THEN overtaken \cup {who} ELSE overtaken

QueueRecovery ==
    /\ task = "pending" /\ ~queueTried
    /\ queueTried' = TRUE
    /\ UNCHANGED <<task, snapshot, dir, command, canceller, retrier, overtaken, faults>>

QueueTimeout ==
    /\ task = "pending" /\ queueTried
    /\ task' = "timeout"
    /\ dir' = [d \in Dir |-> IF dir[d].status \in InProgress THEN Fail(dir[d], "final")
                             ELSE dir[d]]
    /\ snapshot' = Failing(dir')
    /\ Overtakes("queue", LiveCommands # {})
    /\ UNCHANGED <<command, queueTried, canceller, retrier, faults>>

-----------------------------------------------------------------------------
(* The commands.                                                           *)

SetStatus(d, a, status) == command' = [command EXCEPT ![d][a].status = status]

Accept(d, a) ==
    /\ a \in 1..Len(command[d]) /\ command[d][a].status = "pending"
    /\ SetStatus(d, a, "running")
    /\ UNCHANGED <<task, snapshot, dir, queueTried, canceller, retrier, overtaken, faults>>

(* The Agent reports a result. *)
End(d, a) ==
    /\ a \in 1..Len(command[d])
    /\ LET status == command[d][a].status
       IN  \/ /\ status \in Live \ {"pending"}
              /\ \E outcome \in {"success", "failed"} : SetStatus(d, a, outcome)
           \/ status = "running" /\ SetStatus(d, a, "policy")
           \/ status = "stopping" /\ SetStatus(d, a, "stopped")
           \/ status = "cancelling" /\ SetStatus(d, a, "canceled")
    /\ UNCHANGED <<task, snapshot, dir, queueTried, canceller, retrier, overtaken, faults>>

(* sync_backup_directory_progress_from_node_task: progress binds the row   *)
(* to the command that reports it, whatever the row stands for.            *)
ProgressSync(d, a) ==
    /\ a \in 1..Len(command[d]) /\ command[d][a].status \in Live \ {"pending"}
    /\ dir' = [dir EXCEPT ![d].cmd = a]
    /\ UNCHANGED <<task, snapshot, command, queueTried, canceller, retrier, overtaken, faults>>

(* reattach_backup_node_task: progress of a command that was timed out. *)
Reattach(d, a) ==
    /\ a \in 1..Len(command[d]) /\ command[d][a].status = "timeout"
    /\ command' = [command EXCEPT ![d][a].status = "running", ![d][a].revived = TRUE]
    /\ UNCHANGED <<task, snapshot, dir, queueTried, canceller, retrier, overtaken, faults>>

(* The result of work that was given up. *)
LateSuccess(d, a) ==
    /\ a \in 1..Len(command[d]) /\ command[d][a].status \in {"timeout", "offline"}
    /\ SetStatus(d, a, "success")
    /\ UNCHANGED <<task, snapshot, dir, queueTried, canceller, retrier, overtaken, faults>>

Fault == faults < MaxFaults /\ faults' = faults + 1

(* The watchdog, or the deadline of a delivery that was not accepted. *)
TimeOut(d, a) ==
    /\ a \in 1..Len(command[d]) /\ command[d][a].status \in Live
    /\ SetStatus(d, a, IF command[d][a].status = "pending" THEN "sealed" ELSE "timeout")
    /\ Fault
    /\ UNCHANGED <<task, snapshot, dir, queueTried, canceller, retrier, overtaken>>

(* Every command that is in one of the statuses comes to this end. *)
EndAll(statuses, outcome) ==
    /\ \E c \in LiveCommands : command[c[1]][c[2]].status \in statuses
    /\ command' = [d \in Dir |-> [a \in 1..Len(command[d]) |->
                      IF command[d][a].status \in statuses
                      THEN [command[d][a] EXCEPT !.status = outcome] ELSE command[d][a]]]
    /\ Fault
    /\ UNCHANGED <<task, snapshot, dir, queueTried, canceller, retrier, overtaken>>

(* The Agent restarts and reports what it was doing as interrupted. *)
AgentRestarts == EndAll(Live \ {"pending"}, "restarted")

(* reconcile_offline_node_tasks. *)
OfflineSweep == EndAll(Live, "offline")

-----------------------------------------------------------------------------
(* cancel_backup: the task first, then each directory from the rows it     *)
(* read, without a lock.  A cancel that died is taken up by a later one.   *)

CancelTask ==
    /\ canceller.pc = "idle" /\ task \notin Ended
    /\ task' = "cancelled"
    /\ canceller' = [canceller EXCEPT !.pc = "read"]
    /\ UNCHANGED <<snapshot, dir, command, queueTried, retrier, overtaken, faults>>

CancelAgain ==
    /\ canceller.pc = "dead" /\ task = "cancelled" /\ snapshot = "creating"
    /\ canceller' = [canceller EXCEPT !.pc = "read"]
    /\ UNCHANGED <<task, snapshot, dir, command, queueTried, retrier, overtaken, faults>>

CancelRead ==
    /\ canceller.pc = "read"
    /\ canceller' = [pc   |-> "directories",
                     seen |-> [d \in Dir |-> dir[d].cmd],
                     left |-> {d \in Dir : dir[d].status \in InProgress \cup {"none"}}]
    /\ UNCHANGED <<task, snapshot, dir, command, queueTried, retrier, overtaken, faults>>

(* Mutant: a command that was not accepted yet is left alone. *)
CancelAccepted(d, a) ==
    IF a = 0 \/ command[d][a].status \notin Live \ {"pending"} THEN command
    ELSE [command EXCEPT ![d][a].status = "cancelling"]

(* cancel_agent_task. *)
CancelCommand(d, a) ==
    LET status == command[d][a].status
    IN  IF a = 0 \/ status \notin Live THEN command
        ELSE [command EXCEPT ![d][a].status =
                 IF status = "pending" THEN "canceled" ELSE "cancelling"]

CancelDirectory ==
    /\ canceller.pc = "directories"
    /\ \E d \in canceller.left :
          /\ \A e \in canceller.left : d <= e
          /\ command' = IF canceller.seen[d] = 0 THEN command
                        ELSE CancelCommand(d, canceller.seen[d])
          /\ dir' = [dir EXCEPT ![d].status = "cancelled", ![d].error = "cancelled",
                                ![d].stopAsked = TRUE]
          /\ canceller' = [canceller EXCEPT !.left = @ \ {d}]
    /\ Overtakes("request", task # "cancelled")
    /\ UNCHANGED <<task, snapshot, queueTried, retrier, faults>>

CancelSummary ==
    /\ canceller.pc = "directories" /\ canceller.left = {}
    /\ snapshot' = Summary(dir)
    /\ canceller' = [pc |-> "idle", seen |-> [d \in Dir |-> 0], left |-> {}]
    /\ UNCHANGED <<task, dir, command, queueTried, retrier, overtaken, faults>>

CancellerDies ==
    /\ canceller.pc \in {"read", "directories"}
    /\ canceller' = [pc |-> "dead", seen |-> [d \in Dir |-> 0], left |-> {}]
    /\ Fault
    /\ UNCHANGED <<task, snapshot, dir, command, queueTried, retrier, overtaken>>

-----------------------------------------------------------------------------
(* retry_backup_directory: reads the task and the row, saves the whole row *)
(* as it was read, and then retries the task, all without a common lock.   *)

RetryRead(r, d) ==
    /\ retrier[r].pc = "idle" /\ dir[d].status = "failed"
    /\ retrier' = [retrier EXCEPT ![r] =
          [pc |-> "save", dir |-> d, row |-> dir[d], ended |-> task \in Ended]]
    /\ UNCHANGED <<task, snapshot, dir, command, queueTried, canceller, overtaken, faults>>

RetrySave(r) ==
    /\ retrier[r].pc = "save"
    /\ LET seen == retrier[r]
       IN  /\ dir' = [dir EXCEPT ![seen.dir] = Requeue(seen.row, "none")]
           /\ Overtakes("request", dir[seen.dir] # seen.row \/ (task \in Ended) # seen.ended)
           /\ retrier' = [retrier EXCEPT ![r] =
                 [Idle EXCEPT !.pc = IF seen.ended THEN "retry" ELSE "done"]]
    /\ UNCHANGED <<task, snapshot, command, queueTried, canceller, faults>>

(* retry_task; it refuses a task that is no longer at an end. *)
RetryTask(r) ==
    /\ retrier[r].pc = "retry"
    /\ task' = IF task \in Ended \ {"success"} THEN "pending" ELSE task
    /\ queueTried' = IF task \in Ended \ {"success"} THEN FALSE ELSE queueTried
    /\ retrier' = [retrier EXCEPT ![r].pc = "done"]
    /\ UNCHANGED <<snapshot, dir, command, canceller, overtaken, faults>>

RetryDies(r) ==
    /\ retrier[r].pc = "retry"
    /\ retrier' = [retrier EXCEPT ![r].pc = "dead"]
    /\ Fault
    /\ UNCHANGED <<task, snapshot, dir, command, queueTried, canceller, overtaken>>

-----------------------------------------------------------------------------
CommandStep(d, a) ==
    Accept(d, a) \/ End(d, a) \/ ProgressSync(d, a) \/ Reattach(d, a)
    \/ LateSuccess(d, a) \/ TimeOut(d, a)

CancelStep == CancelRead \/ CancelDirectory \/ CancelSummary

Next ==
    \/ Advance
    \/ QueueRecovery \/ QueueTimeout
    \/ \E d \in Dir, a \in 1..MaxCommands : Project(d, a) \/ CommandStep(d, a)
    \/ AgentRestarts \/ OfflineSweep
    \/ CancelTask \/ CancelAgain \/ CancelStep \/ CancellerDies
    \/ \E r \in Requests : \/ \E d \in Dir : RetryRead(r, d)
                           \/ RetrySave(r) \/ RetryTask(r) \/ RetryDies(r)

Spec == Init /\ [][Next]_vars

(* The reconciliation advances every active task again and again, and      *)
(* sooner or later finds its Agent connected, its capabilities known and   *)
(* its slots free; commands end; requests go on unless they die.           *)
AdvanceReady == AdvanceRun("up", "yes", {}, 0)

Fairness ==
    /\ WF_vars(AdvanceReady)
    /\ \A d \in Dir, a \in 1..MaxCommands : /\ WF_vars(Accept(d, a)) /\ WF_vars(End(d, a))
                                            /\ WF_vars(Project(d, a))
    /\ WF_vars(CancelStep)
    /\ \A r \in Requests : WF_vars(RetrySave(r)) /\ WF_vars(RetryTask(r))

FairSpec == Spec /\ Fairness

-----------------------------------------------------------------------------
Row == [status : InProgress \cup {"none", "available", "failed", "cancelled"},
        cmd : 0..MaxCommands, retry : 0..(MaxCommands - 1), error : Error,
        stopAsked : BOOLEAN]

(* Types; a row never names a command that was not created. *)
TypeOK ==
    /\ task \in {"pending", "running"} \cup Ended
    /\ snapshot \in {"creating", "available", "partial", "failed"}
    /\ dir \in [Dir -> Row]
    /\ \A d \in Dir : /\ Len(command[d]) <= MaxCommands
                      /\ dir[d].cmd <= Len(command[d])
                      /\ \A a \in 1..Len(command[d]) :
                            command[d][a] \in [attempt : 1..MaxCommands,
                                               status : Live \cup Outcome,
                                               revived : BOOLEAN]
    /\ queueTried \in BOOLEAN /\ overtaken \subseteq {"request", "queue"}
    /\ canceller.pc \in {"idle", "read", "directories", "dead"}
    /\ canceller.left \subseteq Dir
    /\ \A r \in Requests : /\ retrier[r].pc \in {"idle", "save", "retry", "done", "dead"}
                           /\ retrier[r].dir \in Dir
    /\ faults \in 0..MaxFaults

Revived(d) == \E a \in 1..Len(command[d]) : command[d][a].revived

(* An Agent never backs one directory up twice at a time for one run --    *)
(* retries, requeues and stale requests included -- unless a command that  *)
(* had been given up came back to life.                                    *)
OneLiveCommand ==
    \A d \in Dir : Revived(d) \/ Cardinality({c \in LiveCommands : c[1] = d}) <= 1

(* When a cancel request has ended, every command of the run that may      *)
(* still be at work was asked to stop, unless its directory has a command  *)
(* that came back to life, a request wrote over the run, or the queue      *)
(* timeout gave up a run whose commands were at work.                      *)
CancelStopsWork ==
    (task = "cancelled" /\ canceller.pc = "idle" /\ overtaken = {}) =>
        \A c \in LiveCommands : \/ Revived(c[1])
                                \/ command[c[1]][c[2]].status \in {"stopping", "cancelling"}

(* A result that arrives after the run has ended is taken over only from   *)
(* the directory's latest command, never from one that a requeue or a      *)
(* retry superseded, although late progress may bind the row to an old     *)
(* command again -- unless a request wrote over the run: two requests that *)
(* overlap give the same number to two attempts.                           *)
LateAdoptionIsCurrent ==
    [][\A d \in Dir :
         (/\ task \in Ended /\ "request" \notin overtaken
          /\ dir[d].status # "available" /\ dir'[d].status = "available")
         => dir'[d].cmd = Len(command[d]) /\ command[d][dir'[d].cmd].status = "success"
      ]_vars

(* A task that is a success has a complete snapshot, unless a request wrote*)
(* over it.                                                                *)
SuccessMeansAvailable ==
    (task = "success" /\ "request" \notin overtaken) =>
        snapshot = "available" /\ \A d \in Dir : dir[d].status = "available"

Torn == \/ "request" \in overtaken \/ canceller.pc = "dead"
        \/ \E r \in Requests : retrier[r].pc = "dead"

(* Every run comes to an end and gives its snapshot up -- a snapshot that  *)
(* stays "creating" blocks all later backups of the configuration --       *)
(* unless a request died half-way or wrote over it.                        *)
BackupSettles ==
    (task \notin Ended \/ snapshot = "creating")
        ~> (task \in Ended /\ snapshot # "creating") \/ Torn

(* A retry that is queued waits for its slot: it does not fail before it   *)
(* has run.                                                                *)
QueuedRetryWaits ==
    [][\A d \in Dir :
         (/\ dir[d].status = "pending" /\ dir[d].cmd = 0 /\ dir[d].retry > 0
          /\ dir'[d].status = "failed")
         => task' = "timeout" \/ command'[d] # command[d]]_vars
=============================================================================
