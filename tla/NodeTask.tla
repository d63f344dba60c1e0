------------------------------ MODULE NodeTask ------------------------------
(***************************************************************************)
(* The control-plane side of one Agent command: the PostgreSQL row that    *)
(* apps/node keeps for it (model NodeTask) and every writer of its status: *)
(* the workers that deliver the command, the sweep that retries unaccepted *)
(* commands, the handlers of Agent frames, cancellation, the watchdog and  *)
(* the offline reconciliation.                                             *)
(*                                                                         *)
(* A writer that holds the row lock for its whole body is one action.  The *)
(* delivery path does not hold it (except for managed restores), so each   *)
(* worker advances through it step by step and acts on what it read before.*)
(* `result' is the set of the keys of the row's JSON result that some      *)
(* writer branches on.  Time is two flags of the row: `overdue' (the       *)
(* watchdog deadline has passed) and `rested' (the last delivery is older  *)
(* than the acknowledgement wait).                                         *)
(***************************************************************************)
EXTENDS Naturals, FiniteSets, Sequences

CONSTANTS
    Worker,          \* web, Celery and consumer threads that touch the row
    NoWorker,        \* nobody holds the row lock
    Kinds,           \* the classes of commands explored
    MaxAttempts,     \* 1 + TASK_COMMAND_ACK_MAX_RETRIES
    Capacity,        \* capacity of the downlink channel layer
    SingleFlight,    \* the periodic wake-up guard admits one sweep at a time
    WorkersCrash,    \* a worker process may die between two steps
    BackupReattach   \* PROTECTION_BACKUP_REATTACH_GRACE_SECONDS > 0

ASSUME NoWorkerAssumption == NoWorker \notin Worker
ASSUME BoundAssumption == MaxAttempts \in Nat \ {0} /\ Capacity \in Nat \ {0}
ASSUME FlagAssumption ==
    /\ SingleFlight \in BOOLEAN
    /\ WorkersCrash \in BOOLEAN
    /\ BackupReattach \in BOOLEAN

(* A command is of one class, named for what the code tests about it:      *)
(*   backup    protection.backup: durable acceptance, renewable lease       *)
(*   probe     source.connection_probe: durable acceptance, fixed deadline  *)
(*   plain     any other command of the generic path                        *)
(*   managed   a restore into an identity-bound Chat workspace              *)
(*   lifecycle agent.upgrade, which detaches from the Agent process         *)
AllKinds == {"backup", "probe", "plain", "managed", "lifecycle"}
ASSUME KindAssumption == Kinds \subseteq AllKinds

VARIABLES
    kind,             \* the class of the command, never written
    status,           \* NodeTask.status
    accepted,         \* accepted_at is set
    dispatched,       \* dispatched_at is set
    attempts,         \* delivery_attempt_count
    cancelRequested,  \* cancel_requested_at is set
    result,           \* keys of NodeTask.result
    overdue,          \* watchdog_deadline_at has passed
    rested,           \* last_delivery_at (or created_at) is past the ACK wait
    worker,           \* the local state of each worker
    holder,           \* the worker whose transaction holds the row lock
    downlink          \* frames published to the node's channel group

rowVars == <<kind, status, accepted, dispatched, attempts, cancelRequested,
             result, overdue, rested>>
vars == <<rowVars, worker, holder, downlink>>

-----------------------------------------------------------------------------
Active   == {"pending", "running"}
Terminal == {"success", "failed", "timeout", "canceled"}
Protocols == {"command_ack_v1", "legacy"}
Keys == Protocols \cup
        {"local_detached", "snapshot_id", "executor_finished", "cancel_requested",
         "delivery_timeout_sealed", "lifecycle_terminal_sealed", "late_result"}
Frames == {"command", "cancel", "ack"}  \* ACKs only while a session is modelled

AckDurable == kind \in {"backup", "probe"}
Managed    == kind = "managed"
Lifecycle  == kind = "lifecycle"
Detached   == Lifecycle /\ "local_detached" \in result

Idle == [pc |-> "idle", ack |-> FALSE, seen |-> 0, rested |-> FALSE, sweep |-> FALSE]
PCs == {"idle", "candidate", "retry", "expire", "route", "send", "sent", "reattach"}

Undelivered == status = "pending" /\ ~accepted
Unlocked == holder = NoWorker

(* _without_delivery_runtime_state                                         *)
WithoutDeliveryState(keys) == keys \ Protocols

(* task_uses_command_ack: the persisted selection wins over capabilities.  *)
UsesAck(capable) ==
    /\ AckDurable
    /\ "legacy" \notin result
    /\ "command_ack_v1" \in result \/ attempts > 0 \/ capable

(* group_send: a frame is queued, or lost when the group has no consumer   *)
(* or the channel is full.                                                 *)
Publish(frame) ==
    \/ UNCHANGED downlink
    \/ Len(downlink) < Capacity /\ downlink' = Append(downlink, frame)

Goto(w, pc) == worker' = [worker EXCEPT ![w].pc = pc]
Leave(w) ==
    /\ worker' = [worker EXCEPT ![w] = Idle]
    /\ holder' = IF holder = w THEN NoWorker ELSE holder

-----------------------------------------------------------------------------
Init ==
    /\ kind \in Kinds
    /\ status = "pending"
    /\ accepted = FALSE
    /\ dispatched = FALSE
    /\ attempts = 0
    /\ cancelRequested = FALSE
    /\ result = {}
    /\ overdue = FALSE
    /\ rested = FALSE
    /\ worker = [w \in Worker |-> Idle]
    /\ holder = NoWorker
    /\ downlink = <<>>

-----------------------------------------------------------------------------
(* Delivery *)

(* _persist_delivery_protocol on an undelivered row: the first caller      *)
(* chooses, from the capabilities the node advertises at that moment.      *)
SelectProtocol(capable) ==
    IF AckDurable /\ result \cap Protocols = {}
    THEN /\ result' = result \cup {IF UsesAck(capable) THEN "command_ack_v1" ELSE "legacy"}
         /\ overdue' = (overdue /\ ~UsesAck(capable))
    ELSE UNCHANGED <<result, overdue>>

(* The head of deliver_agent_task: take the row lock for a managed restore,*)
(* select the protocol, and leave retries of ACK commands to the sweep.    *)
EnterDeliveryAs(w, capable, sweep, lock) ==
    /\ Unlocked
    /\ Undelivered
    /\ SelectProtocol(capable)
    /\ LET ack == UsesAck(capable) IN
       IF ack /\ attempts > 0 /\ ~sweep
       THEN Leave(w)
       ELSE /\ worker' = [worker EXCEPT ![w].pc = "route", ![w].ack = ack, ![w].seen = attempts]
            /\ holder' = IF lock THEN w ELSE holder
    /\ UNCHANGED <<kind, status, accepted, dispatched, attempts, cancelRequested, rested, downlink>>

EnterDeliveryUnlocked(w, capable, sweep) == EnterDeliveryAs(w, capable, sweep, FALSE)
EnterDelivery(w, capable, sweep) == EnterDeliveryAs(w, capable, sweep, Managed)

(* dispatch_task's on_commit hook, redeliver_agent_task, or an             *)
(* orchestrator that sees the row pending again.                           *)
Deliver(w, capable) ==
    /\ worker[w].pc = "idle"
    /\ EnterDelivery(w, capable, FALSE)

(* _deliver_agent_task gives up before anything is published: the route is *)
(* reconnecting, or it is offline and an ACK command stays pending.        *)
DeferDelivery(w) ==
    /\ worker[w].pc = "route"
    /\ Leave(w)
    /\ UNCHANGED <<rowVars, downlink>>

(* _fail_task_delivery: an offline route or a transport error on the       *)
(* legacy path, a reconnecting route for a credential-bearing payload.     *)
(* A frame whose publication reported an error may still have been queued. *)
FailDelivery(w) ==
    /\ worker[w].pc = "route"
    /\ IF worker[w].ack THEN UNCHANGED downlink ELSE Publish("command")
    /\ holder \in {NoWorker, w}
    /\ IF Undelivered
       THEN status' = "failed" /\ result' = WithoutDeliveryState(result)
       ELSE UNCHANGED <<status, result>>
    /\ Leave(w)
    /\ UNCHANGED <<kind, accepted, dispatched, attempts, cancelRequested, overdue, rested>>

(* The conditional UPDATE that claims one ACK delivery attempt.            *)
ClaimIf(w, unchanged, onFailure) ==
    /\ worker[w].pc = "route"
    /\ worker[w].ack
    /\ IF unchanged
       THEN /\ attempts' = attempts + 1
            /\ dispatched' = TRUE
            /\ rested' = FALSE
            /\ Goto(w, "send")
            /\ UNCHANGED holder
       ELSE onFailure /\ UNCHANGED <<attempts, dispatched, rested>>
    /\ UNCHANGED <<kind, status, accepted, cancelRequested, result, overdue, downlink>>

SameAttempt(w) == attempts = worker[w].seen
ClaimAnyAttempt(w) == ClaimIf(w, Undelivered, Leave(w))
ClaimAnyStatus(w)  == ClaimIf(w, SameAttempt(w), Leave(w))
ClaimUncounted(w)  == ClaimIf(w, Undelivered /\ SameAttempt(w), Goto(w, "send") /\ UNCHANGED holder)
Claim(w) == ClaimIf(w, Undelivered /\ SameAttempt(w), Leave(w))

(* _send_task_command: after the claim for ACK, before any write otherwise.*)
PublishCommand(w) ==
    /\ \/ worker[w].pc = "send" /\ Leave(w)
       \/ worker[w].pc = "route" /\ ~worker[w].ack /\ Goto(w, "sent") /\ UNCHANGED holder
    /\ Publish("command")
    /\ UNCHANGED rowVars

(* The legacy path records its delivery after publishing, unless the Agent *)
(* or another writer moved the row meanwhile.                              *)
RecordLegacyIf(w, unchanged) ==
    /\ worker[w].pc = "sent"
    /\ holder \in {NoWorker, w}
    /\ IF unchanged
       THEN /\ status' = "running"
            /\ dispatched' = TRUE
            /\ attempts' = attempts + 1
            /\ overdue' = FALSE
            /\ rested' = FALSE
            /\ result' = WithoutDeliveryState(result)
       ELSE UNCHANGED <<status, dispatched, attempts, overdue, rested, result>>
    /\ Leave(w)
    /\ UNCHANGED <<kind, accepted, cancelRequested, downlink>>

RecordLegacyBlindly(w) == RecordLegacyIf(w, TRUE)
RecordLegacy(w) == RecordLegacyIf(w, Undelivered)

(* The process of w dies: its open transaction is rolled back, its lock is *)
(* released, and a frame it published stays published.                     *)
WorkerCrash(w) ==
    /\ WorkersCrash
    /\ worker[w].pc # "idle"
    /\ Leave(w)
    /\ UNCHANGED <<rowVars, downlink>>

-----------------------------------------------------------------------------
(* reconcile_unaccepted_agent_tasks, step by step for this row             *)

(* The candidate query; `rested' is read here and not refreshed later.     *)
SweepSelect(w) ==
    /\ worker[w].pc = "idle"
    /\ SingleFlight => \A v \in Worker : ~worker[v].sweep
    /\ AckDurable /\ Undelivered /\ "legacy" \notin result
    /\ worker' = [worker EXCEPT ![w] = [Idle EXCEPT !.pc = "candidate",
                                                    !.rested = rested, !.sweep = TRUE]]
    /\ UNCHANGED <<rowVars, holder, downlink>>

(* The loop body up to its decision: a passed deadline expires the row;    *)
(* an online route past the ACK wait gets a retry while attempts remain.   *)
SweepDecide(w, capable, online) ==
    /\ worker[w].pc = "candidate"
    /\ IF Undelivered
       THEN /\ SelectProtocol(capable)
            /\ IF ~UsesAck(capable) THEN worker' = [worker EXCEPT ![w] = Idle]
               ELSE IF overdue' THEN Goto(w, "expire")
               ELSE IF ~online \/ ~worker[w].rested THEN worker' = [worker EXCEPT ![w] = Idle]
               ELSE IF attempts >= MaxAttempts THEN Goto(w, "expire")
               ELSE Goto(w, "retry")
       ELSE worker' = [worker EXCEPT ![w] = Idle] /\ UNCHANGED <<result, overdue>>
    /\ UNCHANGED <<kind, status, accepted, dispatched, attempts, cancelRequested, rested,
                   holder, downlink>>

SweepRetry(w, capable) ==
    /\ worker[w].pc = "retry"
    /\ \/ EnterDelivery(w, capable, TRUE)
       \/ ~Undelivered /\ Leave(w) /\ UNCHANGED <<rowVars, downlink>>

(* _timeout_unaccepted_task re-reads the row under its lock.               *)
TimeoutUnaccepted(w) ==
    /\ worker[w].pc = "expire"
    /\ IF Undelivered
       THEN /\ status' = "timeout"
            /\ result' = (result \ Protocols) \cup {"delivery_timeout_sealed"}
            /\ Publish("cancel")
       ELSE UNCHANGED <<status, result, downlink>>
    /\ Leave(w)
    /\ UNCHANGED <<kind, accepted, dispatched, attempts, cancelRequested, overdue, rested>>

-----------------------------------------------------------------------------
(* Frames of the Agent *)

(* Results the Agent reports, as the keys of their JSON.                   *)
ResultKeys == CASE kind = "backup"    -> {{}, {"snapshot_id"}}
                [] kind = "managed"   -> {{}, {"executor_finished"}}
                [] kind = "lifecycle" -> {{}, {"local_detached"}}
                [] OTHER              -> {{}}

(* Wire statuses.  "abort" is the wire status failed with the error        *)
(* canceled, which is how an Agent reports a task it cancelled.  Only a    *)
(* detaching lifecycle command reports running.                            *)
WireStatuses == {"success", "failed", "abort", "canceled"} \cup
                (IF Lifecycle THEN {"running"} ELSE {})

(* accept_task: acceptance never moves a terminal row.                     *)
AcceptTask ==
    /\ Unlocked
    /\ IF status \in Active
       THEN /\ status' = "running"
            /\ accepted' = TRUE
            /\ overdue' = FALSE
            /\ result' = WithoutDeliveryState(result)
       ELSE UNCHANGED <<status, accepted, overdue, result>>
    /\ UNCHANGED <<kind, dispatched, attempts, cancelRequested, rested, worker, holder, downlink>>

(* record_task_progress: implicit acceptance.  Backups and restores renew  *)
(* a lease, a probe keeps the deadline counted from its acceptance or      *)
(* dispatch, the others do one or the other.                               *)
RecordProgress(keys) ==
    /\ Unlocked
    /\ status \in Active
    /\ status' = "running"
    /\ accepted' = TRUE
    /\ overdue' \in CASE kind \in {"backup", "managed"} -> {FALSE}
                     [] kind = "probe" /\ accepted      -> {overdue}
                     [] OTHER                            -> {overdue, FALSE}
    /\ result' = WithoutDeliveryState(result) \cup keys
    /\ UNCHANGED <<kind, dispatched, attempts, cancelRequested, rested, worker, holder, downlink>>

(* _handle_task_progress on a backup that timed out: the frame handler     *)
(* keeps the row it read and reattaches it in a later, separate write.     *)
SeeTimedOutBackup(w) ==
    /\ BackupReattach
    /\ kind = "backup" /\ status = "timeout"
    /\ worker[w].pc = "idle"
    /\ Goto(w, "reattach")
    /\ UNCHANGED <<rowVars, holder, downlink>>

(* reattach_backup_node_task saves without re-reading or locking the row.  *)
ReattachBackup(w) ==
    /\ worker[w].pc = "reattach"
    /\ status' = "running"
    /\ overdue' = FALSE
    /\ Leave(w)
    /\ UNCHANGED <<kind, accepted, dispatched, attempts, cancelRequested, result, rested, downlink>>

(* _incoming_terminal_status                                               *)
WireStatusOf(incoming) == incoming
TerminalOf(incoming) == IF incoming = "abort" THEN "failed" ELSE incoming

(* Proof that the process group of a cancelled managed restore is gone.    *)
StopEvidence(incoming, keys) ==
    /\ status = "canceled"
    /\ Managed
    /\ "executor_finished" \in keys
    /\ incoming \in {"canceled", "abort"}

(* The early returns of complete_task, after the evidence rewrote the      *)
(* incoming status and keys.                                               *)
SealedReturn == status \in Terminal /\ "delivery_timeout_sealed" \in result
AbsorbingReturn(incoming) ==
    \/ status = "success" /\ incoming # "success"
    \/ status = "canceled" /\ incoming # "canceled"
IgnoresResult(incoming, keys, sameError) ==
    \/ /\ status \in {"failed", "timeout"} /\ incoming = "success"
       /\ kind = "backup" /\ "snapshot_id" \notin keys
    \/ /\ Lifecycle /\ "lifecycle_terminal_sealed" \in result
       /\ \/ status = "success" /\ incoming = "success"
          \/ status \in {"failed", "timeout"} /\ TerminalOf(incoming) = "failed"
    \/ /\ incoming # "running" /\ TerminalOf(incoming) = status
       /\ result = keys /\ sameError
    \/ SealedReturn
    \/ AbsorbingReturn(incoming)

LateDetachedSuccess(incoming) ==
    Detached /\ status \in {"failed", "timeout"} /\ incoming = "success"

(* complete_task; sameError: the reported error equals the recorded one.   *)
CompleteTask(wire, reported, sameError) ==
    LET evidence == StopEvidence(wire, reported)
        incoming == IF evidence THEN "canceled" ELSE wire
        keys == IF evidence THEN result \cup reported ELSE reported
    IN
    /\ Unlocked
    /\ \/ /\ LateDetachedSuccess(incoming)
          /\ result' = result \cup {"late_result"}
          /\ UNCHANGED <<status, accepted, overdue>>
       \/ /\ ~LateDetachedSuccess(incoming)
          /\ IgnoresResult(incoming, keys, sameError)
          /\ UNCHANGED <<status, accepted, overdue, result>>
       \/ /\ ~LateDetachedSuccess(incoming)
          /\ ~IgnoresResult(incoming, keys, sameError)
          /\ accepted' = TRUE
          /\ IF incoming = "running"
             THEN /\ status' = "running"
                  /\ result' = WithoutDeliveryState(result) \cup keys
                  /\ overdue' = (overdue /\ "local_detached" \notin result')
             ELSE /\ status' = TerminalOf(incoming)
                  /\ result' = (IF keys = {} THEN WithoutDeliveryState(result) ELSE keys)
                               \cup (IF Lifecycle THEN {"lifecycle_terminal_sealed"} ELSE {})
                  /\ UNCHANGED overdue
    /\ UNCHANGED <<kind, dispatched, attempts, cancelRequested, rested, worker, holder, downlink>>

(* _handle_task_result: an upgrade result is merged with the row's own,    *)
(* and the host success of a detached upgrade is only evidence.            *)
HandleResult(wire, reported, sameError) ==
    LET merged == IF Lifecycle /\ wire \notin {"running", "canceled"}
                  THEN result \cup reported ELSE reported
        evidenceOnly == Lifecycle /\ status \in Active /\ wire = "success"
                        /\ "local_detached" \in merged
    IN CompleteTask(IF evidenceOnly THEN "running" ELSE wire, merged, sameError)

(* The lifecycle coordinator keeps a detached task running while it        *)
(* verifies it, and decides it, with complete_task.                        *)
CoordinatorDecides(verdict) ==
    /\ Detached
    /\ status \in Active
    /\ CompleteTask(verdict, result, FALSE)

-----------------------------------------------------------------------------
(* Cancellation, deadlines and lost nodes *)

(* cancel_task: a pending row is sealed at once, a running one is asked.   *)
CancelTask ==
    /\ Unlocked
    /\ status \in Active
    /\ Publish("cancel")
    /\ IF status = "pending"
       THEN status' = "canceled" /\ UNCHANGED <<cancelRequested, result>>
       ELSE /\ cancelRequested' = TRUE
            /\ result' = result \cup {"cancel_requested"}
            /\ UNCHANGED status
    /\ UNCHANGED <<kind, accepted, dispatched, attempts, overdue, rested, worker, holder>>

(* sweep_cancel_grace_expired: the Agent did not answer the request.       *)
SealCancelWithoutLock ==
    /\ cancelRequested
    /\ status' = "canceled"
    /\ result' = result \cup {"cancel_requested"}
    /\ UNCHANGED <<kind, accepted, dispatched, attempts, cancelRequested, overdue, rested,
                   worker, holder, downlink>>

SealCancel ==
    /\ Unlocked
    /\ status \in Active
    /\ cancelRequested
    /\ status' = "canceled"
    /\ result' = result \cup {"cancel_requested"}
    /\ UNCHANGED <<kind, accepted, dispatched, attempts, cancelRequested, overdue, rested,
                   worker, holder, downlink>>

(* sweep_watchdog_timeouts leaves detached work to its coordinator and     *)
(* unaccepted ACK commands to the reconciliation sweep.                    *)
WatchdogAppliesUnless(delivering) ==
    /\ status \in Active
    /\ overdue
    /\ ~Detached
    /\ ~(Undelivered /\ delivering)

WatchdogSkipsDurable(capable) == WatchdogAppliesUnless(AckDurable)
WatchdogApplies(capable) == WatchdogAppliesUnless(attempts > 0 \/ UsesAck(capable))

WatchdogTimeout(capable) ==
    /\ Unlocked
    /\ WatchdogApplies(capable)
    /\ status' = "timeout"
    /\ Publish("cancel")
    /\ UNCHANGED <<kind, accepted, dispatched, attempts, cancelRequested, result, overdue, rested,
                   worker, holder>>

(* A frame received within the projection grace postpones the deadline;    *)
(* for a probe only a result does.                                         *)
WatchdogDefer(capable, resultQueued) ==
    /\ Unlocked
    /\ WatchdogApplies(capable)
    /\ kind # "probe" \/ resultQueued
    /\ overdue' = FALSE
    /\ UNCHANGED <<kind, status, accepted, dispatched, attempts, cancelRequested, result, rested,
                   worker, holder, downlink>>

(* fail_node_task_offline and fail_active_tasks_for_node.                  *)
FailRow ==
    /\ Unlocked
    /\ status \in Active
    /\ status' = "failed"
    /\ UNCHANGED <<kind, accepted, dispatched, attempts, cancelRequested, result, overdue, rested,
                   worker, holder, downlink>>
FailOffline == FailRow
FailActiveForNode == ~Detached /\ FailRow

(* cancel_task and the timeouts publish task.cancel inside their           *)
(* transaction: if its worker dies, the frame is out and the row is not    *)
(* changed.                                                                *)
CancelRolledBack ==
    /\ WorkersCrash
    /\ Unlocked
    /\ status \in Active
    /\ Publish("cancel")
    /\ UNCHANGED <<rowVars, worker, holder>>

(* Time passes: the deadline, and the acknowledgement wait, which only     *)
(* commands with durable acceptance have.                                  *)
DeadlinePasses ==
    /\ ~overdue
    /\ overdue' = TRUE
    /\ UNCHANGED <<kind, status, accepted, dispatched, attempts, cancelRequested, result, rested,
                   worker, holder, downlink>>
AckWaitPasses ==
    /\ AckDurable
    /\ ~rested
    /\ rested' = TRUE
    /\ UNCHANGED <<kind, status, accepted, dispatched, attempts, cancelRequested, result, overdue,
                   worker, holder, downlink>>

-----------------------------------------------------------------------------
WorkerStep(w) ==
    \/ \E capable \in BOOLEAN :
        \/ Deliver(w, capable)
        \/ SweepRetry(w, capable)
        \/ \E online \in BOOLEAN : SweepDecide(w, capable, online)
    \/ DeferDelivery(w)
    \/ FailDelivery(w)
    \/ Claim(w)
    \/ PublishCommand(w)
    \/ RecordLegacy(w)
    \/ SweepSelect(w)
    \/ TimeoutUnaccepted(w)
    \/ SeeTimedOutBackup(w)
    \/ ReattachBackup(w)
    \/ WorkerCrash(w)

FrameStep ==
    \/ AcceptTask
    \/ \E keys \in {{}} \cup (IF Lifecycle THEN {{"local_detached"}} ELSE {}) : RecordProgress(keys)
    \/ \E wire \in WireStatuses, keys \in ResultKeys, sameError \in BOOLEAN :
        HandleResult(wire, keys, sameError)

TimeStep == DeadlinePasses \/ AckWaitPasses

SweepStep ==
    \/ CancelTask
    \/ CancelRolledBack
    \/ SealCancel
    \/ \E capable \in BOOLEAN : WatchdogTimeout(capable)
    \/ \E capable, resultQueued \in BOOLEAN : WatchdogDefer(capable, resultQueued)
    \/ FailOffline
    \/ FailActiveForNode
    \/ \E verdict \in {"running", "success", "failed"} : CoordinatorDecides(verdict)

Next == (\E w \in Worker : WorkerStep(w)) \/ FrameStep \/ SweepStep \/ TimeStep

Spec == Init /\ [][Next]_vars

(* Deadlines pass, the periodic sweeps run for ever and get the lock that  *)
(* others release, a worker that started goes on or dies, and sweeps do    *)
(* not die at the same step for ever.                                      *)
FairSpec ==
    /\ Spec
    /\ WF_vars(DeadlinePasses)
    /\ SF_vars(\E capable \in BOOLEAN : WatchdogTimeout(capable))
    /\ SF_vars(\E w \in Worker : SweepSelect(w))
    /\ \A w \in Worker :
        /\ SF_vars(worker[w].pc # "idle" /\ WorkerStep(w))
        /\ SF_vars(\E capable, online \in BOOLEAN : SweepDecide(w, capable, online))
        /\ SF_vars(TimeoutUnaccepted(w))

-----------------------------------------------------------------------------
(* Properties *)

WorkerState == [pc : PCs, ack : BOOLEAN, seen : Nat, rested : BOOLEAN, sweep : BOOLEAN]

(* Every variable holds a value of its type.                               *)
TypeOK ==
    /\ kind \in AllKinds
    /\ status \in Active \cup Terminal
    /\ accepted \in BOOLEAN
    /\ dispatched \in BOOLEAN
    /\ attempts \in Nat
    /\ cancelRequested \in BOOLEAN
    /\ result \in SUBSET Keys
    /\ overdue \in BOOLEAN
    /\ rested \in BOOLEAN
    /\ worker \in [Worker -> WorkerState]
    /\ holder \in Worker \cup {NoWorker}
    /\ downlink \in Seq(Frames)

(* A success and a cancellation are final whatever the delivery workers,   *)
(* the sweeps, stale frames and late results do: a worker that acts on an  *)
(* old read of the row (legacy delivery, delivery failure, delivery        *)
(* timeout) must not move it.                                              *)
DecidedIsFinal ==
    [][(status \in {"success", "canceled"}) => (status' = status)]_vars

(* A command sealed as never accepted stays timed out: a result or a frame *)
(* that arrives later does not bring it back (test_task_command_ack.py:    *)
(* test_retry_exhaustion_seals_timeout_against_late_result).               *)
SealedTimeoutIsFinal ==
    [][SealedReturn => (status' = status)]_vars

Commands(frames) == Cardinality({i \in DOMAIN frames : frames[i] = "command"})

(* While an ACK command waits for acceptance, at most one frame has been   *)
(* published per claimed attempt, however many workers deliver it.         *)
OneFramePerAttempt ==
    "command_ack_v1" \in result /\ status = "pending" => Commands(downlink) <= attempts

(* The sweep bounds the attempts of an ACK command although it checks the  *)
(* bound long before the claim.                                            *)
AttemptsBounded == AckDurable => attempts <= MaxAttempts

(* A command the Agent accepted is never delivered again, although the     *)
(* workers and the sweep that deliver it read the row long before.         *)
AcceptedNotRedelivered == [][accepted => attempts' = attempts]_vars

(* In the channel of a managed restore no command follows a cancel: the    *)
(* cancellation either prevents the publication or follows it, so that an  *)
(* Agent that saw the cancel never starts the restore afterwards.          *)
CancelNotOvertaken ==
    Managed => \A i, j \in DOMAIN downlink :
                  i < j => ~(downlink[i] = "cancel" /\ downlink[j] = "command")

(* No command waits for its delivery for ever, although the watchdog       *)
(* leaves unaccepted ACK commands to the reconciliation sweep and the      *)
(* sweep leaves the other commands to the watchdog: between the two no     *)
(* pending row is left behind.                                             *)
PendingEnds == (status = "pending") ~> (status # "pending")

(* A detached lifecycle task whose failure is sealed is never resurrected  *)
(* by a late frame.                                                        *)
SealedLifecycleIsFinal ==
    [][(Detached /\ "lifecycle_terminal_sealed" \in result /\ status \in {"failed", "timeout"})
         => status' = status]_vars

=============================================================================
