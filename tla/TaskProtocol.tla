---------------------------- MODULE TaskProtocol ----------------------------
(***************************************************************************)
(* A NodeTask row and the Agent that executes its command, joined by a     *)
(* WebSocket session: the channel group of the node carries commands,      *)
(* cancellations and ACKs down, the session carries acceptances, progress  *)
(* and results up, and a disconnection or a crash loses both.              *)
(***************************************************************************)
EXTENDS NodeTask

CONSTANTS
    ResultAck,   \* the session negotiates task.result ACKs
    MaxFaults    \* disconnections, Agent crashes, failed transactions
ASSUME ProtocolAssumption == ResultAck \in BOOLEAN /\ MaxFaults \in Nat

VARIABLES
    up, link, maintenance, helper,               \* the Agent's host
    localStatus, evidence, reported,             \* its SQLite row
    exec, out, runs, tracked, ctxCancelled,      \* its execution
    reader, hook, repair, flush, ackMode, inFlight,
    uplink,                                      \* frames to the control plane
    ackDue,                                      \* a processed result is not ACKed yet
    faults

(* The Agent's class of a command of the row's class.                      *)
AgentKind == CASE kind = "lifecycle" -> "detached"
               [] kind = "probe"     -> "plain"
               [] OTHER              -> kind

AG == INSTANCE AgentTask WITH
        Kinds <- {"backup", "plain", "managed", "detached"},
        kind <- AgentKind,
        status <- localStatus, cancelled <- ctxCancelled

agentVars == <<up, link, maintenance, helper, localStatus, evidence, reported, exec, out, runs, tracked,
               ctxCancelled, reader, hook, repair, flush, ackMode, inFlight>>
controlVars == <<rowVars, worker, holder>>
protocolVars == <<controlVars, downlink, agentVars, uplink, ackDue, faults>>

-----------------------------------------------------------------------------
ProtocolInit == Init /\ AG!Init /\ ackDue = FALSE /\ faults = 0

(* The control plane acts by itself.  A group without a consumer loses     *)
(* what is sent to it.                                                     *)
ControlStep ==
    /\ (\E w \in Worker : WorkerStep(w)) \/ SweepStep \/ TimeStep
    /\ link \/ UNCHANGED downlink
    /\ UNCHANGED <<agentVars, uplink, ackDue, faults>>

(* The keys of a reported result that the control plane branches on.       *)
ReportedKeys(frame) ==
    IF ~frame.evidence /\ frame.wire # "running" THEN {}
    ELSE CASE kind = "backup"    -> {"snapshot_id"}
           [] kind = "managed"   -> {"executor_finished"}
           [] kind = "lifecycle" -> {"local_detached"}
           [] OTHER              -> {}

(* The session's consumer handles one frame; a result is ACKed once it is  *)
(* committed.                                                              *)
Receive ==
    /\ uplink # <<>> /\ ~ackDue
    /\ uplink' = Tail(uplink)
    /\ LET frame == Head(uplink) IN
       /\ \/ frame.type = "accepted" /\ AcceptTask
          \/ /\ frame.type = "progress"
             /\ IF status \in Active THEN RecordProgress({}) ELSE UNCHANGED vars
          \/ /\ frame.type = "result"
             /\ \E sameError \in BOOLEAN :
                    HandleResult(frame.wire, ReportedKeys(frame), sameError)
       /\ ackDue' = (frame.type = "result")
    /\ UNCHANGED <<agentVars, faults>>

(* The transaction of a frame fails: nothing is written, nothing is ACKed. *)
ReceiveFailsAnd(acks) ==
    /\ faults < MaxFaults
    /\ faults' = faults + 1
    /\ uplink # <<>> /\ ~ackDue
    /\ uplink' = Tail(uplink)
    /\ ackDue' = (acks /\ Head(uplink).type = "result")
    /\ UNCHANGED <<controlVars, downlink, agentVars>>

AckFailedResult == ReceiveFailsAnd(TRUE)
ReceiveFails == ReceiveFailsAnd(FALSE)

SendAck ==
    /\ ackDue
    /\ ackDue' = FALSE
    /\ downlink' = IF ResultAck /\ Len(downlink) < Capacity
                   THEN Append(downlink, "ack") ELSE downlink
    /\ UNCHANGED <<controlVars, agentVars, uplink, faults>>

AgentStep ==
    /\ UNCHANGED <<controlVars, ackDue, faults>>
    /\ AG!AgentStep \/ AG!Connect \/ AG!Restart \/ AG!HelperFinishes

Fault ==
    /\ faults < MaxFaults
    /\ faults' = faults + 1
    /\ ackDue' = FALSE
    /\ UNCHANGED controlVars
    /\ AG!Disconnect \/ AG!Crash

ProtocolNext == ControlStep \/ Receive \/ ReceiveFails \/ SendAck \/ AgentStep \/ Fault

ProtocolSpec == ProtocolInit /\ [][ProtocolNext]_protocolVars

(* Agent goroutines are scheduled, engines return and the connector keeps  *)
(* redialling; the consumer keeps handling frames, waiting for the row     *)
(* lock when it must; a worker that holds the lock goes on.  Nothing is    *)
(* assumed of deliveries, sweeps, cancellations, deadlines and faults.     *)
AgentReads  == UNCHANGED <<controlVars, ackDue, faults>> /\ AG!ReaderStep
AgentWorks  == UNCHANGED <<controlVars, ackDue, faults>> /\ AG!ExecStep
AgentHooks  == UNCHANGED <<controlVars, ackDue, faults>> /\ AG!HookStep
AgentRepairs == UNCHANGED <<controlVars, ackDue, faults>> /\ AG!RepairStep
AgentFlushes == UNCHANGED <<controlVars, ackDue, faults>> /\ AG!FlushStep
AgentRetries == UNCHANGED <<controlVars, ackDue, faults>> /\ AG!DeliveryDeadline
AgentConnects == UNCHANGED <<controlVars, ackDue, faults>> /\ (AG!Connect \/ AG!Restart)
WorkerGoesOn == ControlStep /\ \E w \in Worker : worker[w].pc # "idle" /\ worker'[w] # worker[w]

FairProtocolSpec ==
    /\ ProtocolSpec
    /\ SF_protocolVars(AgentReads) /\ SF_protocolVars(AgentWorks)
    /\ WF_protocolVars(AgentHooks) /\ WF_protocolVars(AgentRepairs)
    /\ WF_protocolVars(AgentFlushes) /\ WF_protocolVars(AgentRetries)
    /\ WF_protocolVars(AgentConnects)
    /\ SF_protocolVars(Receive) /\ WF_protocolVars(SendAck)
    /\ WF_protocolVars(WorkerGoesOn)

-----------------------------------------------------------------------------
(* _node_task_has_executor_stop_evidence, beside a success                 *)
NeverDispatched == Managed /\ status = "canceled" /\ ~dispatched /\ ~accepted
ExecutorStopped == Managed /\ status \in {"canceled", "failed"} /\ "executor_finished" \in result

Decision == CASE status \in Active -> "open"
              [] NeverDispatched   -> "never"
              [] ExecutorStopped   -> "stopped"
              [] OTHER             -> status
Execution == CASE runs = 0        -> "none"
               [] exec = "engine" -> "executing"
               [] OTHER           -> "ended"

(* The protocol keeps the promises of TaskOutcome.                         *)
Outcome == INSTANCE TaskOutcome WITH decision <- Decision, execution <- Execution
KeepsOutcome == Outcome!Spec

(* The teardown of a Chat workspace trusts the row of its restore: when    *)
(* the row proves that the executor stopped or never existed, no execution *)
(* is under way on the Agent and none can still start.                     *)
StopProven == NeverDispatched \/ ExecutorStopped \/ (Managed /\ status = "success")
StopEvidenceSound ==
    StopProven =>
        /\ exec \notin AG!Executing
        /\ localStatus = "none" => \A i \in DOMAIN downlink : downlink[i] # "command"

(* No engine writes the workspace of a restore that was cancelled before   *)
(* it was dispatched ("A pending command cancelled before Agent acceptance *)
(* never had an executor that could write the workspace").                 *)
NeverDispatchedNeverRuns == NeverDispatched => exec # "engine"

(* An ACK takes a stored outcome out of the Agent's outbox only when the   *)
(* control plane has decided: an outcome is never dropped while its row is *)
(* still waiting for it.  (The ACK that an upgrade's interim running       *)
(* result receives is excluded.)                                           *)
AckedMeansDecided ==
    [][(/\ localStatus \in AG!Finished /\ ~reported /\ reported' /\ ackMode /\ ~Lifecycle)
         => status \in Terminal]_protocolVars

(* An outcome that the Agent stored reaches the row of the control plane,  *)
(* through lost frames, repeated and late ACKs, a disconnection or a crash.*)
OutcomeReachesRow == (localStatus \in AG!Finished) ~> (status \in Terminal)
=============================================================================
