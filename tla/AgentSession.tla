---------------------------- MODULE AgentSession ----------------------------
(***************************************************************************)
(* AgentTask closed by its environment: a control plane that sends the     *)
(* command and its cancellation, each perhaps several times, and           *)
(* acknowledges the results it receives, and a host that disconnects and   *)
(* crashes the Agent a bounded number of times.                            *)
(***************************************************************************)
EXTENDS AgentTask, FiniteSets

CONSTANTS
    MaxFrames,   \* commands and cancellations published
    MaxFaults    \* disconnections and crashes
ASSUME MaxAssumption == MaxFrames \in Nat /\ MaxFaults \in Nat

VARIABLES
    delivered,   \* results the control plane received
    published,
    faults
envVars == <<delivered, published, faults>>
allVars == <<vars, envVars>>

(* The consumer forwards a frame of the node's channel group.              *)
Publish(frame) ==
    /\ link /\ Len(downlink) < Capacity
    /\ published < MaxFrames
    /\ published' = published + 1
    /\ downlink' = Append(downlink, frame)
    /\ UNCHANGED <<hostVars, rowVars, execVars, sessionVars, uplink, delivered, faults>>

(* A result is processed and, where the session negotiated it, ACKed.      *)
Receive ==
    /\ uplink # <<>>
    /\ uplink' = Tail(uplink)
    /\ IF Head(uplink).type = "result"
       THEN /\ delivered' = delivered \cup {Head(uplink)}
            /\ downlink' = IF ResultAck /\ Len(downlink) < Capacity
                           THEN Append(downlink, "ack") ELSE downlink
       ELSE UNCHANGED <<delivered, downlink>>
    /\ UNCHANGED <<hostVars, rowVars, execVars, sessionVars, published, faults>>

Fault ==
    /\ faults < MaxFaults
    /\ faults' = faults + 1
    /\ Disconnect \/ Crash
    /\ UNCHANGED <<delivered, published>>

SessionInit == Init /\ delivered = {} /\ published = 0 /\ faults = 0

SessionNext ==
    \/ (AgentStep \/ Connect \/ Restart \/ HelperFinishes \/ ToggleMaintenance) /\ UNCHANGED envVars
    \/ \E frame \in {"command", "cancel"} : Publish(frame)
    \/ Receive
    \/ Fault

SessionSpec == SessionInit /\ [][SessionNext]_allVars

(* Goroutines are scheduled, engines and helpers return, timers fire, the  *)
(* connector keeps redialling, a supervisor restarts the process and the   *)
(* control plane keeps reading.  The reader and the execution compete with *)
(* the outbox for the socket's write mutex, which Go grants to a waiter    *)
(* that starves: their fairness is strong.  Nothing is assumed of faults,  *)
(* of new frames or of maintenance.                                        *)
FairSessionSpec ==
    /\ SessionSpec
    /\ SF_allVars(ReaderStep /\ UNCHANGED envVars)
    /\ SF_allVars(ExecStep /\ UNCHANGED envVars)
    /\ WF_allVars(HookStep /\ UNCHANGED envVars)
    /\ WF_allVars(RepairStep /\ UNCHANGED envVars)
    /\ WF_allVars(FlushStep /\ UNCHANGED envVars)
    /\ WF_allVars(DeliveryDeadline /\ UNCHANGED envVars)
    /\ WF_allVars((Connect \/ Restart) /\ UNCHANGED envVars)
    /\ WF_allVars(HelperFinishes /\ UNCHANGED envVars)
    /\ WF_allVars(Receive)

-----------------------------------------------------------------------------
(* Every variable holds a value of its type.                               *)
TypeOK ==
    /\ kind \in AllKinds
    /\ up \in BOOLEAN /\ link \in BOOLEAN /\ maintenance \in BOOLEAN
    /\ evidence \in BOOLEAN /\ reported \in BOOLEAN
    /\ tracked \in BOOLEAN /\ cancelled \in BOOLEAN
    /\ ackMode \in BOOLEAN /\ inFlight \in BOOLEAN
    /\ helper \in {"none", "running", "succeeded", "failed"}
    /\ status \in Statuses
    /\ exec \in Execs /\ out \in Frames /\ runs \in Nat
    /\ reader \in {"idle", "cancelling"}
    /\ hook \in {"idle", "mode", "repair", "reattach", "flush"}
    /\ repair \in [pc : {"idle", "scan", "write"}, active : BOOLEAN, forHook : BOOLEAN]
    /\ flush \in [pc : {"idle", "send"}, frame : Frames]
    /\ downlink \in Seq(Commands) /\ uplink \in Seq(Frames)
    /\ delivered \subseteq Frames
    /\ published \in 0..MaxFrames /\ faults \in 0..MaxFaults

(* A command executes at most once, although it is redelivered, the        *)
(* session reconnects and the process restarts (AcceptCommand).            *)
AtMostOneRun == runs <= 1

(* A cancellation that was persisted reaches the execution: the engine     *)
(* never runs to its end with a live context after task.cancel was         *)
(* handled, even if the frame arrived before the Tracker knew the task.    *)
CancelReachesEngine ==
    status = "cancelled" /\ exec \in {"checked", "waiting", "engine"}
        => cancelled \/ (reader = "cancelling" /\ tracked)

(* The result reported for a cancelled task is never a success, whichever  *)
(* of the engine and the cancellation was first.                           *)
ConvergedResult ==
    status = "cancelled" =>
        \A f \in delivered \cup {uplink[i] : i \in DOMAIN uplink} : f.wire # "success"

(* Every finished row is eventually acknowledged by the control plane,     *)
(* through disconnections, crashes and lost or repeated ACKs.              *)
EventuallyReported == (status \in Finished /\ ~reported) ~> (reported \/ status \notin Finished)

(* Accepted work ends: by its execution, by the repair that follows a      *)
(* crash, or by the outcome of its detached helper.  (A lifecycle command  *)
(* interrupted before it detached waits for ever.)                         *)
EventuallyFinished ==
    (status = "running" /\ (kind = "detached" => helper # "none")) ~> (status \in Finished)

(* The evidence of a cancelled executor is never dropped: once it is marked*)
(* reported (MarkResultReported "marks task.result as delivered to the     *)
(* control plane") it was received, or is at least on its way.             *)
EvidenceNotDropped ==
    status = "cancelled" /\ evidence /\ reported /\ exec = "none"
        => RowResult \in delivered \cup {uplink[i] : i \in DOMAIN uplink}

(* RepairInterrupted only fails work whose execution is gone: never while  *)
(* its engine is running.                                                  *)
LiveWorkNotRepaired ==
    [][(status = "running" /\ status' = "failed" /\ exec' = exec) => exec # "engine"]_allVars
=============================================================================
