----------------------------- MODULE AgentTask -----------------------------
(***************************************************************************)
(* One command inside the Agent: its row in the local SQLite database, the *)
(* goroutine that executes it, the reader of the WebSocket session, the    *)
(* hook that runs after every connect (ACK mode, repair of interrupted     *)
(* rows, reattachment, flush), the periodic outbox and the process itself, *)
(* which may crash and restart with only the row left.                     *)
(*                                                                         *)
(* Every SQLite statement or transaction is one step (the connection pool  *)
(* has one connection); everything else interleaves.  The stored result is *)
(* abstracted to `evidence': it holds what only the engine can know.       *)
(***************************************************************************)
EXTENDS Naturals, Sequences

CONSTANTS
    Kinds,       \* the classes of commands explored
    ResultAck,   \* the peer negotiates the task.result ACK subprotocol
    Capacity     \* frames in flight in each direction of the session

AllKinds == {"backup", "plain", "pathsize", "managed", "detached"}
ASSUME KindAssumption == Kinds \subseteq AllKinds
ASSUME ResultAckAssumption == ResultAck \in BOOLEAN
ASSUME CapacityAssumption == Capacity \in Nat \ {0}

VARIABLES
    kind,         \* class of the command, never written
    up,           \* the Agent process runs
    link,         \* a WebSocket session is open
    maintenance,  \* lifecycle/connection-state.json exists
    helper,       \* a detached upgrade or uninstall: "none", "running" or its outcome
    status,       \* tasks.status, "none" when there is no row
    evidence,     \* tasks.result holds the engine's evidence
    reported,     \* tasks.result_reported
    exec,         \* where the execution goroutine is
    out,          \* the result it carries, as a frame
    runs,         \* how many times an engine was started for this command
    tracked,      \* the Tracker has an entry for the task
    cancelled,    \* the context of the execution is cancelled
    reader,       \* the session's read loop
    hook,         \* the connect hook
    repair,       \* the repair pass, serialised by lifecycleRepairMu
    flush,        \* the flush of unreported results
    ackMode,      \* resultAckEnabled
    inFlight,     \* resultInFlight holds an unexpired delivery of the task
    downlink,     \* frames on their way to the Agent
    uplink        \* frames on their way to the control plane

rowVars     == <<status, evidence, reported>>
execVars    == <<exec, out, runs, tracked, cancelled>>
sessionVars == <<reader, hook, repair, flush, ackMode, inFlight>>
hostVars    == <<kind, up, link, maintenance, helper>>
vars == <<hostVars, rowVars, execVars, sessionVars, downlink, uplink>>

-----------------------------------------------------------------------------
Finished == {"succeeded", "failed", "cancelled"}
Statuses == {"none", "running"} \cup Finished
Wires == {"success", "failed", "abort", "running"}

Frame(type, wire, ev) == [type |-> type, wire |-> wire, evidence |-> ev]
Frames == [type : {"accepted", "progress", "result"}, wire : Wires, evidence : BOOLEAN]
Commands == {"command", "cancel", "ack"}
Accepted == Frame("accepted", "running", FALSE)
Progress == Frame("progress", "running", FALSE)

(* WireStatus: a cancelled row is reported as failed with error "canceled", *)
(* here the wire status abort.                                             *)
LocalWire(s) == s
WireStatus(s) == CASE s = "succeeded" -> "success"
                   [] s = "running"   -> "running"
                   [] s = "cancelled" -> "abort"
                   [] OTHER           -> "failed"
RowResult == Frame("result", WireStatus(status), evidence)
NoOut == Frame("result", "failed", FALSE)

Executing == {"spawned", "registered", "checked", "waiting", "engine", "returned"}
Execs == {"none", "detach", "seal", "load", "report"} \cup Executing

IsResumable == kind \in {"backup", "managed"}
RepairIdle == [pc |-> "idle", active |-> FALSE, forHook |-> FALSE]
FlushIdle  == [pc |-> "idle", frame |-> NoOut]

(* SendJSON: an error when no session is open.                             *)
Send(frame) == /\ Len(uplink) < Capacity
               /\ uplink' = IF link THEN Append(uplink, frame) ELSE uplink

(* reserveResultDelivery, SendTaskResult, and the bookkeeping after it: in *)
(* ACK mode a delivery stays reserved until its ACK or its deadline,       *)
(* otherwise a successful write counts as reported.                        *)
SendResult(frame) ==
    IF ackMode /\ inFlight
    THEN UNCHANGED <<uplink, inFlight, reported>>
    ELSE /\ Send(frame)
         /\ inFlight' = (ackMode /\ link)
         /\ reported' = (reported \/ (~ackMode /\ link /\ status # "none"))

-----------------------------------------------------------------------------
Init ==
    /\ kind \in Kinds
    /\ up = TRUE /\ link = FALSE /\ maintenance = FALSE /\ helper = "none"
    /\ status = "none" /\ evidence = FALSE /\ reported = FALSE
    /\ exec = "none" /\ out = NoOut /\ runs = 0 /\ tracked = FALSE /\ cancelled = FALSE
    /\ reader = "idle" /\ hook = "idle" /\ repair = RepairIdle /\ flush = FlushIdle
    /\ ackMode = FALSE /\ inFlight = FALSE
    /\ downlink = <<>> /\ uplink = <<>>

-----------------------------------------------------------------------------
(* The read loop: Handle processes one frame at a time *)

Read(frame) ==
    /\ up /\ reader = "idle"
    /\ downlink # <<>> /\ Head(downlink) = frame
    /\ downlink' = Tail(downlink)

(* task.command during connection maintenance is refused and not recorded. *)
RefuseCommand ==
    /\ Read("command")
    /\ maintenance
    /\ Send(Frame("result", "failed", FALSE))
    /\ UNCHANGED <<hostVars, rowVars, execVars, sessionVars>>

(* task.command: AcceptCommand inserts the row once; only the insertion    *)
(* starts an execution, and a finished row is reported again.              *)
HandleCommandIf(starts) ==
    /\ Read("command")
    /\ ~maintenance
    /\ IF starts
       THEN /\ status' = "running" /\ evidence' = FALSE /\ reported' = FALSE
            /\ exec' = "spawned"
            /\ Send(Accepted)
            /\ UNCHANGED inFlight
       ELSE /\ IF status = "running"
               THEN Send(Accepted) /\ UNCHANGED <<inFlight, reported>>
               ELSE SendResult(RowResult)
            /\ UNCHANGED <<status, evidence, exec>>
    /\ UNCHANGED <<hostVars, out, runs, tracked, cancelled, reader, hook, repair, flush, ackMode>>

RestartFinishedCommand == HandleCommandIf(status \in {"none"} \cup Finished /\ exec = "none")
HandleCommand == HandleCommandIf(status = "none")

(* task.cancel: MarkCancelledIfActive; an unknown or finished task ignores *)
(* the frame.                                                              *)
HandleCancelWith(ev) ==
    /\ Read("cancel")
    /\ IF status = "running"
       THEN /\ status' = "cancelled" /\ evidence' = ev /\ reported' = FALSE
            /\ reader' = "cancelling"
       ELSE UNCHANGED <<rowVars, reader>>
    /\ UNCHANGED <<hostVars, execVars, hook, repair, flush, ackMode, inFlight, uplink>>

CancelClaimsEvidence == HandleCancelWith(kind = "managed")
HandleCancel == HandleCancelWith(FALSE)

(* Tracker.Cancel, after the cancellation was persisted.                   *)
TrackerCancel ==
    /\ up /\ reader = "cancelling"
    /\ reader' = "idle"
    /\ tracked' = FALSE
    /\ cancelled' = (cancelled \/ tracked)
    /\ UNCHANGED <<hostVars, rowVars, exec, out, runs, hook, repair, flush, ackMode, inFlight,
                   downlink, uplink>>

(* task.result ACK: it names the task, not the result it acknowledges.     *)
HandleResultAck ==
    /\ Read("ack")
    /\ reported' = (reported \/ status # "none")
    /\ inFlight' = FALSE
    /\ UNCHANGED <<hostVars, status, evidence, execVars, reader, hook, repair, flush, ackMode, uplink>>

-----------------------------------------------------------------------------
(* The execution goroutine: runTask *)

Goroutine(from, to) == up /\ exec = from /\ exec' = to

Register ==
    /\ Goroutine("spawned", "registered")
    /\ tracked' = TRUE
    /\ UNCHANGED <<hostVars, rowVars, out, runs, cancelled, sessionVars, downlink, uplink>>

(* A cancel persisted before the registration is seen here.                *)
CheckCancelledIf(seen) ==
    /\ Goroutine("registered", "checked")
    /\ cancelled' = (cancelled \/ seen)
    /\ UNCHANGED <<hostVars, rowVars, out, runs, tracked, sessionVars, downlink, uplink>>

SkipCancelCheck == CheckCancelledIf(FALSE)
CheckCancelled == CheckCancelledIf(status = "cancelled")

(* A backup waits when no snapshot slot is free.                           *)
WaitForSlot ==
    /\ kind = "backup"
    /\ Goroutine("checked", "waiting")
    /\ Send(Progress)
    /\ UNCHANGED <<hostVars, rowVars, out, runs, tracked, cancelled, sessionVars, downlink>>

(* Its context is cancelled while it waits: it finishes and reports        *)
(* "canceled" without looking at the stored row.                           *)
GiveUpSlot ==
    /\ cancelled
    /\ Goroutine("waiting", "report")
    /\ out' = Frame("result", "abort", FALSE)
    /\ IF status = "running"
       THEN status' = "cancelled" /\ evidence' = FALSE /\ reported' = FALSE
       ELSE UNCHANGED rowVars
    /\ UNCHANGED <<hostVars, runs, tracked, cancelled, sessionVars, downlink, uplink>>

(* A path.size command fails at once when its slots are busy.              *)
PathSizeBusy ==
    /\ kind = "pathsize"
    /\ Goroutine("checked", IF status = "running" THEN "report" ELSE "load")
    /\ IF status = "running"
       THEN status' = "failed" /\ evidence' = FALSE /\ reported' = FALSE
       ELSE UNCHANGED rowVars
    /\ out' = Frame("result", "failed", FALSE)
    /\ UNCHANGED <<hostVars, runs, tracked, cancelled, sessionVars, downlink, uplink>>

StartEngine ==
    /\ \/ Goroutine("checked", "engine")
       \/ Goroutine("waiting", "engine")
    /\ runs' = runs + 1
    /\ Send(Progress)
    /\ UNCHANGED <<hostVars, rowVars, out, tracked, cancelled, sessionVars, downlink>>

(* Engine.Run returns.  A managed restore always carries evidence, a       *)
(* backup carries its snapshot id on success; a cancelled context turns    *)
(* anything but a success into "canceled".                                 *)
EngineReturns(wire) ==
    /\ Goroutine("engine", IF wire = "running" /\ ~cancelled THEN "detach" ELSE "returned")
    /\ wire = "running" => kind = "detached"
    /\ out' = Frame("result",
                    IF cancelled /\ wire # "success" THEN "abort" ELSE wire,
                    kind = "managed" \/ (kind = "backup" /\ wire = "success"))
    /\ helper' = IF wire = "running" THEN "running" ELSE helper
    /\ UNCHANGED <<kind, up, link, maintenance, rowVars, runs, tracked, cancelled, sessionVars,
                   downlink, uplink>>

(* UpdateRunning: detached work keeps the row running.                     *)
Detach ==
    /\ Goroutine("detach", "report")
    /\ reported' = (reported /\ status # "running")
    /\ UNCHANGED <<hostVars, status, evidence, out, runs, tracked, cancelled, sessionVars,
                   downlink, uplink>>

LocalStatus == CASE out.wire = "success" -> "succeeded"
                 [] out.wire = "abort"   -> "cancelled"
                 [] OTHER                -> "failed"

(* FinishIfActive: the result is stored only if the row is still running.  *)
Finish ==
    /\ up /\ exec = "returned"
    /\ IF status = "running"
       THEN /\ status' = LocalStatus /\ evidence' = out.evidence /\ reported' = FALSE
            /\ exec' = IF LocalStatus = "cancelled" THEN "load" ELSE "report"
       ELSE /\ exec' = IF kind = "managed" THEN "seal" ELSE "load"
            /\ UNCHANGED rowVars
    /\ UNCHANGED <<hostVars, out, runs, tracked, cancelled, sessionVars, downlink, uplink>>

(* SealCancelledExecutorResult: the process group is gone, the evidence is *)
(* added to the cancelled row and must be reported again.                  *)
SealCancelledExecutor ==
    /\ Goroutine("seal", "load")
    /\ IF status = "cancelled"
       THEN evidence' = out.evidence /\ reported' = FALSE
       ELSE UNCHANGED <<evidence, reported>>
    /\ UNCHANGED <<hostVars, status, out, runs, tracked, cancelled, sessionVars, downlink, uplink>>

(* The reported result converges to the row that won.                      *)
LoadAs(frame) ==
    /\ Goroutine("load", "report")
    /\ out' = frame
    /\ UNCHANGED <<hostVars, rowVars, runs, tracked, cancelled, sessionVars, downlink, uplink>>
LoadNothing == LoadAs(out)
Load == LoadAs(RowResult)

(* sendLiveTaskResult, and the deferred Unregister.                        *)
Report ==
    /\ Goroutine("report", "none")
    /\ SendResult(out)
    /\ tracked' = FALSE
    /\ UNCHANGED <<hostVars, status, evidence, out, runs, cancelled, reader, hook, repair, flush,
                   ackMode, downlink>>

-----------------------------------------------------------------------------
(* The connect hook, the repair pass and the outbox *)

(* The read loop starts before the hook, which selects the ACK mode first. *)
Connect ==
    /\ up /\ ~link /\ hook = "idle"
    /\ link' = TRUE
    /\ hook' = "mode"
    /\ UNCHANGED <<kind, up, maintenance, helper, rowVars, execVars, reader, repair, flush,
                   ackMode, inFlight, downlink, uplink>>

SetAckMode ==
    /\ up /\ hook = "mode"
    /\ ackMode' = (ResultAck /\ link)
    /\ inFlight' = FALSE
    /\ hook' = "repair"
    /\ UNCHANGED <<hostVars, rowVars, execVars, reader, repair, flush, downlink, uplink>>

(* RepairRunning first asks the Tracker which tasks are active; the hook   *)
(* and the deferred repair of detached work take turns.                    *)
RepairSnapshot ==
    /\ up /\ repair.pc = "idle"
    /\ hook = "repair" \/ (hook = "idle" /\ kind = "detached" /\ status = "running")
    /\ repair' = [pc |-> "scan", active |-> tracked, forHook |-> hook = "repair"]
    /\ UNCHANGED <<hostVars, rowVars, execVars, reader, hook, flush, ackMode, inFlight,
                   downlink, uplink>>

RepairDone == repair' = RepairIdle /\ hook' = IF repair.forHook THEN "reattach" ELSE hook

(* Detached work is left alone until its outcome is on disk; anything else *)
(* that is running and was not active is taken for interrupted.            *)
NeedsRepairOf(eligible) ==
    status = "running" /\ eligible /\ (kind # "detached" \/ helper \in {"succeeded", "failed"})
NeedsRepairUnlessResumable == NeedsRepairOf(~IsResumable)
NeedsRepair == NeedsRepairOf(TRUE)
RepairedStatus == IF kind = "detached" /\ helper = "succeeded" THEN "succeeded" ELSE "failed"

(* Then it lists the running rows,                                         *)
RepairScan ==
    /\ up /\ repair.pc = "scan"
    /\ IF NeedsRepair /\ ~repair.active
       THEN repair' = [repair EXCEPT !.pc = "write"] /\ UNCHANGED hook
       ELSE RepairDone
    /\ UNCHANGED <<hostVars, rowVars, execVars, reader, flush, ackMode, inFlight, downlink, uplink>>

(* and rewrites each, whatever it has become meanwhile.                    *)
RepairWrite ==
    /\ up /\ repair.pc = "write"
    /\ status' = RepairedStatus /\ evidence' = FALSE /\ reported' = FALSE
    /\ RepairDone
    /\ UNCHANGED <<hostVars, execVars, reader, flush, ackMode, inFlight, downlink, uplink>>

(* ReattachRunningTasks re-publishes the progress of resumable work.       *)
ReattachRunning ==
    /\ up /\ hook = "reattach"
    /\ IF status = "running" /\ IsResumable THEN Send(Progress) ELSE UNCHANGED uplink
    /\ hook' = "flush"
    /\ UNCHANGED <<hostVars, rowVars, execVars, reader, repair, flush, ackMode, inFlight, downlink>>

(* FlushUnreportedResults, for the hook or for the outbox loop: list, then *)
(* send what was listed.                                                   *)
FlushListIf(due) ==
    /\ up /\ flush.pc = "idle"
    /\ due
    /\ IF status \in Finished /\ ~reported
       THEN flush' = [pc |-> "send", frame |-> RowResult] /\ UNCHANGED hook
       ELSE hook = "flush" /\ hook' = "idle" /\ UNCHANGED flush
    /\ UNCHANGED <<hostVars, rowVars, execVars, reader, repair, ackMode, inFlight, downlink, uplink>>

FlushOnConnect == FlushListIf(hook = "flush")
FlushList == FlushListIf(hook = "flush" \/ (hook = "idle" /\ link /\ ackMode))

FlushSend ==
    /\ up /\ flush.pc = "send"
    /\ SendResult(flush.frame)
    /\ flush' = FlushIdle
    /\ hook' = IF hook = "flush" THEN "idle" ELSE hook
    /\ UNCHANGED <<hostVars, status, evidence, execVars, reader, repair, ackMode, downlink>>

(* The deadline of a reserved delivery passes.                             *)
DeliveryDeadline ==
    /\ inFlight
    /\ inFlight' = FALSE
    /\ UNCHANGED <<hostVars, rowVars, execVars, reader, hook, repair, flush, ackMode, downlink, uplink>>

-----------------------------------------------------------------------------
(* The host *)

(* The session ends; the frames in flight are lost.                        *)
Disconnect ==
    /\ link
    /\ link' = FALSE
    /\ downlink' = <<>> /\ uplink' = <<>>
    /\ UNCHANGED <<kind, up, maintenance, helper, rowVars, execVars, sessionVars>>

(* The process dies; the row and a detached helper survive.                *)
Crash ==
    /\ up
    /\ up' = FALSE /\ link' = FALSE
    /\ exec' = "none" /\ out' = NoOut /\ tracked' = FALSE /\ cancelled' = FALSE
    /\ reader' = "idle" /\ hook' = "idle" /\ repair' = RepairIdle /\ flush' = FlushIdle
    /\ ackMode' = FALSE /\ inFlight' = FALSE
    /\ downlink' = <<>> /\ uplink' = <<>>
    /\ UNCHANGED <<kind, maintenance, helper, rowVars, runs>>

(* The process starts and repairs the interrupted rows before connecting.  *)
Restart ==
    /\ ~up
    /\ up' = TRUE
    /\ IF NeedsRepair
       THEN status' = RepairedStatus /\ evidence' = FALSE /\ reported' = FALSE
       ELSE UNCHANGED rowVars
    /\ UNCHANGED <<kind, link, maintenance, helper, execVars, sessionVars, downlink, uplink>>

(* The detached helper leaves its outcome on disk.                         *)
HelperFinishes ==
    /\ helper = "running"
    /\ helper' \in {"succeeded", "failed"}
    /\ UNCHANGED <<kind, up, link, maintenance, rowVars, execVars, sessionVars, downlink, uplink>>

(* Connection maintenance begins only when no task is active.              *)
ToggleMaintenance ==
    /\ status # "running"
    /\ maintenance' = ~maintenance
    /\ UNCHANGED <<kind, up, link, helper, rowVars, execVars, sessionVars, downlink, uplink>>

-----------------------------------------------------------------------------
ReaderStep == RefuseCommand \/ HandleCommand \/ HandleCancel \/ TrackerCancel \/ HandleResultAck
ExecStep ==
    \/ Register \/ CheckCancelled \/ WaitForSlot \/ GiveUpSlot \/ PathSizeBusy \/ StartEngine
    \/ \E wire \in {"success", "failed", "running"} : EngineReturns(wire)
    \/ Detach \/ Finish \/ SealCancelledExecutor \/ Load \/ Report
HookStep == SetAckMode \/ ReattachRunning
RepairStep == RepairSnapshot \/ RepairScan \/ RepairWrite
FlushStep == FlushList \/ FlushSend
AgentStep == ReaderStep \/ ExecStep \/ HookStep \/ RepairStep \/ FlushStep \/ DeliveryDeadline

HostStep == Connect \/ Disconnect \/ Crash \/ Restart \/ HelperFinishes \/ ToggleMaintenance
=============================================================================
