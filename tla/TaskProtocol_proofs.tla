------------------------- MODULE TaskProtocol_proofs -------------------------
(***************************************************************************)
(* Theorems about a command's row and the Agent that executes it, for      *)
(* every set of workers, capacity of the channels and number of faults.    *)
(***************************************************************************)
EXTENDS TaskProtocol, NodeTask_proofs

-----------------------------------------------------------------------------
(* The Agent's variables                                                   *)

AgentTypeOK ==
    /\ localStatus \in AG!Statuses
    /\ evidence \in BOOLEAN /\ reported \in BOOLEAN
    /\ exec \in AG!Execs
    /\ out \in AG!Frames /\ out.type = "result"
    /\ runs \in Nat
    /\ tracked \in BOOLEAN
    /\ repair \in [pc : {"idle", "scan", "write"}, active : BOOLEAN, forHook : BOOLEAN]
    /\ flush.pc \in {"idle", "send"} /\ flush.frame \in AG!Frames /\ flush.frame.type = "result"
    /\ uplink \in Seq(AG!Frames)

(* Everything that happens on the Agent's host.                            *)
AgentMove ==
    \/ AG!AgentStep \/ AG!Connect \/ AG!Restart \/ AG!HelperFinishes
    \/ AG!Disconnect \/ AG!Crash

(* The frames on their way to the control plane.                           *)
Sent == {uplink[i] : i \in DOMAIN uplink}

LEMMA FrameTypes ==
    ASSUME AgentTypeOK
    PROVE  AG!RowResult \in AG!Frames /\ AG!RowResult.type = "result"
BY DEF AgentTypeOK, AG!RowResult, AG!WireStatus, AG!Frame, AG!Frames, AG!Wires, AG!Statuses,
       AG!Finished

(* A frame is sent behind the others, or lost.                             *)
LEMMA SendSent ==
    ASSUME uplink \in Seq(AG!Frames), NEW frame \in AG!Frames, AG!Send(frame)
    PROVE  uplink' \in Seq(AG!Frames) /\ Sent' \subseteq Sent \cup {frame}
<1>1. CASE uplink' = Append(uplink, frame)
    <2>1. /\ uplink' \in Seq(AG!Frames) /\ DOMAIN uplink = 1..Len(uplink) /\ Len(uplink) \in Nat
          /\ DOMAIN uplink' = 1..(Len(uplink) + 1) /\ uplink'[Len(uplink) + 1] = frame
          /\ \A i \in 1..Len(uplink) : uplink'[i] = uplink[i]
        BY <1>1
    <2>2. ASSUME NEW i \in DOMAIN uplink' PROVE uplink'[i] \in Sent \cup {frame}
        <3>1. CASE i = Len(uplink) + 1
            BY <2>1, <3>1
        <3>2. CASE i \in 1..Len(uplink)
            BY <2>1, <3>2 DEF Sent
        <3> QED BY <2>1, <2>2, <3>1, <3>2
    <2> QED BY <2>1, <2>2 DEF Sent
<1>2. CASE uplink' = uplink
    BY <1>2 DEF Sent
<1> QED BY <1>1, <1>2 DEF AG!Send

LEMMA SendResultSent ==
    ASSUME uplink \in Seq(AG!Frames), reported \in BOOLEAN, NEW frame \in AG!Frames,
           AG!SendResult(frame)
    PROVE  /\ uplink' \in Seq(AG!Frames) /\ Sent' \subseteq Sent \cup {frame}
           /\ reported' \in BOOLEAN
           /\ ackMode => reported' = reported
<1>1. CASE ackMode /\ inFlight
    BY <1>1 DEF AG!SendResult, Sent
<1>2. CASE ~(ackMode /\ inFlight)
    BY <1>2, SendSent DEF AG!SendResult
<1> QED BY <1>1, <1>2

(* Every step of the Agent keeps the types.                                *)
LEMMA AgentTypeStep ==
    ASSUME TypeOK, AgentTypeOK, AgentMove
    PROVE  AgentTypeOK'
<1> USE DEF AgentTypeOK, AG!Statuses, AG!Finished
<1>1. CASE AG!HandleCommand
    <2>1. AG!Accepted \in AG!Frames
        BY DEF AG!Accepted, AG!Frame, AG!Frames, AG!Wires
    <2>2. UNCHANGED <<out, runs, tracked, repair, flush>>
        BY <1>1 DEF AG!HandleCommand, AG!HandleCommandIf
    <2>3. CASE localStatus = "none"
        <3>1. /\ AG!Send(AG!Accepted) /\ localStatus' = "running"
              /\ evidence' = FALSE /\ reported' = FALSE /\ exec' = "spawned"
            BY <1>1, <2>3 DEF AG!HandleCommand, AG!HandleCommandIf
        <3> QED BY <2>1, <2>2, <3>1, SendSent DEF AG!Execs, AG!Executing
    <2>4. CASE localStatus = "running"
        <3>1. AG!Send(AG!Accepted) /\ UNCHANGED <<localStatus, evidence, exec, reported>>
            BY <1>1, <2>4 DEF AG!HandleCommand, AG!HandleCommandIf
        <3> QED BY <2>1, <2>2, <3>1, SendSent
    <2>5. CASE localStatus \notin {"none", "running"}
        <3>1. AG!SendResult(AG!RowResult) /\ UNCHANGED <<localStatus, evidence, exec>>
            BY <1>1, <2>5 DEF AG!HandleCommand, AG!HandleCommandIf
        <3> QED BY <2>2, <3>1, SendResultSent, FrameTypes
    <2> QED BY <2>3, <2>4, <2>5
<1>2. CASE AG!RefuseCommand
    <2>1. AG!Frame("result", "failed", FALSE) \in AG!Frames
        BY DEF AG!Frame, AG!Frames, AG!Wires
    <2> QED BY <1>2, <2>1, SendSent DEF AG!RefuseCommand, AG!rowVars, AG!execVars, AG!sessionVars
<1>3. CASE AG!HandleCancel
    BY <1>3 DEF AG!HandleCancel, AG!HandleCancelWith, AG!rowVars, AG!execVars
<1>4. CASE AG!TrackerCancel
    BY <1>4 DEF AG!TrackerCancel, AG!rowVars
<1>5. CASE AG!HandleResultAck
    BY <1>5 DEF AG!HandleResultAck, AG!execVars
<1>6. CASE AG!Register \/ AG!CheckCancelled
    BY <1>6 DEF AG!Register, AG!CheckCancelled, AG!CheckCancelledIf, AG!Goroutine, AG!rowVars,
            AG!sessionVars, AG!Execs, AG!Executing
<1>7. CASE AG!WaitForSlot \/ AG!StartEngine
    <2>1. AG!Progress \in AG!Frames
        BY DEF AG!Progress, AG!Frame, AG!Frames, AG!Wires
    <2> QED BY <1>7, <2>1, SendSent DEF AG!WaitForSlot, AG!StartEngine, AG!Goroutine, AG!rowVars,
               AG!sessionVars, AG!Execs, AG!Executing
<1>8. CASE AG!GiveUpSlot
    <2>1. out' \in AG!Frames /\ out'.type = "result"
        BY <1>8 DEF AG!GiveUpSlot, AG!Frame, AG!Frames, AG!Wires
    <2>2. localStatus' \in AG!Statuses /\ evidence' \in BOOLEAN /\ reported' \in BOOLEAN
        BY <1>8 DEF AG!GiveUpSlot, AG!rowVars
    <2>3. exec' \in AG!Execs /\ UNCHANGED <<runs, tracked, repair, flush, uplink>>
        BY <1>8 DEF AG!GiveUpSlot, AG!Goroutine, AG!sessionVars, AG!Execs
    <2> QED BY <2>1, <2>2, <2>3
<1>9. ASSUME NEW wire \in {"success", "failed", "running"}, AG!EngineReturns(wire)
      PROVE  AgentTypeOK'
    BY <1>9 DEF AG!EngineReturns, AG!Goroutine, AG!rowVars, AG!sessionVars, AG!Execs,
            AG!Executing, AG!Frame, AG!Frames, AG!Wires
<1>10. CASE AG!Detach
    <2>1. reported' \in BOOLEAN
        BY <1>10 DEF AG!Detach
    <2>2. exec' = "report"
          /\ UNCHANGED <<localStatus, evidence, out, runs, tracked, repair, flush, uplink>>
        BY <1>10 DEF AG!Detach, AG!Goroutine, AG!sessionVars
    <2>3. exec' \in AG!Execs
        BY <2>2 DEF AG!Execs
    <2> QED BY <2>1, <2>2, <2>3
<1>11. CASE AG!Finish
    <2>1. AG!LocalStatus \in AG!Statuses
        BY DEF AG!LocalStatus
    <2>2. out.evidence \in BOOLEAN
        BY DEF AG!Frames
    <2>3. \/ localStatus' = AG!LocalStatus /\ evidence' = out.evidence /\ reported' = FALSE
          \/ UNCHANGED <<localStatus, evidence, reported>>
        BY <1>11 DEF AG!Finish, AG!rowVars
    <2>4. exec' \in {"load", "report", "seal"}
        BY <1>11 DEF AG!Finish
    <2>5. UNCHANGED <<out, runs, tracked, repair, flush, uplink>>
        BY <1>11 DEF AG!Finish, AG!sessionVars
    <2>6. localStatus' \in AG!Statuses /\ evidence' \in BOOLEAN /\ reported' \in BOOLEAN
        BY <2>1, <2>2, <2>3
    <2>7. exec' \in AG!Execs
        BY <2>4 DEF AG!Execs
    <2> QED BY <2>5, <2>6, <2>7
<1>12. CASE AG!SealCancelledExecutor
    <2>1. evidence' \in {evidence, out.evidence} /\ reported' \in {reported, FALSE}
        BY <1>12 DEF AG!SealCancelledExecutor
    <2>2. exec' = "load" /\ UNCHANGED <<localStatus, out, runs, tracked, repair, flush, uplink>>
        BY <1>12 DEF AG!SealCancelledExecutor, AG!Goroutine, AG!sessionVars
    <2>3. out.evidence \in BOOLEAN /\ exec' \in AG!Execs
        BY <2>2 DEF AG!Frames, AG!Execs
    <2>4. evidence' \in BOOLEAN /\ reported' \in BOOLEAN
        BY <2>1, <2>3
    <2> QED BY <2>2, <2>3, <2>4
<1>13. CASE AG!Load
    BY <1>13, FrameTypes DEF AG!Load, AG!LoadAs, AG!Goroutine, AG!rowVars, AG!sessionVars, AG!Execs
<1>14. CASE AG!Report
    BY <1>14, SendResultSent DEF AG!Report, AG!Goroutine, AG!Execs
<1>15. CASE AG!SetAckMode \/ AG!RepairSnapshot \/ AG!RepairScan
    <2>1. AG!RepairIdle \in [pc : {"idle", "scan", "write"}, active : BOOLEAN, forHook : BOOLEAN]
        BY DEF AG!RepairIdle
    <2>2. repair' \in [pc : {"idle", "scan", "write"}, active : BOOLEAN, forHook : BOOLEAN]
        <3>1. CASE AG!SetAckMode
            BY <3>1 DEF AG!SetAckMode
        <3>2. CASE AG!RepairSnapshot
            BY <3>2 DEF AG!RepairSnapshot
        <3>3. CASE AG!RepairScan
            <4>1. repair' = AG!RepairIdle \/ repair' = [repair EXCEPT !.pc = "write"]
                BY <3>3 DEF AG!RepairScan, AG!RepairDone
            <4> QED BY <2>1, <4>1
        <3> QED BY <1>15, <3>1, <3>2, <3>3
    <2>3. UNCHANGED <<localStatus, evidence, reported, exec, out, runs, tracked, flush, uplink>>
        BY <1>15 DEF AG!SetAckMode, AG!RepairSnapshot, AG!RepairScan, AG!rowVars, AG!execVars
    <2> QED BY <2>2, <2>3
<1>16. CASE AG!ReattachRunning
    <2>1. AG!Progress \in AG!Frames
        BY DEF AG!Progress, AG!Frame, AG!Frames, AG!Wires
    <2> QED BY <1>16, <2>1, SendSent DEF AG!ReattachRunning, AG!rowVars, AG!execVars
<1>17. CASE AG!RepairWrite
    BY <1>17 DEF AG!RepairWrite, AG!RepairDone, AG!RepairIdle, AG!RepairedStatus, AG!execVars
<1>18. CASE AG!FlushList
    BY <1>18, FrameTypes DEF AG!FlushList, AG!FlushListIf, AG!rowVars, AG!execVars
<1>19. CASE AG!FlushSend
    <2>1. AG!FlushIdle.pc = "idle" /\ AG!FlushIdle.frame \in AG!Frames
          /\ AG!FlushIdle.frame.type = "result"
        BY DEF AG!FlushIdle, AG!NoOut, AG!Frame, AG!Frames, AG!Wires
    <2> QED BY <1>19, <2>1, SendResultSent DEF AG!FlushSend, AG!execVars
<1>20. CASE AG!DeliveryDeadline \/ AG!Connect \/ AG!HelperFinishes
    BY <1>20 DEF AG!DeliveryDeadline, AG!Connect, AG!HelperFinishes, AG!rowVars, AG!execVars,
             AG!sessionVars
<1>21. CASE AG!Restart
    BY <1>21 DEF AG!Restart, AG!RepairedStatus, AG!rowVars, AG!execVars, AG!sessionVars
<1>22. CASE AG!Disconnect
    BY <1>22 DEF AG!Disconnect, AG!rowVars, AG!execVars, AG!sessionVars
<1>23. CASE AG!Crash
    <2>1. out' \in AG!Frames /\ out'.type = "result" /\ flush'.pc = "idle"
          /\ flush'.frame \in AG!Frames /\ flush'.frame.type = "result"
        BY <1>23 DEF AG!Crash, AG!FlushIdle, AG!NoOut, AG!Frame, AG!Frames, AG!Wires
    <2>2. repair' \in [pc : {"idle", "scan", "write"}, active : BOOLEAN, forHook : BOOLEAN]
        BY <1>23 DEF AG!Crash, AG!RepairIdle
    <2>3. /\ UNCHANGED <<localStatus, evidence, reported, runs>>
          /\ exec' = "none" /\ tracked' = FALSE /\ uplink' = <<>>
        BY <1>23 DEF AG!Crash, AG!rowVars
    <2>4. uplink' \in Seq(AG!Frames) /\ exec' \in AG!Execs
        BY <2>3 DEF AG!Execs
    <2> QED BY <2>1, <2>2, <2>3, <2>4
<1>24. ~AG!PathSizeBusy
    BY DEF AG!PathSizeBusy, AgentKind, TypeOK, AllKinds
<1> QED BY <1>1, <1>2, <1>3, <1>4, <1>5, <1>6, <1>7, <1>8, <1>9, <1>10, <1>11, <1>12, <1>13,
           <1>14, <1>15, <1>16, <1>17, <1>18, <1>19, <1>20, <1>21, <1>22, <1>23, <1>24
        DEF AgentMove, AG!AgentStep, AG!ReaderStep, AG!ExecStep, AG!HookStep, AG!RepairStep,
            AG!FlushStep

-----------------------------------------------------------------------------
(* One execution, started at most once                                     *)

Begun == {"spawned", "registered", "checked", "waiting"}

(* An engine ran and has returned or died, and no other will be started.   *)
Over == localStatus # "none" /\ runs # 0 /\ exec \notin Begun \cup {"engine"}

(* Nor has the goroutine anything left to write to the row.                *)
Closed == Over /\ exec \notin {"returned", "seal"}

(* The goroutine and its row: no execution without a row, one engine for   *)
(* each execution, and only a detaching command reports that it runs on.   *)
ExecInv ==
    /\ ~maintenance
    /\ localStatus = "none" => exec = "none" /\ runs = 0
    /\ exec \in Begun => runs = 0
    /\ exec \in {"engine", "returned", "detach", "seal"} => runs # 0
    /\ exec \in {"seal", "load"} => localStatus \in AG!Finished
    /\ repair.pc = "write" => localStatus # "none"
    /\ exec = "returned" => out.wire # "running"
    /\ exec = "detach" => Lifecycle
    /\ out.wire = "running" => Lifecycle
    /\ helper # "none" => Over

LEMMA DetachedKind == TypeOK => (AgentKind = "detached" <=> Lifecycle)
BY DEF TypeOK, AllKinds, AgentKind, Lifecycle

LEMMA ManagedKind == TypeOK => (AgentKind = "managed" <=> Managed)
BY DEF TypeOK, AllKinds, AgentKind, Managed

(* Every step of the Agent keeps this, and what is over stays over.        *)
LEMMA ExecInvStep ==
    ASSUME TypeOK, AgentTypeOK, ExecInv, AgentMove, kind' = kind
    PROVE  ExecInv' /\ (Over => Over') /\ (Closed => Closed')
<1> USE DEF ExecInv, Over, Closed, Begun, Lifecycle, AG!Finished
<1>1. CASE AG!HandleCommand
    BY <1>1 DEF AG!HandleCommand, AG!HandleCommandIf, AG!hostVars
<1>2. ~AG!RefuseCommand
    BY DEF AG!RefuseCommand
<1>3. CASE AG!HandleCancel
    BY <1>3 DEF AG!HandleCancel, AG!HandleCancelWith, AG!rowVars, AG!execVars, AG!hostVars
<1>4. CASE AG!TrackerCancel
    BY <1>4 DEF AG!TrackerCancel, AG!rowVars, AG!hostVars
<1>5. CASE AG!HandleResultAck
    BY <1>5 DEF AG!HandleResultAck, AG!execVars, AG!hostVars
<1>6. CASE AG!Register \/ AG!CheckCancelled
    BY <1>6 DEF AG!Register, AG!CheckCancelled, AG!CheckCancelledIf, AG!Goroutine, AG!rowVars,
            AG!sessionVars, AG!hostVars
<1>7. CASE AG!WaitForSlot \/ AG!StartEngine
    <2>1. runs \in Nat
        BY DEF AgentTypeOK
    <2> QED BY <1>7, <2>1 DEF AG!WaitForSlot, AG!StartEngine, AG!Goroutine, AG!rowVars,
               AG!sessionVars, AG!hostVars
<1>8. CASE AG!GiveUpSlot
    BY <1>8 DEF AG!GiveUpSlot, AG!Goroutine, AG!rowVars, AG!sessionVars, AG!hostVars, AG!Frame
<1>9. ASSUME NEW wire \in {"success", "failed", "running"}, AG!EngineReturns(wire)
      PROVE  ExecInv' /\ (Over => Over') /\ (Closed => Closed')
    BY <1>9, DetachedKind DEF AG!EngineReturns, AG!Goroutine, AG!rowVars, AG!sessionVars, AG!Frame
<1>10. CASE AG!Detach
    BY <1>10 DEF AG!Detach, AG!Goroutine, AG!sessionVars, AG!hostVars
<1>11. CASE AG!Finish
    BY <1>11 DEF AG!Finish, AG!LocalStatus, AG!rowVars, AG!sessionVars, AG!hostVars,
                 AgentTypeOK, AG!Statuses
<1>12. CASE AG!SealCancelledExecutor
    BY <1>12 DEF AG!SealCancelledExecutor, AG!Goroutine, AG!sessionVars, AG!hostVars
<1>13. CASE AG!Load
    BY <1>13 DEF AG!Load, AG!LoadAs, AG!Goroutine, AG!rowVars, AG!sessionVars, AG!hostVars,
                 AG!RowResult, AG!WireStatus, AG!Frame
<1>14. CASE AG!Report
    BY <1>14 DEF AG!Report, AG!Goroutine, AG!hostVars
<1>15. CASE AG!SetAckMode
    BY <1>15 DEF AG!SetAckMode, AG!rowVars, AG!execVars, AG!hostVars
<1>16. CASE AG!RepairSnapshot \/ AG!RepairScan
    BY <1>16 DEF AG!RepairSnapshot, AG!RepairScan, AG!RepairDone, AG!RepairIdle,
             AG!NeedsRepair, AG!NeedsRepairOf, AG!rowVars, AG!execVars, AG!hostVars
<1>17. CASE AG!RepairWrite
    BY <1>17 DEF AG!RepairWrite, AG!RepairDone, AG!RepairIdle, AG!RepairedStatus, AG!execVars,
             AG!hostVars
<1>18. CASE AG!ReattachRunning
    BY <1>18 DEF AG!ReattachRunning, AG!rowVars, AG!execVars, AG!hostVars
<1>19. CASE AG!FlushList
    BY <1>19 DEF AG!FlushList, AG!FlushListIf, AG!rowVars, AG!execVars, AG!hostVars
<1>20. CASE AG!FlushSend
    BY <1>20 DEF AG!FlushSend, AG!execVars, AG!hostVars
<1>21. CASE AG!DeliveryDeadline \/ AG!Connect
    BY <1>21 DEF AG!DeliveryDeadline, AG!Connect, AG!rowVars, AG!execVars, AG!sessionVars,
                 AG!hostVars
<1>22. CASE AG!Restart \/ AG!Disconnect \/ AG!HelperFinishes
    BY <1>22 DEF AG!Restart, AG!Disconnect, AG!HelperFinishes, AG!RepairedStatus, AG!NeedsRepair,
                 AG!NeedsRepairOf, AG!rowVars, AG!execVars, AG!sessionVars
<1>23. CASE AG!Crash
    BY <1>23 DEF AG!Crash, AG!rowVars, AG!RepairIdle, AG!NoOut, AG!Frame
<1>24. ~AG!PathSizeBusy
    BY DEF AG!PathSizeBusy, AgentKind, TypeOK, AllKinds
<1> QED BY <1>1, <1>2, <1>3, <1>4, <1>5, <1>6, <1>7, <1>8, <1>9, <1>10, <1>11, <1>12, <1>13,
           <1>14, <1>15, <1>16, <1>17, <1>18, <1>19, <1>20, <1>21, <1>22, <1>23, <1>24
        DEF AgentMove, AG!AgentStep, AG!ReaderStep, AG!ExecStep, AG!HookStep, AG!RepairStep,
            AG!FlushStep

-----------------------------------------------------------------------------
(* What the Agent tells                                                    *)

(* The results on their way, about to be sent, or stored to be sent.       *)
Told ==
    {frame \in Sent : frame.type = "result"}
    \cup (IF flush.pc = "send" THEN {flush.frame} ELSE {})
    \cup (IF exec = "report" THEN {out} ELSE {})
    \cup (IF localStatus \in AG!Finished THEN {AG!RowResult} ELSE {})

(* A failure that proves nothing.                                          *)
Blank(frame) == frame.wire \in {"failed", "abort"} /\ ~frame.evidence

(* The steps that tell what an engine returned.                            *)
Speaks == AG!Finish \/ AG!SealCancelledExecutor \/ AG!Detach

LEMMA TypeOfReports ==
    /\ AG!Accepted \in AG!Frames /\ AG!Accepted.type # "result"
    /\ AG!Progress \in AG!Frames /\ AG!Progress.type # "result"
BY DEF AG!Accepted, AG!Progress, AG!Frame, AG!Frames, AG!Wires

(* Every other step tells what was told before, a failure that proves      *)
(* nothing, or the success of a detached helper.                           *)
LEMMA TellsNothingNew ==
    ASSUME TypeOK, AgentTypeOK, ExecInv, AgentMove, ~Speaks, kind' = kind
    PROVE  \A frame \in Told' :
               \/ frame \in Told \/ Blank(frame)
               \/ Lifecycle /\ Over /\ ~frame.evidence /\ frame.wire = "success"
<1> DEFINE Goal == \A frame \in Told' :
               \/ frame \in Told \/ Blank(frame)
               \/ Lifecycle /\ Over /\ ~frame.evidence /\ frame.wire = "success"
<1> USE DEF AG!Finished
<1>1. CASE AG!HandleCommand
    <2>1. UNCHANGED <<out, flush>>
        BY <1>1 DEF AG!HandleCommand, AG!HandleCommandIf
    <2>2. CASE localStatus = "none"
        <3>1. AG!Send(AG!Accepted) /\ localStatus' = "running" /\ exec' = "spawned"
            BY <1>1, <2>2 DEF AG!HandleCommand, AG!HandleCommandIf
        <3>2. Sent' \subseteq Sent \cup {AG!Accepted}
            BY <3>1, SendSent, TypeOfReports DEF AgentTypeOK
        <3> QED BY <2>1, <3>1, <3>2, TypeOfReports DEF Told
    <2>3. CASE localStatus = "running"
        <3>1. AG!Send(AG!Accepted) /\ UNCHANGED <<localStatus, evidence, exec>>
            BY <1>1, <2>3 DEF AG!HandleCommand, AG!HandleCommandIf
        <3>2. Sent' \subseteq Sent \cup {AG!Accepted}
            BY <3>1, SendSent, TypeOfReports DEF AgentTypeOK
        <3> QED BY <2>1, <2>3, <3>1, <3>2, TypeOfReports DEF Told
    <2>4. CASE localStatus \in AG!Finished
        <3>1. AG!SendResult(AG!RowResult) /\ UNCHANGED <<localStatus, evidence, exec>>
            BY <1>1, <2>4 DEF AG!HandleCommand, AG!HandleCommandIf
        <3>2. Sent' \subseteq Sent \cup {AG!RowResult}
            BY <3>1, SendResultSent, FrameTypes DEF AgentTypeOK
        <3> QED BY <2>1, <2>4, <3>1, <3>2 DEF Told, AG!RowResult, AG!WireStatus
    <2> QED BY <2>2, <2>3, <2>4 DEF AgentTypeOK, AG!Statuses
<1>2. ~AG!RefuseCommand /\ ~AG!PathSizeBusy
    BY DEF AG!RefuseCommand, AG!PathSizeBusy, AgentKind, TypeOK, AllKinds, ExecInv
<1>3. CASE AG!HandleCancel
    <2>1. UNCHANGED <<uplink, flush, exec, out>>
        BY <1>3 DEF AG!HandleCancel, AG!HandleCancelWith, AG!execVars
    <2>2. \/ localStatus' = "cancelled" /\ evidence' = FALSE
          \/ UNCHANGED <<localStatus, evidence>>
        BY <1>3 DEF AG!HandleCancel, AG!HandleCancelWith, AG!rowVars
    <2> QED BY <2>1, <2>2 DEF Told, Sent, AG!RowResult, AG!WireStatus, AG!Frame, Blank
<1>4. CASE AG!TrackerCancel \/ AG!HandleResultAck
    <2>1. UNCHANGED <<uplink, flush, exec, out, localStatus, evidence>>
        BY <1>4 DEF AG!TrackerCancel, AG!HandleResultAck, AG!rowVars, AG!execVars
    <2> QED BY <2>1 DEF Told, Sent, AG!RowResult, AG!WireStatus
<1>5. CASE AG!Register \/ AG!CheckCancelled
    <2>1. UNCHANGED <<uplink, flush, out, localStatus, evidence>> /\ exec' # "report"
        BY <1>5 DEF AG!Register, AG!CheckCancelled, AG!CheckCancelledIf, AG!Goroutine, AG!rowVars,
            AG!sessionVars
    <2> QED BY <2>1 DEF Told, Sent, AG!RowResult, AG!WireStatus
<1>6. CASE AG!WaitForSlot \/ AG!StartEngine
    <2>1. /\ UNCHANGED <<flush, out, localStatus, evidence>> /\ exec' # "report"
          /\ AG!Send(AG!Progress)
        BY <1>6 DEF AG!WaitForSlot, AG!StartEngine, AG!Goroutine, AG!rowVars, AG!sessionVars
    <2>2. Sent' \subseteq Sent \cup {AG!Progress}
        BY <2>1, SendSent, TypeOfReports DEF AgentTypeOK
    <2> QED BY <2>1, <2>2, TypeOfReports DEF Told, AG!RowResult, AG!WireStatus
<1>7. CASE AG!GiveUpSlot
    <2>1. UNCHANGED <<uplink, flush>> /\ out'.wire = "abort" /\ out'.evidence = FALSE
        BY <1>7 DEF AG!GiveUpSlot, AG!sessionVars, AG!Frame
    <2>2. \/ localStatus' = "cancelled" /\ evidence' = FALSE
          \/ UNCHANGED <<localStatus, evidence>>
        BY <1>7 DEF AG!GiveUpSlot, AG!rowVars
    <2> QED BY <2>1, <2>2 DEF Told, Sent, AG!RowResult, AG!WireStatus, AG!Frame, Blank
<1>8. ASSUME NEW wire, AG!EngineReturns(wire) PROVE Goal
    <2>1. UNCHANGED <<uplink, flush, localStatus, evidence>> /\ exec' # "report"
        BY <1>8 DEF AG!EngineReturns, AG!Goroutine, AG!rowVars, AG!sessionVars
    <2> QED BY <2>1 DEF Told, Sent, AG!RowResult, AG!WireStatus
<1>9. CASE AG!Load
    <2>1. /\ UNCHANGED <<uplink, flush, localStatus, evidence>> /\ out' = AG!RowResult
          /\ localStatus \in AG!Finished
        BY <1>9 DEF AG!Load, AG!LoadAs, AG!Goroutine, AG!rowVars, AG!sessionVars, ExecInv
    <2> QED BY <2>1 DEF Told, Sent, AG!RowResult, AG!WireStatus
<1>10. CASE AG!Report
    <2>1. /\ UNCHANGED <<flush, localStatus, evidence>> /\ exec = "report" /\ exec' = "none"
          /\ AG!SendResult(out)
        BY <1>10 DEF AG!Report, AG!Goroutine
    <2>2. Sent' \subseteq Sent \cup {out}
        BY <2>1, SendResultSent DEF AgentTypeOK
    <2> QED BY <2>1, <2>2 DEF Told, AG!RowResult, AG!WireStatus
<1>11. CASE AG!SetAckMode \/ AG!RepairSnapshot \/ AG!RepairScan \/ AG!DeliveryDeadline
            \/ AG!Connect \/ AG!HelperFinishes
    <2>1. UNCHANGED <<uplink, flush, exec, out, localStatus, evidence>>
        BY <1>11 DEF AG!SetAckMode, AG!RepairSnapshot, AG!RepairScan, AG!DeliveryDeadline,
                     AG!Connect, AG!HelperFinishes, AG!rowVars, AG!execVars, AG!sessionVars
    <2> QED BY <2>1 DEF Told, Sent, AG!RowResult, AG!WireStatus
<1>12. CASE AG!RepairWrite
    <2>1. /\ UNCHANGED <<uplink, flush, exec, out>> /\ evidence' = FALSE
          /\ localStatus' = "failed" \/ (Lifecycle /\ Over /\ localStatus' = "succeeded")
        BY <1>12, DetachedKind DEF AG!RepairWrite, AG!RepairedStatus, AG!execVars, ExecInv
    <2> QED BY <2>1 DEF Told, Sent, AG!RowResult, AG!WireStatus, AG!Frame, Blank
<1>13. CASE AG!Restart
    <2>1. UNCHANGED <<uplink, flush, exec, out>>
        BY <1>13 DEF AG!Restart, AG!execVars, AG!sessionVars
    <2>2. \/ UNCHANGED <<localStatus, evidence>>
          \/ /\ evidence' = FALSE
             /\ localStatus' = "failed" \/ (Lifecycle /\ Over /\ localStatus' = "succeeded")
        BY <1>13, DetachedKind DEF AG!Restart, AG!RepairedStatus, AG!rowVars, ExecInv
    <2> QED BY <2>1, <2>2 DEF Told, Sent, AG!RowResult, AG!WireStatus, AG!Frame, Blank
<1>14. CASE AG!ReattachRunning
    <2>1. UNCHANGED <<flush, exec, out, localStatus, evidence>>
        BY <1>14 DEF AG!ReattachRunning, AG!rowVars, AG!execVars
    <2>2. Sent' \subseteq Sent \cup {AG!Progress}
        BY <1>14, SendSent, TypeOfReports DEF AG!ReattachRunning, AgentTypeOK, Sent
    <2> QED BY <2>1, <2>2, TypeOfReports DEF Told, AG!RowResult, AG!WireStatus
<1>15. CASE AG!FlushList
    <2>1. /\ UNCHANGED <<uplink, exec, out, localStatus, evidence>>
          /\ UNCHANGED flush \/ (localStatus \in AG!Finished /\ flush'.frame = AG!RowResult)
        BY <1>15 DEF AG!FlushList, AG!FlushListIf, AG!rowVars, AG!execVars
    <2> QED BY <2>1 DEF Told, Sent, AG!RowResult, AG!WireStatus
<1>16. CASE AG!FlushSend
    <2>1. /\ UNCHANGED <<exec, out, localStatus, evidence>>
          /\ flush.pc = "send" /\ flush'.pc = "idle" /\ AG!SendResult(flush.frame)
        BY <1>16 DEF AG!FlushSend, AG!FlushIdle, AG!execVars
    <2>2. Sent' \subseteq Sent \cup {flush.frame}
        BY <2>1, SendResultSent DEF AgentTypeOK
    <2> QED BY <2>1, <2>2 DEF Told, AG!RowResult, AG!WireStatus
<1>17. CASE AG!Disconnect \/ AG!Crash
    <2>1. /\ uplink' = <<>> /\ UNCHANGED <<localStatus, evidence>>
          /\ UNCHANGED flush \/ flush'.pc = "idle"
          /\ UNCHANGED <<exec, out>> \/ exec' = "none"
        BY <1>17 DEF AG!Disconnect, AG!Crash, AG!rowVars, AG!execVars, AG!sessionVars, AG!FlushIdle
    <2>2. Sent' = {}
        BY <2>1 DEF Sent
    <2> QED BY <2>1, <2>2 DEF Told, AG!RowResult, AG!WireStatus
<1> QED BY <1>1, <1>2, <1>3, <1>4, <1>5, <1>6, <1>7, <1>8, <1>9, <1>10, <1>11, <1>12, <1>13,
           <1>14, <1>15, <1>16, <1>17
        DEF AgentMove, AG!AgentStep, AG!ReaderStep, AG!ExecStep, AG!HookStep, AG!RepairStep,
            AG!FlushStep, Speaks

-----------------------------------------------------------------------------
(* What the row and the Agent say is true                                  *)

SaysSuccess == status = "success" \/ \E frame \in Told : frame.wire = "success"
SaysDetached == \/ "local_detached" \in result
                \/ \E frame \in Told : frame.wire = "running" \/ (Lifecycle /\ frame.evidence)
SaysStopped == \/ "executor_finished" \in result /\ status # "success"
               \/ \E frame \in Told : frame.evidence /\ frame.wire # "success"

(* A success, and the proof that the executor of a restore stopped, are    *)
(* told or recorded only when the execution is over, and never both.       *)
TruthInv ==
    /\ SaysSuccess \/ SaysDetached => Over
    /\ SaysDetached => Lifecycle
    /\ Managed /\ (SaysSuccess \/ SaysStopped) => Closed
    /\ Managed => ~(SaysSuccess /\ SaysStopped)

(* The steps of the Agent leave the row to the control plane.              *)
LEMMA TruthQuiet ==
    ASSUME TypeOK, AgentTypeOK, ExecInv, TruthInv, AgentMove, ~Speaks, UNCHANGED controlVars
    PROVE  TruthInv'
<1>1. UNCHANGED <<kind, status, result>>
    BY DEF controlVars, rowVars
<1>2. (Over => Over') /\ (Closed => Closed') /\ (Lifecycle' = Lifecycle) /\ (Managed' = Managed)
    BY <1>1, ExecInvStep DEF Lifecycle, Managed
<1>3. \A frame \in Told' :
          \/ frame \in Told \/ Blank(frame)
          \/ Lifecycle /\ Over /\ ~frame.evidence /\ frame.wire = "success"
    BY <1>1, TellsNothingNew
<1>4. SaysSuccess' => SaysSuccess \/ (Lifecycle /\ Over)
    BY <1>1, <1>3 DEF SaysSuccess, Blank
<1>5. SaysDetached' => SaysDetached
    BY <1>1, <1>2, <1>3 DEF SaysDetached, Blank
<1>6. SaysStopped' => SaysStopped
    BY <1>1, <1>3 DEF SaysStopped, Blank
<1>7. Managed => ~Lifecycle
    BY DEF Managed, Lifecycle
<1> QED BY <1>2, <1>4, <1>5, <1>6, <1>7 DEF TruthInv

(* The end of an execution tells one of the two, and it is over.           *)
LEMMA TruthSpoken ==
    ASSUME TypeOK, AgentTypeOK, ExecInv, TruthInv, Speaks, UNCHANGED controlVars
    PROVE  TruthInv'
<1>1. UNCHANGED <<kind, status, result>>
    BY DEF controlVars, rowVars
<1>2. AgentMove
    BY DEF Speaks, AgentMove, AG!AgentStep, AG!ExecStep
<1>3. (Over => Over') /\ (Closed => Closed') /\ (Lifecycle' = Lifecycle) /\ (Managed' = Managed)
    BY <1>1, <1>2, ExecInvStep DEF Lifecycle, Managed
<1>4. Managed => ~Lifecycle
    BY DEF Managed, Lifecycle
<1>5. CASE AG!Detach
    <2>1. /\ exec = "detach" /\ exec' = "report"
          /\ UNCHANGED <<uplink, flush, out, localStatus, evidence>>
        BY <1>5 DEF AG!Detach, AG!Goroutine, AG!sessionVars
    <2>2. Over /\ Lifecycle
        BY <2>1 DEF ExecInv, Over, Begun
    <2> QED BY <1>3, <1>4, <2>2 DEF TruthInv
<1>6. CASE AG!Finish
    <2>1. /\ exec = "returned" /\ exec' \in {"report", "load", "seal"}
          /\ UNCHANGED <<uplink, flush, out>> /\ Over /\ out.wire # "running"
        BY <1>6 DEF AG!Finish, AG!sessionVars, ExecInv, Over, Begun
    <2>2. Managed => ~SaysSuccess /\ ~SaysStopped
        BY <2>1 DEF TruthInv, Closed
    <2>3. CASE localStatus = "running"
        <3>1. /\ localStatus' = AG!LocalStatus /\ evidence' = out.evidence
              /\ exec' \in {"report", "load"}
            BY <1>6, <2>3 DEF AG!Finish
        <3>2. out.wire \in {"success", "failed", "abort"}
            BY <2>1 DEF AgentTypeOK, AG!Frames, AG!Wires
        <3>3. AG!RowResult'.wire = out.wire /\ AG!RowResult'.evidence = out.evidence
            BY <3>1, <3>2 DEF AG!RowResult, AG!WireStatus, AG!LocalStatus, AG!Frame
        <3>4. \A frame \in Told' : \/ frame \in Told
                                   \/ frame.wire = out.wire /\ frame.evidence = out.evidence
            BY <2>1, <3>3 DEF Told, Sent
        <3>5. Closed'
            BY <1>3, <2>1, <3>1 DEF Closed
        <3>6. SaysDetached' => SaysDetached \/ Lifecycle
            BY <1>1, <1>3, <3>2, <3>4 DEF SaysDetached
        <3>7. Managed => ~(SaysSuccess' /\ SaysStopped')
            BY <1>1, <2>2, <3>4 DEF SaysSuccess, SaysStopped
        <3> QED BY <1>3, <2>1, <3>5, <3>6, <3>7 DEF TruthInv
    <2>4. CASE localStatus # "running"
        <3>1. /\ UNCHANGED <<localStatus, evidence>> /\ exec' \in {"load", "seal"}
            BY <1>6, <2>4 DEF AG!Finish, AG!rowVars
        <3>2. \A frame \in Told' : frame \in Told
            BY <2>1, <3>1 DEF Told, Sent, AG!RowResult, AG!WireStatus
        <3>3. /\ SaysSuccess' => SaysSuccess
              /\ SaysStopped' => SaysStopped
              /\ SaysDetached' => SaysDetached
            BY <1>1, <1>3, <3>2 DEF SaysSuccess, SaysStopped, SaysDetached
        <3> QED BY <1>3, <3>3 DEF TruthInv
    <2> QED BY <2>3, <2>4
<1>7. CASE AG!SealCancelledExecutor
    <2>1. /\ exec = "seal" /\ exec' = "load" /\ UNCHANGED <<uplink, flush, out, localStatus>>
          /\ evidence' = evidence \/ localStatus = "cancelled"
        BY <1>7 DEF AG!SealCancelledExecutor, AG!Goroutine, AG!sessionVars
    <2>2. Over /\ Closed'
        BY <1>3, <2>1 DEF ExecInv, Over, Closed, Begun, AG!Finished
    <2>3. Managed => ~SaysSuccess
        BY <2>1 DEF TruthInv, Closed
    <2>4. \A frame \in Told' : frame \in Told \/ frame.wire = "abort"
        BY <2>1 DEF Told, Sent, AG!RowResult, AG!WireStatus, AG!Frame
    <2>5. (SaysSuccess' => SaysSuccess) /\ (SaysDetached' => SaysDetached \/ Lifecycle)
        BY <1>1, <1>3, <2>4 DEF SaysSuccess, SaysDetached
    <2> QED BY <1>3, <2>2, <2>3, <2>5 DEF TruthInv
<1> QED BY <1>5, <1>6, <1>7 DEF Speaks

-----------------------------------------------------------------------------
(* What the row learns                                                     *)

Marks == {"late_result", "lifecycle_terminal_sealed", "cancel_requested",
          "delivery_timeout_sealed", "command_ack_v1", "legacy"}

LEMMA CompleteTaskLearns ==
    ASSUME NEW wire, NEW told, NEW sameError, CompleteTask(wire, told, sameError)
    PROVE  /\ result' \subseteq result \cup told \cup Marks
           /\ status' = "success" => status = "success" \/ wire = "success"
           /\ wire = "success" => status' = "success" \/ result' \subseteq result \cup Marks
<1> DEFINE evidenced == StopEvidence(wire, told)
           incoming == IF evidenced THEN "canceled" ELSE wire
           keys == IF evidenced THEN result \cup told ELSE told
<1>1. /\ keys \subseteq result \cup told
      /\ incoming = "success" => wire = "success"
      /\ wire = "success" => incoming = "success"
    BY DEF StopEvidence
<1>2. \/ result' = result \cup {"late_result"} /\ UNCHANGED status
      \/ UNCHANGED <<result, status>>
      \/ IF incoming = "running"
         THEN /\ status' = "running"
              /\ result' = WithoutDeliveryState(result) \cup keys
         ELSE /\ status' = TerminalOf(incoming)
              /\ result' = (IF keys = {} THEN WithoutDeliveryState(result) ELSE keys)
                           \cup (IF Lifecycle THEN {"lifecycle_terminal_sealed"} ELSE {})
    BY DEF CompleteTask
<1> HIDE DEF incoming, keys
<1>3. WithoutDeliveryState(result) \subseteq result
    BY DEF WithoutDeliveryState
<1>4. (TerminalOf(incoming) = "success") <=> (incoming = "success")
    BY DEF TerminalOf
<1> QED BY <1>1, <1>2, <1>3, <1>4 DEF Marks

(* Nothing but a result of the Agent makes a row a success, or gives it a  *)
(* key of the Agent's, except that the coordinator decides a detached one. *)
LEMMA ControlLearns ==
    ASSUME (\E w \in Worker : WorkerStep(w)) \/ SweepStep \/ TimeStep
    PROVE  /\ result' \subseteq result \cup Marks
           /\ status' = "success" => status = "success" \/ Detached
<1> DEFINE Goal == /\ result' \subseteq result \cup Marks
                   /\ status' = "success" => status = "success" \/ Detached
<1>1. ASSUME NEW w \in Worker, WorkerStep(w) PROVE Goal
    <2>1. ASSUME NEW capable, SelectProtocol(capable) PROVE result' \subseteq result \cup Marks
        BY <2>1 DEF SelectProtocol, Marks
    <2>2. ASSUME NEW capable, NEW sweep, EnterDelivery(w, capable, sweep) PROVE Goal
        BY <2>1, <2>2 DEF EnterDelivery, EnterDeliveryAs
    <2>3. ASSUME NEW capable, Deliver(w, capable) \/ SweepRetry(w, capable) PROVE Goal
        BY <2>2, <2>3 DEF Deliver, SweepRetry, rowVars
    <2>4. ASSUME NEW capable, NEW online, SweepDecide(w, capable, online) PROVE Goal
        BY <2>1, <2>4 DEF SweepDecide
    <2>5. CASE FailDelivery(w) \/ RecordLegacy(w)
        BY <2>5 DEF FailDelivery, RecordLegacy, RecordLegacyIf, WithoutDeliveryState
    <2>6. CASE TimeoutUnaccepted(w)
        BY <2>6 DEF TimeoutUnaccepted, Marks
    <2>7. CASE Claim(w) \/ ReattachBackup(w)
        BY <2>7 DEF Claim, ClaimIf, ReattachBackup
    <2>8. CASE DeferDelivery(w) \/ PublishCommand(w) \/ SweepSelect(w) \/ SeeTimedOutBackup(w)
               \/ WorkerCrash(w)
        BY <2>8 DEF DeferDelivery, PublishCommand, SweepSelect, SeeTimedOutBackup, WorkerCrash,
                    rowVars
    <2> QED BY <1>1, <2>3, <2>4, <2>5, <2>6, <2>7, <2>8 DEF WorkerStep
<1>2. CASE SweepStep
    <2>1. ASSUME NEW verdict, CoordinatorDecides(verdict) PROVE Goal
        BY <2>1, CompleteTaskLearns DEF CoordinatorDecides
    <2>2. CASE CancelTask \/ SealCancel
        BY <2>2 DEF CancelTask, SealCancel, Marks
    <2>3. CASE CancelRolledBack \/ FailRow
        BY <2>3 DEF CancelRolledBack, FailRow, rowVars
    <2>4. ASSUME NEW capable, WatchdogTimeout(capable) PROVE Goal
        BY <2>4 DEF WatchdogTimeout
    <2>5. ASSUME NEW capable, NEW queued, WatchdogDefer(capable, queued) PROVE Goal
        BY <2>5 DEF WatchdogDefer
    <2> QED BY <1>2, <2>1, <2>2, <2>3, <2>4, <2>5 DEF SweepStep, FailOffline, FailActiveForNode
<1>3. CASE TimeStep
    BY <1>3 DEF TimeStep, DeadlinePasses, AckWaitPasses
<1> QED BY <1>1, <1>2, <1>3

(* A result frame of the Agent.                                            *)
LEMMA ResultLearns ==
    ASSUME NEW wire, NEW keys, NEW sameError, HandleResult(wire, keys, sameError)
    PROVE  /\ result' \subseteq result \cup keys \cup Marks
           /\ status' = "success" => status = "success" \/ wire = "success"
           /\ ~Lifecycle /\ wire = "success"
                => status' = "success" \/ result' \subseteq result \cup Marks
<1> DEFINE merged == IF Lifecycle /\ wire \notin {"running", "canceled"}
                     THEN result \cup keys ELSE keys
           passed == IF Lifecycle /\ status \in Active /\ wire = "success"
                        /\ "local_detached" \in merged
                     THEN "running" ELSE wire
<1>1. CompleteTask(passed, merged, sameError)
    BY DEF HandleResult
<1>2. /\ merged \subseteq result \cup keys
      /\ passed = "success" => wire = "success"
      /\ ~Lifecycle => passed = wire
    OBVIOUS
<1> HIDE DEF merged, passed
<1> QED BY <1>1, <1>2, CompleteTaskLearns

-----------------------------------------------------------------------------
(* The frames that the control plane handles                               *)

(* No worker is about to reattach a command, unless it is such a backup.   *)
Steady == Reattaches \/ NoReattach

(* The frame at the head was sent, and the others stay.                    *)
LEMMA HeadSent ==
    ASSUME AgentTypeOK, uplink # <<>>, uplink' = Tail(uplink), UNCHANGED agentVars
    PROVE  /\ Head(uplink) \in AG!Frames /\ Head(uplink) \in Sent
           /\ Sent' \subseteq Sent /\ Told' \subseteq Told /\ AgentTypeOK'
<1>1. /\ uplink' \in Seq(AG!Frames) /\ Len(uplink) \in Nat /\ Len(uplink) > 0
      /\ DOMAIN uplink = 1..Len(uplink) /\ DOMAIN uplink' = 1..(Len(uplink) - 1)
      /\ Head(uplink) = uplink[1] /\ Head(uplink) \in AG!Frames
      /\ \A i \in 1..(Len(uplink) - 1) : uplink'[i] = uplink[i + 1]
    BY DEF AgentTypeOK
<1>2. Head(uplink) \in Sent
    BY <1>1 DEF Sent
<1>3. ASSUME NEW i \in DOMAIN uplink' PROVE uplink'[i] \in Sent
    <2>1. i + 1 \in DOMAIN uplink /\ uplink'[i] = uplink[i + 1]
        BY <1>1
    <2> QED BY <2>1 DEF Sent
<1>4. Sent' \subseteq Sent
    BY <1>3 DEF Sent
<1>5. UNCHANGED <<localStatus, evidence, reported, exec, out, runs, tracked, repair, flush>>
    BY DEF agentVars
<1>6. Told' \subseteq Told
    BY <1>4, <1>5 DEF Told, AG!RowResult, AG!WireStatus
<1>7. AgentTypeOK'
    BY <1>1, <1>5 DEF AgentTypeOK
<1> QED BY <1>1, <1>2, <1>4, <1>6, <1>7

(* What is told of a frame the session handles is true of the Agent.       *)
LEMMA HeadTold ==
    ASSUME AgentTypeOK, uplink # <<>>, uplink' = Tail(uplink), UNCHANGED agentVars,
           Head(uplink).type = "result"
    PROVE  Head(uplink) \in Told
BY HeadSent DEF Told

LEMMA ReportedKeysType ==
    ASSUME NEW frame, NEW keys, keys = ReportedKeys(frame)
    PROVE  /\ keys \in ResultKeys
           /\ "executor_finished" \in keys /\ frame.wire # "running" => frame.evidence
           /\ "local_detached" \in keys => Lifecycle /\ (frame.evidence \/ frame.wire = "running")
BY DEF ReportedKeys, ResultKeys, Lifecycle

(* The session takes the steps that NodeTask allows for frames.            *)
LEMMA ReceiveIsFrameStep ==
    ASSUME TypeOK, AgentTypeOK, TruthInv, Receive
    PROVE  FrameStep \/ UNCHANGED vars
<1>1. /\ uplink # <<>> /\ uplink' = Tail(uplink) /\ UNCHANGED agentVars
    BY DEF Receive
<1> DEFINE frame == Head(uplink)
<1>2. CASE frame.type = "result"
    <2>1. PICK sameError \in BOOLEAN : HandleResult(frame.wire, ReportedKeys(frame), sameError)
        BY <1>2 DEF Receive
    <2>2. frame \in AG!Frames /\ frame \in Told
        BY <1>1, <1>2, HeadSent, HeadTold
    <2>3. frame.wire = "running" => Lifecycle
        BY <2>2 DEF TruthInv, SaysDetached
    <2>4. frame.wire \in WireStatuses
        BY <2>2, <2>3 DEF WireStatuses, AG!Frames, AG!Wires
    <2>5. ReportedKeys(frame) \in ResultKeys
        BY ReportedKeysType
    <2> QED BY <2>1, <2>4, <2>5 DEF FrameStep
<1>3. CASE frame.type # "result"
    BY <1>3 DEF Receive, FrameStep
<1> QED BY <1>2, <1>3

(* Every step of the row is one that NodeTask allows.                      *)
LEMMA RowSteps ==
    ASSUME TypeOK, AgentTypeOK, TruthInv, ControlStep \/ Receive
    PROVE  [Next]_vars
<1>1. ControlStep => Next
    BY DEF ControlStep, Next
<1> QED BY <1>1, ReceiveIsFrameStep DEF Next

(* What the control plane does by itself keeps the truth.                  *)
LEMMA TruthControl ==
    ASSUME TypeOK, AgentTypeOK, TruthInv, Steady, ControlStep
    PROVE  TruthInv'
<1>1. UNCHANGED <<localStatus, evidence, exec, out, runs, flush, uplink>>
    BY DEF ControlStep, agentVars
<1>2. Told' = Told /\ Over' = Over /\ Closed' = Closed
    BY <1>1 DEF Told, Sent, Over, Closed, AG!RowResult, AG!WireStatus
<1>3. kind' = kind /\ (Managed' = Managed) /\ (Lifecycle' = Lifecycle)
    BY RowSteps, KindKept DEF Managed, Lifecycle
<1>4. /\ result' \subseteq result \cup Marks
      /\ status' = "success" => status = "success" \/ Detached
    BY ControlLearns DEF ControlStep
<1>5. Managed /\ status = "success" => status' = "success"
    BY RowSteps, FinalKept DEF Steady, Reattaches, Managed, Final
<1>6. Detached => SaysDetached /\ Lifecycle /\ ~Managed
    BY DEF Detached, SaysDetached, Lifecycle, Managed
<1>7. SaysSuccess' => SaysSuccess \/ Detached
    BY <1>2, <1>4 DEF SaysSuccess
<1>8. SaysDetached' => SaysDetached
    BY <1>2, <1>3, <1>4 DEF SaysDetached, Marks
<1>9. Managed /\ SaysStopped' => SaysStopped
    BY <1>2, <1>4, <1>5 DEF SaysStopped, Marks
<1> QED BY <1>2, <1>3, <1>6, <1>7, <1>8, <1>9 DEF TruthInv

(* The result of an Agent is recorded as it was told.                      *)
LEMMA TruthReceive ==
    ASSUME TypeOK, AgentTypeOK, TruthInv, Steady, Receive
    PROVE  TruthInv'
<1> DEFINE frame == Head(uplink)
           keys == ReportedKeys(frame)
<1>1. uplink # <<>> /\ uplink' = Tail(uplink) /\ UNCHANGED agentVars
    BY DEF Receive
<1>2. Over' = Over /\ Closed' = Closed
    BY <1>1 DEF agentVars, Over, Closed
<1>3. Told' \subseteq Told /\ (frame.type = "result" => frame \in Told)
    BY <1>1, HeadSent, HeadTold
<1>4. kind' = kind /\ (Managed' = Managed) /\ (Lifecycle' = Lifecycle)
    BY RowSteps, KindKept DEF Managed, Lifecycle
<1>5. Managed /\ status = "success" => status' = "success"
    BY RowSteps, FinalKept DEF Steady, Reattaches, Managed, Final
<1>6. CASE frame.type = "result"
    <2>1. PICK sameError \in BOOLEAN : HandleResult(frame.wire, keys, sameError)
        BY <1>6 DEF Receive
    <2>2. /\ result' \subseteq result \cup keys \cup Marks
          /\ status' = "success" => status = "success" \/ frame.wire = "success"
          /\ ~Lifecycle /\ frame.wire = "success"
                => status' = "success" \/ result' \subseteq result \cup Marks
        BY <2>1, ResultLearns
    <2>3. SaysSuccess' => SaysSuccess
        BY <1>3, <1>6, <2>2 DEF SaysSuccess
    <2>4. /\ "executor_finished" \in keys /\ frame.wire # "running" => frame.evidence
          /\ "local_detached" \in keys => Lifecycle /\ (frame.evidence \/ frame.wire = "running")
        BY ReportedKeysType
    <2>5. "local_detached" \notin Marks /\ "executor_finished" \notin Marks
        BY DEF Marks
    <2>6. SaysDetached' => SaysDetached
        BY <1>3, <1>4, <1>6, <2>2, <2>4, <2>5 DEF SaysDetached
    <2>7. Managed /\ SaysStopped' => SaysStopped
        <3>1. Managed => frame.wire # "running" /\ ~Lifecycle
            BY <1>3, <1>6 DEF TruthInv, SaysDetached, Managed, Lifecycle
        <3>2. Managed /\ "executor_finished" \in result' /\ status' # "success" => SaysStopped
            BY <1>3, <1>5, <1>6, <2>2, <2>4, <2>5, <3>1 DEF SaysStopped
        <3> QED BY <1>3, <3>2 DEF SaysStopped
    <2> QED BY <1>2, <1>4, <2>3, <2>6, <2>7 DEF TruthInv
<1>7. CASE frame.type # "result"
    <2>1. result' \subseteq result /\ (status' = "success" => status = "success")
        BY <1>7 DEF Receive, AcceptTask, RecordProgress, WithoutDeliveryState, vars, rowVars
    <2>2. /\ SaysSuccess' => SaysSuccess
          /\ SaysDetached' => SaysDetached
          /\ Managed /\ SaysStopped' => SaysStopped
        BY <1>3, <1>4, <1>5, <2>1 DEF SaysSuccess, SaysDetached, SaysStopped
    <2> QED BY <1>2, <1>4, <2>2 DEF TruthInv
<1> QED BY <1>6, <1>7

-----------------------------------------------------------------------------
(* The channel to the Agent                                                *)

Queued == {downlink[i] : i \in DOMAIN downlink}

(* The Agent takes the first frame, or the session loses all of them.      *)
Drains ==
    \/ downlink' = downlink \/ downlink' = <<>>
    \/ downlink # <<>> /\ downlink' = Tail(downlink)

LEMMA AgentDrains ==
    ASSUME AgentMove
    PROVE  Drains
<1>1. ASSUME AG!ReaderStep PROVE Drains
    BY <1>1 DEF AG!ReaderStep, AG!RefuseCommand, AG!HandleCommand, AG!HandleCommandIf,
                AG!HandleCancel, AG!HandleCancelWith, AG!TrackerCancel, AG!HandleResultAck, AG!Read,
                Drains
<1>2. ASSUME AG!ExecStep PROVE Drains
    <2>1. ASSUME NEW wire, AG!EngineReturns(wire) PROVE Drains
        BY <2>1 DEF AG!EngineReturns, Drains
    <2> QED BY <1>2, <2>1
            DEF AG!ExecStep, AG!Register, AG!CheckCancelled, AG!CheckCancelledIf, AG!WaitForSlot,
                AG!GiveUpSlot, AG!PathSizeBusy, AG!StartEngine, AG!Detach, AG!Finish,
                AG!SealCancelledExecutor, AG!Load, AG!LoadAs, AG!Report, Drains
<1>3. ASSUME AG!HookStep \/ AG!RepairStep \/ AG!FlushStep \/ AG!DeliveryDeadline PROVE Drains
    BY <1>3 DEF AG!HookStep, AG!RepairStep, AG!FlushStep, AG!DeliveryDeadline, AG!SetAckMode,
                AG!ReattachRunning, AG!RepairSnapshot, AG!RepairScan, AG!RepairWrite, AG!FlushList,
                AG!FlushListIf, AG!FlushSend, Drains
<1>4. CASE AG!Connect \/ AG!Restart \/ AG!HelperFinishes \/ AG!Disconnect \/ AG!Crash
    BY <1>4 DEF AG!Connect, AG!Restart, AG!HelperFinishes, AG!Disconnect, AG!Crash, Drains
<1> QED BY <1>1, <1>2, <1>3, <1>4 DEF AgentMove, AG!AgentStep

(* What is left of the channel keeps its order.                            *)
LEMMA DrainKept ==
    ASSUME downlink \in Seq(Frames), Drains, kind' = kind
    PROVE  /\ downlink' \in Seq(Frames) /\ Queued' \subseteq Queued
           /\ CancelNotOvertaken => CancelNotOvertaken'
<1>1. CASE downlink' = downlink
    BY <1>1 DEF Queued, CancelNotOvertaken, Managed
<1>2. CASE downlink' = <<>>
    BY <1>2 DEF Queued, CancelNotOvertaken
<1>3. CASE downlink # <<>> /\ downlink' = Tail(downlink)
    <2>1. /\ downlink' \in Seq(Frames) /\ Len(downlink) \in Nat /\ Len(downlink) > 0
          /\ DOMAIN downlink = 1..Len(downlink) /\ DOMAIN downlink' = 1..(Len(downlink) - 1)
          /\ \A i \in 1..(Len(downlink) - 1) : downlink'[i] = downlink[i + 1]
        BY <1>3
    <2>2. \A i \in DOMAIN downlink' : i \in Nat /\ i + 1 \in DOMAIN downlink
                                    /\ downlink'[i] = downlink[i + 1]
        BY <2>1
    <2>3. Queued' \subseteq Queued
        BY <2>2 DEF Queued
    <2>4. ASSUME CancelNotOvertaken, Managed', NEW i \in DOMAIN downlink', NEW j \in DOMAIN downlink',
                 i < j
          PROVE  ~(downlink'[i] = "cancel" /\ downlink'[j] = "command")
        <3>1. Managed /\ i + 1 < j + 1
            BY <2>2, <2>4 DEF Managed
        <3> QED BY <2>2, <2>4, <3>1 DEF CancelNotOvertaken
    <2> QED BY <2>1, <2>3, <2>4 DEF CancelNotOvertaken
<1> QED BY <1>1, <1>2, <1>3 DEF Drains

(* Only an ACK takes a stored result out of the outbox of an ACK session.  *)
LEMMA ReportedByAck ==
    ASSUME AgentTypeOK, AgentMove, localStatus \in AG!Finished, ~reported, reported', ackMode
    PROVE  AG!HandleResultAck
<1> USE DEF AG!Finished
<1>1. ASSUME AG!ReaderStep PROVE AG!HandleResultAck
    <2>1. ~AG!HandleCommand
        BY SendResultSent, FrameTypes DEF AG!HandleCommand, AG!HandleCommandIf, AgentTypeOK
    <2>2. ~AG!RefuseCommand /\ ~AG!HandleCancel /\ ~AG!TrackerCancel
        BY DEF AG!RefuseCommand, AG!HandleCancel, AG!HandleCancelWith, AG!TrackerCancel, AG!rowVars
    <2> QED BY <1>1, <2>1, <2>2 DEF AG!ReaderStep
<1>2. ~AG!ExecStep
    <2>1. ASSUME NEW wire PROVE ~AG!EngineReturns(wire)
        BY DEF AG!EngineReturns, AG!rowVars
    <2>2. ~AG!Report
        BY SendResultSent DEF AG!Report, AgentTypeOK
    <2> QED BY <2>1, <2>2
            DEF AG!ExecStep, AG!Register, AG!CheckCancelled, AG!CheckCancelledIf, AG!WaitForSlot,
                AG!GiveUpSlot, AG!PathSizeBusy, AG!StartEngine, AG!Detach, AG!Finish,
                AG!SealCancelledExecutor, AG!Load, AG!LoadAs, AG!rowVars
<1>3. ~AG!FlushSend
    BY SendResultSent DEF AG!FlushSend, AgentTypeOK
<1>4. ~AG!HookStep /\ ~AG!RepairStep /\ ~AG!FlushList /\ ~AG!DeliveryDeadline
    BY DEF AG!HookStep, AG!RepairStep, AG!DeliveryDeadline, AG!SetAckMode,
           AG!ReattachRunning, AG!RepairSnapshot, AG!RepairScan, AG!RepairWrite, AG!FlushList,
           AG!FlushListIf, AG!rowVars
<1>5. ~AG!Connect /\ ~AG!Restart /\ ~AG!HelperFinishes /\ ~AG!Disconnect /\ ~AG!Crash
    BY DEF AG!Connect, AG!Restart, AG!HelperFinishes, AG!Disconnect, AG!Crash, AG!rowVars
<1> QED BY <1>1, <1>2, <1>3, <1>4, <1>5 DEF AgentMove, AG!AgentStep, AG!FlushStep

(* Without a command the Agent never gets a row.                           *)
LEMMA StaysUnknown ==
    ASSUME AgentTypeOK, ExecInv, AgentMove, localStatus = "none", downlink \in Seq(Frames),
           "command" \notin Queued
    PROVE  localStatus' = "none"
<1>1. ~AG!HandleCommand
    <2> SUFFICES ASSUME AG!HandleCommand PROVE FALSE
        OBVIOUS
    <2>1. downlink # <<>> /\ Head(downlink) = "command"
        BY DEF AG!HandleCommand, AG!HandleCommandIf, AG!Read
    <2>2. 1 \in DOMAIN downlink /\ downlink[1] = "command"
        BY <2>1
    <2> QED BY <2>2 DEF Queued
<1>2. exec = "none" /\ repair.pc # "write"
    BY DEF ExecInv
<1>3. ASSUME AG!ReaderStep PROVE localStatus' = "none"
    BY <1>1, <1>3 DEF AG!ReaderStep, AG!RefuseCommand, AG!HandleCancel, AG!HandleCancelWith,
                      AG!TrackerCancel, AG!HandleResultAck, AG!rowVars
<1>4. ~AG!ExecStep
    <2>1. ASSUME NEW wire PROVE ~AG!EngineReturns(wire)
        BY <1>2 DEF AG!EngineReturns, AG!Goroutine
    <2> QED BY <1>2, <2>1
            DEF AG!ExecStep, AG!Register, AG!CheckCancelled, AG!CheckCancelledIf, AG!WaitForSlot,
                AG!GiveUpSlot, AG!PathSizeBusy, AG!StartEngine, AG!Detach, AG!Finish,
                AG!SealCancelledExecutor, AG!Load, AG!LoadAs, AG!Report, AG!Goroutine
<1>5. ASSUME AG!HookStep \/ AG!RepairStep \/ AG!FlushStep \/ AG!DeliveryDeadline
      PROVE  localStatus' = "none"
    BY <1>2, <1>5 DEF AG!HookStep, AG!RepairStep, AG!FlushStep, AG!DeliveryDeadline,
                AG!SetAckMode, AG!ReattachRunning, AG!RepairSnapshot, AG!RepairScan, AG!RepairWrite,
                AG!FlushList, AG!FlushListIf, AG!FlushSend, AG!rowVars
<1>6. CASE AG!Connect \/ AG!Restart \/ AG!HelperFinishes \/ AG!Disconnect \/ AG!Crash
    BY <1>6 DEF AG!Connect, AG!Restart, AG!HelperFinishes, AG!Disconnect, AG!Crash,
                AG!NeedsRepair, AG!NeedsRepairOf, AG!rowVars
<1> QED BY <1>3, <1>4, <1>5, <1>6 DEF AgentMove, AG!AgentStep

-----------------------------------------------------------------------------
(* An ACK follows a decision                                               *)

LEMMA QueuedAppend ==
    ASSUME downlink \in Seq(Frames), NEW frame \in Frames, Publish(frame)
    PROVE  Queued' \subseteq Queued \cup {frame}
<1>1. CASE downlink' = downlink
    BY <1>1 DEF Queued
<1>2. CASE downlink' = Append(downlink, frame)
    <2>1. /\ DOMAIN downlink = 1..Len(downlink) /\ Len(downlink) \in Nat
          /\ DOMAIN downlink' = 1..(Len(downlink) + 1) /\ downlink'[Len(downlink) + 1] = frame
          /\ \A i \in 1..Len(downlink) : downlink'[i] = downlink[i]
        BY <1>2
    <2>2. ASSUME NEW i \in DOMAIN downlink' PROVE downlink'[i] \in Queued \cup {frame}
        <3>1. CASE i = Len(downlink) + 1
            BY <2>1, <3>1
        <3>2. CASE i \in DOMAIN downlink
            BY <2>1, <3>2 DEF Queued
        <3> QED BY <2>1, <2>2, <3>1, <3>2
    <2> QED BY <2>2 DEF Queued
<1> QED BY <1>1, <1>2 DEF Publish

(* The row publishes commands and cancels.                                 *)
LEMMA RowPublishes ==
    ASSUME [Next]_vars
    PROVE  Publish("command") \/ Publish("cancel")
<1>1. ASSUME NEW w \in Worker, WorkerStep(w) PROVE Publish("command") \/ Publish("cancel")
    <2>1. ASSUME NEW capable, NEW sweep, EnterDelivery(w, capable, sweep) PROVE UNCHANGED downlink
        BY <2>1 DEF EnterDelivery, EnterDeliveryAs
    <2> QED BY <1>1, <2>1
            DEF WorkerStep, Deliver, SweepRetry, SweepDecide, DeferDelivery, FailDelivery, Claim,
                ClaimIf, PublishCommand, RecordLegacy, RecordLegacyIf, SweepSelect,
                TimeoutUnaccepted, SeeTimedOutBackup, ReattachBackup, WorkerCrash, rowVars, Publish
<1>2. ASSUME NEW wire, NEW keys, NEW sameError, CompleteTask(wire, keys, sameError)
      PROVE  UNCHANGED downlink
    BY <1>2 DEF CompleteTask
<1>3. CASE FrameStep
    BY <1>2, <1>3 DEF FrameStep, AcceptTask, RecordProgress, HandleResult, Publish
<1>4. CASE SweepStep
    <2>1. ASSUME NEW verdict, CoordinatorDecides(verdict) PROVE UNCHANGED downlink
        BY <1>2, <2>1 DEF CoordinatorDecides
    <2>2. CASE CancelTask \/ CancelRolledBack
        BY <2>2 DEF CancelTask, CancelRolledBack
    <2>3. ASSUME NEW capable, WatchdogTimeout(capable) PROVE Publish("cancel")
        BY <2>3 DEF WatchdogTimeout
    <2>4. ASSUME NEW capable, NEW queued, WatchdogDefer(capable, queued) PROVE UNCHANGED downlink
        BY <2>4 DEF WatchdogDefer
    <2>5. CASE SealCancel \/ FailRow
        BY <2>5 DEF SealCancel, FailRow, Publish
    <2> QED BY <1>4, <2>1, <2>2, <2>3, <2>4, <2>5
            DEF SweepStep, FailOffline, FailActiveForNode, Publish
<1>5. CASE TimeStep
    BY <1>5 DEF TimeStep, DeadlinePasses, AckWaitPasses, Publish
<1>6. CASE UNCHANGED vars
    BY <1>6 DEF vars, Publish
<1> QED BY <1>1, <1>3, <1>4, <1>5, <1>6 DEF Next

(* A result of the Agent leaves the row decided, whether it is recorded or *)
(* ignored.                                                                *)
LEMMA ResultDecides ==
    ASSUME TypeOK, ~Lifecycle, NEW wire \in WireStatuses, NEW keys, NEW sameError,
           HandleResult(wire, keys, sameError)
    PROVE  status' \in Terminal
<1>1. CompleteTask(wire, keys, sameError)
    BY DEF HandleResult
<1> DEFINE evidenced == StopEvidence(wire, keys)
           incoming == IF evidenced THEN "canceled" ELSE wire
           merged == IF evidenced THEN result \cup keys ELSE keys
<1>2. incoming \in {"success", "failed", "abort", "canceled"}
    BY DEF WireStatuses
<1>3. \/ IgnoresResult(incoming, merged, sameError) /\ UNCHANGED status
      \/ IF incoming = "running" THEN status' = "running" ELSE status' = TerminalOf(incoming)
    BY <1>1 DEF CompleteTask, LateDetachedSuccess, Detached
<1> HIDE DEF incoming, merged
<1>4. TerminalOf(incoming) \in Terminal
    BY <1>2 DEF TerminalOf, Terminal
<1>5. IgnoresResult(incoming, merged, sameError) => status \in Terminal
    BY <1>4 DEF IgnoresResult, SealedReturn, AbsorbingReturn, Terminal
<1> QED BY <1>2, <1>3, <1>4, <1>5

(* A decided row stays decided: only a detached command and a reattached   *)
(* backup run again.                                                       *)
LEMMA TerminalKept ==
    ASSUME TypeOK, ~Lifecycle, NoReattach, status \in Terminal, [Next]_vars
    PROVE  status' \in Terminal
<1>1. status \notin Active /\ ~Undelivered
    BY DEF Terminal, Active, Undelivered
<1>2. ASSUME NEW w \in Worker, WorkerStep(w) PROVE status' = status
    <2>1. ASSUME NEW capable, NEW sweep, EnterDelivery(w, capable, sweep) PROVE status' = status
        BY <2>1 DEF EnterDelivery, EnterDeliveryAs
    <2>2. ~ReattachBackup(w)
        BY DEF NoReattach, ReattachBackup
    <2> QED BY <1>1, <1>2, <2>1, <2>2
            DEF WorkerStep, Deliver, SweepRetry, SweepDecide, DeferDelivery, FailDelivery, Claim,
                ClaimIf, PublishCommand, RecordLegacy, RecordLegacyIf, SweepSelect,
                TimeoutUnaccepted, SeeTimedOutBackup, WorkerCrash, rowVars
<1>3. CASE FrameStep
    BY <1>1, <1>3, ResultDecides DEF FrameStep, AcceptTask, RecordProgress
<1>4. CASE SweepStep
    <2>1. ASSUME NEW verdict PROVE ~CoordinatorDecides(verdict)
        BY <1>1 DEF CoordinatorDecides
    <2>2. ASSUME NEW capable PROVE ~WatchdogTimeout(capable)
        BY <1>1 DEF WatchdogTimeout, WatchdogApplies, WatchdogAppliesUnless
    <2>3. ASSUME NEW capable, NEW queued, WatchdogDefer(capable, queued) PROVE status' = status
        BY <2>3 DEF WatchdogDefer
    <2>4. ~CancelTask /\ ~CancelRolledBack /\ ~SealCancel /\ ~FailRow
        BY <1>1 DEF CancelTask, CancelRolledBack, SealCancel, FailRow
    <2> QED BY <1>4, <2>1, <2>2, <2>3, <2>4 DEF SweepStep, FailOffline, FailActiveForNode
<1>5. CASE TimeStep
    BY <1>5 DEF TimeStep, DeadlinePasses, AckWaitPasses
<1>6. CASE UNCHANGED vars
    BY <1>6 DEF vars, rowVars
<1> QED BY <1>2, <1>3, <1>4, <1>5, <1>6 DEF Next

(* An ACK is due, or on its way, only for a row that is decided.           *)
AckInv ==
    ~Lifecycle /\ ~Reattaches /\ (ackDue \/ "ack" \in Queued) => status \in Terminal

(* The steps that leave the row alone.                                     *)
LEMMA AgentAlone ==
    ASSUME AgentStep \/ Fault
    PROVE  AgentMove /\ UNCHANGED controlVars /\ (ackDue' => ackDue)
BY DEF AgentStep, Fault, AgentMove

LEMMA ControlKept ==
    ASSUME UNCHANGED controlVars
    PROVE  /\ UNCHANGED <<kind, status, accepted, dispatched, attempts, cancelRequested, result,
                          overdue, rested, worker, holder>>
           /\ (Managed' = Managed) /\ (Lifecycle' = Lifecycle) /\ (Reattaches' = Reattaches)
BY DEF controlVars, rowVars, Managed, Lifecycle, Reattaches

LEMMA AckInvStep ==
    ASSUME TypeOK, AgentTypeOK, TruthInv, Steady, AckInv, ProtocolNext
    PROVE  AckInv'
<1>1. CASE ControlStep \/ Receive
    <2> SUFFICES ASSUME ~Lifecycle', ~Reattaches', ackDue' \/ "ack" \in Queued'
                 PROVE  status' \in Terminal
        BY DEF AckInv
    <2>1. [Next]_vars
        BY <1>1, RowSteps
    <2>2. ~Lifecycle /\ ~Reattaches /\ NoReattach
        BY <2>1, KindKept DEF Lifecycle, Reattaches, Steady
    <2>3. "ack" \in Queued' => "ack" \in Queued
        BY <2>1, RowPublishes, QueuedAppend DEF TypeOK, Frames
    <2>4. CASE status \in Terminal
        BY <2>1, <2>2, <2>4, TerminalKept
    <2>5. CASE status \notin Terminal
        <3>1. ~ackDue /\ "ack" \notin Queued /\ ackDue'
            BY <2>2, <2>3, <2>5 DEF AckInv
        <3>2. Receive /\ Head(uplink).type = "result"
            BY <1>1, <3>1 DEF ControlStep, Receive
        <3>3. PICK sameError \in BOOLEAN :
                  HandleResult(Head(uplink).wire, ReportedKeys(Head(uplink)), sameError)
            BY <3>2 DEF Receive
        <3>4. Head(uplink) \in AG!Frames /\ Head(uplink) \in Told
            BY <3>2, HeadSent, HeadTold DEF Receive
        <3>5. Head(uplink).wire \in WireStatuses
            BY <2>2, <3>4 DEF TruthInv, SaysDetached, WireStatuses, AG!Frames, AG!Wires
        <3> QED BY <2>2, <3>3, <3>5, ResultDecides
    <2> QED BY <2>4, <2>5
<1>2. CASE ReceiveFails
    <2>1. UNCHANGED <<controlVars, downlink>> /\ ackDue' = FALSE
        BY <1>2 DEF ReceiveFails, ReceiveFailsAnd
    <2> QED BY <2>1, ControlKept DEF AckInv, Queued
<1>3. CASE SendAck
    <2>1. UNCHANGED controlVars /\ ackDue /\ ackDue' = FALSE
        BY <1>3 DEF SendAck
    <2> QED BY <2>1, ControlKept DEF AckInv
<1>4. CASE AgentStep \/ Fault
    <2>1. AgentMove /\ UNCHANGED controlVars /\ (ackDue' => ackDue)
        BY <1>4, AgentAlone
    <2>2. Queued' \subseteq Queued
        BY <2>1, ControlKept, AgentDrains, DrainKept DEF TypeOK
    <2> QED BY <2>1, <2>2, ControlKept DEF AckInv
<1> QED BY <1>1, <1>2, <1>3, <1>4 DEF ProtocolNext

(* The types of the row survive what the Agent and the session do.         *)
LEMMA TypeOKProtocol ==
    ASSUME TypeOK, AgentTypeOK, TruthInv, ProtocolNext
    PROVE  TypeOK'
<1>1. CASE ControlStep \/ Receive
    BY <1>1, RowSteps, TypeOKStep
<1>2. CASE ~(ControlStep \/ Receive)
    <2>1. UNCHANGED controlVars
        BY <1>2, AgentAlone DEF ProtocolNext, ReceiveFails, ReceiveFailsAnd, SendAck
    <2>2. downlink' \in Seq(Frames)
        <3>1. CASE AgentStep \/ Fault
            BY <2>1, <3>1, ControlKept, AgentAlone, AgentDrains, DrainKept DEF TypeOK
        <3>2. CASE ReceiveFails
            BY <3>2 DEF ReceiveFails, ReceiveFailsAnd, TypeOK
        <3>3. CASE SendAck
            BY <3>3 DEF SendAck, TypeOK, Frames
        <3> QED BY <1>2, <3>1, <3>2, <3>3 DEF ProtocolNext
    <2> QED BY <2>1, <2>2, ControlKept DEF TypeOK
<1> QED BY <1>1, <1>2

LEMMA SteadyStep ==
    ASSUME TypeOK, AgentTypeOK, TruthInv, Steady, ProtocolNext
    PROVE  Steady'
<1>1. CASE ControlStep \/ Receive
    <2>1. [Next]_vars /\ kind' = kind
        BY <1>1, RowSteps, KindKept
    <2> QED BY <2>1, NoReattachStep DEF Steady, Reattaches
<1>2. CASE ~(ControlStep \/ Receive)
    <2>1. UNCHANGED controlVars
        BY <1>2, AgentAlone DEF ProtocolNext, ReceiveFails, ReceiveFailsAnd, SendAck
    <2> QED BY <2>1, ControlKept DEF Steady, NoReattach
<1> QED BY <1>1, <1>2

(* What the row and the Agent say stays true.                              *)
LEMMA TruthStep ==
    ASSUME TypeOK, AgentTypeOK, ExecInv, TruthInv, Steady, ProtocolNext
    PROVE  AgentTypeOK' /\ ExecInv' /\ TruthInv'
<1>1. CASE ControlStep
    <2>1. kind' = kind
        BY <1>1, RowSteps, KindKept
    <2>2. UNCHANGED <<agentVars, uplink>>
        BY <1>1 DEF ControlStep
    <2>3. AgentTypeOK' /\ ExecInv'
        BY <2>1, <2>2 DEF agentVars, AgentTypeOK, ExecInv, Over, Lifecycle
    <2> QED BY <1>1, <2>3, TruthControl
<1>2. CASE Receive
    <2>1. kind' = kind
        BY <1>2, RowSteps, KindKept
    <2>2. UNCHANGED agentVars /\ AgentTypeOK'
        BY <1>2, HeadSent DEF Receive
    <2>3. ExecInv'
        BY <2>1, <2>2 DEF agentVars, ExecInv, Over, Lifecycle
    <2> QED BY <1>2, <2>2, <2>3, TruthReceive
<1>3. CASE ReceiveFails \/ SendAck
    <2>1. UNCHANGED controlVars /\ UNCHANGED agentVars
        BY <1>3 DEF ReceiveFails, ReceiveFailsAnd, SendAck
    <2>2. AgentTypeOK' /\ Told' \subseteq Told
        <3>1. CASE ReceiveFails
            BY <2>1, <3>1, HeadSent DEF ReceiveFails, ReceiveFailsAnd
        <3>2. CASE SendAck
            BY <2>1, <3>2 DEF SendAck, agentVars, AgentTypeOK, Told, Sent, AG!RowResult,
                              AG!WireStatus
        <3> QED BY <1>3, <3>1, <3>2
    <2>3. ExecInv' /\ Over' = Over /\ Closed' = Closed
        BY <2>1, ControlKept DEF agentVars, ExecInv, Over, Closed
    <2>4. /\ SaysSuccess' => SaysSuccess
          /\ SaysDetached' => SaysDetached
          /\ SaysStopped' => SaysStopped
        BY <2>1, <2>2, ControlKept DEF SaysSuccess, SaysDetached, SaysStopped
    <2> QED BY <2>1, <2>2, <2>3, <2>4, ControlKept DEF TruthInv
<1>4. CASE AgentStep \/ Fault
    <2>1. AgentMove /\ UNCHANGED controlVars /\ kind' = kind
        BY <1>4, AgentAlone, ControlKept
    <2> QED BY <2>1, AgentTypeStep, ExecInvStep, TruthQuiet, TruthSpoken
<1> QED BY <1>1, <1>2, <1>3, <1>4 DEF ProtocolNext

(* The invariant of the protocol, without the lock of a managed row.       *)
ProtocolInv == TypeOK /\ AgentTypeOK /\ ExecInv /\ TruthInv /\ Steady /\ AckInv

LEMMA ProtocolInvInit == ProtocolInit => ProtocolInv
<1> SUFFICES ASSUME ProtocolInit PROVE ProtocolInv
    OBVIOUS
<1>1. Init /\ AG!Init /\ ackDue = FALSE
    BY DEF ProtocolInit
<1>2. TypeOK
    BY <1>1, TypeOKInit
<1>3. Steady
    BY <1>1 DEF Init, Steady, NoReattach, Idle
<1>4. out \in AG!Frames /\ out.type = "result" /\ out.wire = "failed"
      /\ flush.pc = "idle" /\ flush.frame \in AG!Frames /\ flush.frame.type = "result"
    BY <1>1 DEF AG!Init, AG!NoOut, AG!FlushIdle, AG!Frame, AG!Frames, AG!Wires
<1>5. repair \in [pc : {"idle", "scan", "write"}, active : BOOLEAN, forHook : BOOLEAN]
      /\ repair.pc = "idle"
    BY <1>1 DEF AG!Init, AG!RepairIdle
<1>6. /\ maintenance = FALSE /\ helper = "none" /\ localStatus = "none" /\ evidence = FALSE
      /\ reported = FALSE /\ exec = "none" /\ runs = 0 /\ tracked = FALSE
      /\ downlink = <<>> /\ uplink = <<>>
    BY <1>1 DEF AG!Init
<1>7. uplink \in Seq(AG!Frames) /\ Sent = {} /\ Queued = {}
    BY <1>6 DEF Sent, Queued
<1>8. AgentTypeOK
    BY <1>4, <1>5, <1>6, <1>7 DEF AgentTypeOK, AG!Statuses, AG!Execs
<1>9. ExecInv
    BY <1>4, <1>5, <1>6 DEF ExecInv, Begun
<1>10. TruthInv
    <2>1. Told = {}
        BY <1>4, <1>6, <1>7 DEF Told, AG!Finished
    <2>2. status = "pending" /\ result = {}
        BY <1>1 DEF Init
    <2> QED BY <2>1, <2>2 DEF TruthInv, SaysSuccess, SaysDetached, SaysStopped
<1>11. AckInv
    BY <1>1, <1>7 DEF AckInv
<1> QED BY <1>2, <1>3, <1>8, <1>9, <1>10, <1>11 DEF ProtocolInv

LEMMA ProtocolInvStep ==
    ASSUME ProtocolInv, [ProtocolNext]_protocolVars
    PROVE  ProtocolInv'
<1>1. CASE ProtocolNext
    BY <1>1, TypeOKProtocol, TruthStep, SteadyStep, AckInvStep DEF ProtocolInv
<1>2. CASE UNCHANGED protocolVars
    <2>1. UNCHANGED controlVars /\ UNCHANGED agentVars /\ UNCHANGED <<downlink, uplink, ackDue>>
        BY <1>2 DEF protocolVars
    <2>2. TypeOK' /\ Steady' /\ AckInv'
        BY <2>1, ControlKept DEF ProtocolInv, TypeOK, Steady, NoReattach, AckInv, Queued
    <2>3. AgentTypeOK' /\ ExecInv'
        BY <2>1, ControlKept DEF ProtocolInv, agentVars, AgentTypeOK, ExecInv, Over
    <2>4. Told' = Told /\ Over' = Over /\ Closed' = Closed
        BY <2>1 DEF agentVars, Told, Sent, Over, Closed, AG!RowResult, AG!WireStatus
    <2>5. TruthInv'
        BY <2>1, <2>4, ControlKept DEF ProtocolInv, TruthInv, SaysSuccess, SaysDetached, SaysStopped
    <2> QED BY <2>2, <2>3, <2>5 DEF ProtocolInv
<1> QED BY <1>1, <1>2

(* The class of a command stays what it is.                                *)
LEMMA KindStays ==
    ASSUME ProtocolInv, [ProtocolNext]_protocolVars
    PROVE  kind' = kind
<1>1. CASE ControlStep \/ Receive
    BY <1>1, RowSteps, KindKept DEF ProtocolInv
<1>2. CASE AgentStep \/ Fault
    BY <1>2, AgentAlone, ControlKept
<1>3. CASE ReceiveFails \/ SendAck \/ UNCHANGED protocolVars
    BY <1>3, ControlKept DEF ReceiveFails, ReceiveFailsAnd, SendAck, protocolVars
<1> QED BY <1>1, <1>2, <1>3 DEF ProtocolNext

(* Unless it is a backup that may be reattached, an ACK takes the stored   *)
(* outcome of a command out of the Agent's outbox only when its row is     *)
(* decided, for every capacity of the channels and any number of lost      *)
(* sessions, crashes of the Agent, crashed workers and failed transactions *)
(* (the ACK that the consumer sends after the commit of                    *)
(* _handle_task_result; MarkReported).                                     *)
THEOREM AcksFollowDecisions == ProtocolSpec /\ ~Reattaches => AckedMeansDecided
<1>1. ProtocolInv /\ ~Reattaches /\ [ProtocolNext]_protocolVars
        => [(/\ localStatus \in AG!Finished /\ ~reported /\ reported' /\ ackMode /\ ~Lifecycle)
              => status \in Terminal]_protocolVars
    <2> SUFFICES ASSUME ProtocolInv, ~Reattaches, ProtocolNext, localStatus \in AG!Finished,
                        ~reported, reported', ackMode, ~Lifecycle
                 PROVE  status \in Terminal
        OBVIOUS
    <2>1. AgentStep \/ Fault
        BY DEF ProtocolNext, ControlStep, Receive, ReceiveFails, ReceiveFailsAnd, SendAck, agentVars
    <2>2. AG!HandleResultAck
        BY <2>1, AgentAlone, ReportedByAck DEF ProtocolInv
    <2>3. downlink # <<>> /\ Head(downlink) = "ack" /\ downlink \in Seq(Frames)
        BY <2>2 DEF AG!HandleResultAck, AG!Read, ProtocolInv, TypeOK
    <2>4. 1 \in DOMAIN downlink /\ downlink[1] = "ack"
        BY <2>3
    <2> QED BY <2>4 DEF ProtocolInv, AckInv, Queued
<1>2. ProtocolInv /\ ~Reattaches /\ [ProtocolNext]_protocolVars => (ProtocolInv /\ ~Reattaches)'
    BY ProtocolInvStep, KindStays DEF Reattaches
<1> QED BY <1>1, <1>2, ProtocolInvInit, PTL DEF ProtocolSpec, AckedMeansDecided

-----------------------------------------------------------------------------
(* A managed restore that was never dispatched                             *)

(* A running restore was recorded as dispatched, or the Agent accepted it. *)
DispatchInv == Managed /\ status = "running" => dispatched \/ accepted

(* The row says that nothing was sent, and no worker is between the        *)
(* publication of the command and its record.                              *)
Unseen ==
    /\ Managed /\ ~dispatched /\ ~accepted
    /\ status \in {"pending", "canceled"}
    /\ \A w \in Worker : worker[w].pc # "sent"

(* Then the Agent does not know the command and never will.                *)
NeverInv == Unseen => "command" \notin Queued /\ localStatus = "none"

LEMMA CompleteTaskAccepts ==
    ASSUME NEW wire, NEW keys, NEW sameError, CompleteTask(wire, keys, sameError)
    PROVE  (status' = status /\ UNCHANGED <<accepted, dispatched>>)
           \/ (accepted' /\ UNCHANGED dispatched)
BY DEF CompleteTask

(* What is not a worker's step: nothing forgets a dispatch or an           *)
(* acceptance, a running row has one, and only a row that was waiting or   *)
(* running is canceled.                                                    *)
LEMMA OthersAccept ==
    ASSUME FrameStep \/ SweepStep \/ TimeStep
    PROVE  /\ dispatched => dispatched'
           /\ accepted => accepted'
           /\ status' = "running" => status = "running" \/ accepted'
           /\ status' = "canceled" /\ ~accepted' => status \in Active \cup {"canceled"}
<1> DEFINE Goal == /\ dispatched => dispatched'
                   /\ accepted => accepted'
                   /\ status' = "running" => status = "running" \/ accepted'
                   /\ status' = "canceled" /\ ~accepted' => status \in Active \cup {"canceled"}
<1>1. ASSUME NEW wire, NEW keys, NEW sameError, CompleteTask(wire, keys, sameError) PROVE Goal
    BY <1>1, CompleteTaskAccepts
<1>2. CASE FrameStep
    <2>1. ASSUME NEW wire, NEW keys, NEW sameError, HandleResult(wire, keys, sameError) PROVE Goal
        BY <1>1, <2>1 DEF HandleResult
    <2> QED BY <1>2, <2>1 DEF FrameStep, AcceptTask, RecordProgress, Active
<1>3. CASE SweepStep
    <2>1. ASSUME NEW verdict, CoordinatorDecides(verdict) PROVE Goal
        BY <1>1, <2>1 DEF CoordinatorDecides
    <2>2. CASE CancelTask \/ SealCancel
        BY <2>2 DEF CancelTask, SealCancel, Active
    <2>3. CASE CancelRolledBack \/ FailRow
        BY <2>3 DEF CancelRolledBack, FailRow, rowVars
    <2>4. ASSUME NEW capable, WatchdogTimeout(capable) PROVE Goal
        BY <2>4 DEF WatchdogTimeout
    <2>5. ASSUME NEW capable, NEW queued, WatchdogDefer(capable, queued) PROVE Goal
        BY <2>5 DEF WatchdogDefer
    <2> QED BY <1>3, <2>1, <2>2, <2>3, <2>4, <2>5 DEF SweepStep, FailOffline, FailActiveForNode
<1>4. CASE TimeStep
    BY <1>4 DEF TimeStep, DeadlinePasses, AckWaitPasses
<1> QED BY <1>2, <1>3, <1>4

(* A worker that delivers a managed restore: it holds the lock of a        *)
(* pending row, and it records what it published.                          *)
LEMMA ManagedWorker ==
    ASSUME TypeOK, LockInv, Managed, ~WorkersCrash, NEW w \in Worker, WorkerStep(w)
    PROVE  /\ UNCHANGED accepted
           /\ dispatched => dispatched'
           /\ status' = "running" => status = "running" \/ dispatched'
           /\ status' # "pending" /\ status = "pending" => status' \in {"running", "failed"}
           /\ Unseen' => Unseen /\ UNCHANGED downlink
<1> DEFINE Goal == /\ UNCHANGED accepted
                   /\ dispatched => dispatched'
                   /\ status' = "running" => status = "running" \/ dispatched'
                   /\ status' # "pending" /\ status = "pending" => status' \in {"running", "failed"}
                   /\ Unseen' => Unseen /\ UNCHANGED downlink
<1>1. /\ worker[w].pc \in {"idle", "route", "sent"} /\ ~worker[w].ack
      /\ worker[w].pc # "idle" => status = "pending"
      /\ ~AckDurable /\ kind # "backup" /\ kind' = kind
    <2>1. kind' = kind
        BY KindKept DEF Next
    <2> QED BY <2>1 DEF LockInv, Managed, AckDurable
<1>2. ASSUME Leave(w), UNCHANGED <<rowVars, downlink>>, worker[w].pc # "sent" PROVE Goal
    BY <1>2, LeaveWorker DEF Unseen, rowVars, Managed
<1>3. ASSUME NEW capable, Deliver(w, capable) PROVE Goal
    <2>1. EnterDeliveryAs(w, capable, FALSE, TRUE) /\ worker[w].pc = "idle"
        BY <1>3 DEF Deliver, EnterDelivery
    <2>2. UNCHANGED <<kind, status, accepted, dispatched, downlink>>
        BY <2>1 DEF EnterDeliveryAs
    <2>3. \A v \in Worker \ {w} : worker'[v] = worker[v]
        <3>1. CASE Leave(w)
            BY <3>1, LeaveWorker
        <3>2. CASE ~Leave(w)
            BY <2>1, <3>2 DEF EnterDeliveryAs, TypeOK
        <3> QED BY <3>1, <3>2
    <2> QED BY <2>1, <2>2, <2>3 DEF Unseen, Managed
<1>4. ASSUME NEW capable PROVE ~SweepRetry(w, capable)
    BY <1>1 DEF SweepRetry
<1>5. ASSUME NEW capable, NEW online PROVE ~SweepDecide(w, capable, online)
    BY <1>1 DEF SweepDecide
<1>6. CASE DeferDelivery(w)
    BY <1>2, <1>6 DEF DeferDelivery
<1>7. CASE FailDelivery(w)
    <2>1. status = "pending" /\ UNCHANGED <<accepted, dispatched>>
        BY <1>1, <1>7 DEF FailDelivery
    <2>2. IF Undelivered THEN status' = "failed" ELSE UNCHANGED status
        BY <1>7 DEF FailDelivery
    <2> QED BY <2>1, <2>2 DEF Unseen, Undelivered
<1>8. ~Claim(w)
    BY <1>1 DEF Claim, ClaimIf
<1>9. CASE PublishCommand(w)
    <2>1. worker'[w].pc = "sent" /\ UNCHANGED <<status, accepted, dispatched>>
        BY <1>1, <1>9, GotoWorker DEF PublishCommand, PCs, rowVars
    <2> QED BY <2>1 DEF Unseen
<1>10. CASE RecordLegacy(w)
    <2>1. status = "pending" /\ UNCHANGED accepted
        BY <1>1, <1>10 DEF RecordLegacy, RecordLegacyIf
    <2>2. IF Undelivered THEN status' = "running" /\ dispatched' = TRUE
          ELSE UNCHANGED <<status, dispatched>>
        BY <1>10 DEF RecordLegacy, RecordLegacyIf
    <2> QED BY <2>1, <2>2 DEF Unseen, Undelivered
<1>11. ~SweepSelect(w) /\ ~TimeoutUnaccepted(w) /\ ~SeeTimedOutBackup(w) /\ ~ReattachBackup(w)
       /\ ~WorkerCrash(w)
    BY <1>1 DEF SweepSelect, TimeoutUnaccepted, SeeTimedOutBackup, ReattachBackup, WorkerCrash
<1> QED BY <1>3, <1>4, <1>5, <1>6, <1>7, <1>8, <1>9, <1>10, <1>11 DEF WorkerStep

(* The Agent and the session respect the order of the channel: no ACK is   *)
(* due to a pending restore.                                               *)
LEMMA LockProtocol ==
    ASSUME ProtocolInv, LockInv, ~WorkersCrash, ProtocolNext
    PROVE  LockInv'
<1> USE DEF ProtocolInv
<1>1. CASE ControlStep \/ Receive
    BY <1>1, RowSteps, LockInvStep
<1>2. CASE ~(ControlStep \/ Receive)
    <2>1. UNCHANGED controlVars
        BY <1>2, AgentAlone DEF ProtocolNext, ReceiveFails, ReceiveFailsAnd, SendAck
    <2>2. UNCHANGED <<kind, status, worker, holder>> /\ (Managed' = Managed)
        BY <2>1, ControlKept
    <2> SUFFICES ASSUME Managed PROVE LockInv'
        BY <2>2 DEF LockInv
    <2>3. CancelNotOvertaken /\ (status = "pending" => Queued \subseteq {"command"})
        BY DEF LockInv, Queued
    <2>4. CancelNotOvertaken' /\ (status = "pending" => Queued' \subseteq {"command"})
        <3>1. CASE AgentStep \/ Fault
            <4>1. Drains
                BY <3>1, AgentAlone, AgentDrains
            <4> QED BY <2>2, <2>3, <4>1, DrainKept DEF TypeOK
        <3>2. CASE ReceiveFails
            BY <2>2, <2>3, <3>2 DEF ReceiveFails, ReceiveFailsAnd, CancelNotOvertaken, Queued
        <3>3. CASE SendAck
            <4>1. status # "pending"
                BY <3>3 DEF SendAck, AckInv, Managed, Lifecycle, Reattaches, Terminal
            <4>2. Publish("ack")
                BY <3>3 DEF SendAck, Publish
            <4> QED BY <2>2, <2>3, <4>1, <4>2, PublishOrder DEF TypeOK, Frames
        <3> QED BY <1>2, <3>1, <3>2, <3>3 DEF ProtocolNext
    <2>5. status' = "pending" => \A i \in DOMAIN downlink' : downlink'[i] = "command"
        BY <2>2, <2>4 DEF Queued
    <2>6. \A w \in Worker :
              /\ worker'[w].pc \in {"idle", "route", "sent"} /\ ~worker'[w].ack
              /\ worker'[w].pc # "idle" => holder' = w /\ status' = "pending"
        BY <2>2 DEF LockInv
    <2> QED BY <2>4, <2>5, <2>6 DEF LockInv
<1> QED BY <1>1, <1>2

(* The row's own steps.                                                    *)
LEMMA ManagedRow ==
    ASSUME ProtocolInv, LockInv, DispatchInv, Managed, ~WorkersCrash, ControlStep \/ Receive
    PROVE  /\ DispatchInv'
           /\ dispatched => dispatched'
           /\ accepted => accepted'
           /\ Unseen' => Unseen /\ Queued' \subseteq Queued \cup {"cancel"}
<1> USE DEF ProtocolInv
<1>1. ASSUME NEW w \in Worker, WorkerStep(w)
      PROVE  /\ DispatchInv'
             /\ dispatched => dispatched'
             /\ accepted => accepted'
             /\ Unseen' => Unseen /\ Queued' \subseteq Queued \cup {"cancel"}
    <2>1. /\ UNCHANGED accepted
          /\ dispatched => dispatched'
          /\ status' = "running" => status = "running" \/ dispatched'
          /\ Unseen' => Unseen /\ UNCHANGED downlink
        BY <1>1, ManagedWorker
    <2> QED BY <2>1 DEF DispatchInv, Queued
<1>2. CASE FrameStep \/ SweepStep \/ TimeStep
    <2>1. /\ dispatched => dispatched'
          /\ accepted => accepted'
          /\ status' = "running" => status = "running" \/ accepted'
          /\ status' = "canceled" /\ ~accepted' => status \in Active \cup {"canceled"}
        BY <1>2, OthersAccept
    <2>2. OthersObeyLock /\ UNCHANGED <<kind, worker, holder>>
        BY <1>2, OthersLock, OtherSteps
    <2>3. Queued' \subseteq Queued \cup {"cancel"}
        <3>1. CASE UNCHANGED downlink
            BY <3>1 DEF Queued
        <3> QED BY <2>2, <3>1, QueuedAppend DEF OthersObeyLock, TypeOK, Frames
    <2>4. Unseen' => Unseen
        BY <2>1, <2>2 DEF Unseen, DispatchInv, Managed, Active, OthersObeyLock
    <2> QED BY <2>1, <2>3, <2>4 DEF DispatchInv
<1>3. CASE UNCHANGED vars
    BY <1>3 DEF vars, rowVars, DispatchInv, Unseen, Queued, Managed
<1>4. (\E w \in Worker : WorkerStep(w)) \/ FrameStep \/ SweepStep \/ TimeStep \/ UNCHANGED vars
    BY ReceiveIsFrameStep DEF ControlStep
<1> QED BY <1>1, <1>2, <1>3, <1>4

ManagedInv == LockInv /\ DispatchInv /\ NeverInv

LEMMA ManagedInvStep ==
    ASSUME ProtocolInv, ManagedInv, ~WorkersCrash, [ProtocolNext]_protocolVars
    PROVE  ManagedInv'
<1> USE DEF ManagedInv
<1>1. CASE ControlStep \/ Receive
    <2>1. LockInv'
        BY <1>1, LockProtocol DEF ProtocolNext
    <2>2. kind' = kind
        BY <1>1, RowSteps, KindKept DEF ProtocolInv
    <2>3. UNCHANGED localStatus
        BY <1>1 DEF ControlStep, Receive, agentVars
    <2>4. CASE Managed
        BY <1>1, <2>1, <2>3, <2>4, ManagedRow DEF NeverInv
    <2>5. CASE ~Managed
        BY <2>1, <2>2, <2>5 DEF DispatchInv, NeverInv, Unseen, Managed
    <2> QED BY <2>4, <2>5
<1>2. CASE AgentStep \/ Fault
    <2>1. AgentMove /\ UNCHANGED controlVars /\ Drains
        BY <1>2, AgentAlone, AgentDrains
    <2>2. LockInv'
        BY <1>2, LockProtocol DEF ProtocolNext
    <2>3. (DispatchInv' = DispatchInv) /\ (Unseen' = Unseen)
        BY <2>1, ControlKept DEF DispatchInv, Unseen
    <2>4. Queued' \subseteq Queued
        BY <2>1, ControlKept, DrainKept DEF ProtocolInv, TypeOK
    <2>5. localStatus = "none" /\ "command" \notin Queued => localStatus' = "none"
        BY <2>1, StaysUnknown DEF ProtocolInv, TypeOK
    <2> QED BY <2>2, <2>3, <2>4, <2>5 DEF NeverInv
<1>3. CASE ReceiveFails \/ SendAck
    <2>1. UNCHANGED controlVars /\ UNCHANGED agentVars
        BY <1>3 DEF ReceiveFails, ReceiveFailsAnd, SendAck
    <2>2. LockInv'
        BY <1>3, LockProtocol DEF ProtocolNext
    <2>3. (DispatchInv' = DispatchInv) /\ (Unseen' = Unseen) /\ UNCHANGED localStatus
        BY <2>1, ControlKept DEF DispatchInv, Unseen, agentVars
    <2>4. Publish("ack")
        BY <1>3 DEF ReceiveFails, ReceiveFailsAnd, SendAck, Publish
    <2>5. Queued' \subseteq Queued \cup {"ack"}
        BY <2>4, QueuedAppend DEF ProtocolInv, TypeOK, Frames
    <2> QED BY <2>2, <2>3, <2>5 DEF NeverInv
<1>4. CASE UNCHANGED protocolVars
    <2>1. UNCHANGED controlVars /\ UNCHANGED <<downlink, localStatus>>
        BY <1>4 DEF protocolVars, agentVars
    <2>2. (DispatchInv' = DispatchInv) /\ (Unseen' = Unseen)
        BY <2>1, ControlKept DEF DispatchInv, Unseen
    <2>3. LockInv'
        BY <2>1, ControlKept DEF LockInv, CancelNotOvertaken
    <2> QED BY <2>1, <2>2, <2>3 DEF NeverInv, Queued
<1> QED BY <1>1, <1>2, <1>3, <1>4 DEF ProtocolNext

LEMMA ManagedInvInit == ProtocolInit => ManagedInv
<1> SUFFICES ASSUME ProtocolInit PROVE ManagedInv
    OBVIOUS
<1>1. Init /\ downlink = <<>> /\ localStatus = "none"
    BY DEF ProtocolInit, Init, AG!Init
<1>2. LockInv /\ DispatchInv
    BY <1>1 DEF Init, LockInv, Idle, CancelNotOvertaken, DispatchInv
<1>3. NeverInv
    BY <1>1 DEF NeverInv, Queued
<1> QED BY <1>2, <1>3 DEF ManagedInv

LEMMA StopSound == ProtocolInv /\ ManagedInv => StopEvidenceSound
<1> SUFFICES ASSUME ProtocolInv, ManagedInv, StopProven PROVE
        /\ exec \notin AG!Executing
        /\ localStatus = "none" => \A i \in DOMAIN downlink : downlink[i] # "command"
    BY DEF StopEvidenceSound
<1> USE DEF ProtocolInv, ManagedInv
<1>1. CASE NeverDispatched
    <2>1. Unseen
        BY <1>1 DEF NeverDispatched, Unseen, LockInv
    <2>2. "command" \notin Queued /\ localStatus = "none" /\ exec = "none"
        BY <2>1 DEF NeverInv, ExecInv
    <2> QED BY <2>2 DEF Queued, AG!Executing
<1>2. CASE ExecutorStopped \/ (Managed /\ status = "success")
    <2>1. Managed /\ (SaysSuccess \/ SaysStopped)
        BY <1>2 DEF ExecutorStopped, SaysSuccess, SaysStopped
    <2>2. Closed
        BY <2>1 DEF TruthInv
    <2> QED BY <2>2 DEF Closed, Over, Begun, AG!Executing
<1> QED BY <1>1, <1>2 DEF StopProven

(* While no worker dies inside its transaction, a row that proves that the *)
(* executor of a managed restore stopped, or never existed, is right: the  *)
(* Agent does not execute it and cannot start it any more, whatever frames *)
(* and sessions are lost and however often the Agent crashes               *)
(* (_node_task_has_executor_stop_evidence, the row lock of                 *)
(* deliver_agent_task, SealCancelledExecutorResult).                       *)
THEOREM StopEvidenceIsTrue ==
    ASSUME ~WorkersCrash
    PROVE  ProtocolSpec => []StopEvidenceSound
<1>1. ProtocolInv /\ ManagedInv /\ [ProtocolNext]_protocolVars => (ProtocolInv /\ ManagedInv)'
    BY ProtocolInvStep, ManagedInvStep
<1> QED BY <1>1, ProtocolInvInit, ManagedInvInit, StopSound, PTL DEF ProtocolSpec

-----------------------------------------------------------------------------
(* The protocol implements TaskOutcome                                     *)

LEMMA NeverIsUnseen ==
    ASSUME LockInv, NeverDispatched
    PROVE  Unseen
BY DEF LockInv, NeverDispatched, Unseen

(* What the decisions are, and that no row fits two of them.               *)
DecisionFits ==
    /\ status \in Active => Decision = "open"
    /\ NeverDispatched => Decision = "never"
    /\ ExecutorStopped => Decision = "stopped"
    /\ status \notin Active /\ ~NeverDispatched /\ ~ExecutorStopped => Decision = status
    /\ Decision \in Outcome!Decisions

LEMMA DecisionValue == ProtocolInv /\ ManagedInv => DecisionFits
<1> SUFFICES ASSUME TypeOK, ExecInv, TruthInv, LockInv, NeverInv PROVE DecisionFits
    BY DEF ProtocolInv, ManagedInv
<1> USE DEF DecisionFits
<1>1. ~(NeverDispatched /\ ExecutorStopped)
    <2> SUFFICES ASSUME NeverDispatched, ExecutorStopped PROVE FALSE
        OBVIOUS
    <2>1. localStatus = "none"
        BY NeverIsUnseen DEF NeverInv
    <2>2. Closed
        BY DEF TruthInv, ExecutorStopped, SaysStopped
    <2> QED BY <2>1, <2>2 DEF Closed, Over
<1>2. NeverDispatched \/ ExecutorStopped => status \notin Active
    BY DEF NeverDispatched, ExecutorStopped, Active
<1>3. CASE status \in Active
    BY <1>2, <1>3 DEF Decision, Outcome!Decisions, Active
<1>4. CASE NeverDispatched
    BY <1>1, <1>2, <1>4 DEF Decision, Outcome!Decisions, Outcome!Final
<1>5. CASE ExecutorStopped
    BY <1>1, <1>2, <1>5 DEF Decision, Outcome!Decisions, Outcome!Final
<1>6. CASE status \notin Active /\ ~NeverDispatched /\ ~ExecutorStopped
    BY <1>6 DEF Decision, Outcome!Decisions, Outcome!Final, TypeOK, Terminal
<1> QED BY <1>1, <1>2, <1>3, <1>4, <1>5, <1>6

LEMMA ExecutionValue ==
    ASSUME ExecInv
    PROVE  /\ localStatus = "none" => Execution = "none"
           /\ Over => Execution = "ended"
BY DEF ExecInv, Over, Execution

(* An engine starts, ends, or its execution goes on.                       *)
LEMMA AgentRuns ==
    ASSUME ExecInv, AgentMove
    PROVE  \/ AG!StartEngine
           \/ exec = "engine" /\ exec' # "engine" /\ UNCHANGED runs
           \/ (exec' = "engine" <=> exec = "engine") /\ UNCHANGED runs
<1> DEFINE Goal == \/ AG!StartEngine
                   \/ exec = "engine" /\ exec' # "engine" /\ UNCHANGED runs
                   \/ (exec' = "engine" <=> exec = "engine") /\ UNCHANGED runs
<1>1. ASSUME AG!ReaderStep PROVE Goal
    BY <1>1 DEF AG!ReaderStep, AG!RefuseCommand, AG!HandleCommand, AG!HandleCommandIf,
                AG!HandleCancel, AG!HandleCancelWith, AG!TrackerCancel, AG!HandleResultAck,
                AG!execVars, ExecInv
<1>2. ASSUME AG!ExecStep PROVE Goal
    <2>1. ASSUME NEW wire, AG!EngineReturns(wire) PROVE Goal
        BY <2>1 DEF AG!EngineReturns, AG!Goroutine
    <2> QED BY <1>2, <2>1
            DEF AG!ExecStep, AG!Register, AG!CheckCancelled, AG!CheckCancelledIf, AG!WaitForSlot,
                AG!GiveUpSlot, AG!PathSizeBusy, AG!Detach, AG!Finish, AG!SealCancelledExecutor,
                AG!Load, AG!LoadAs, AG!Report, AG!Goroutine
<1>3. ASSUME AG!HookStep \/ AG!RepairStep \/ AG!FlushStep \/ AG!DeliveryDeadline PROVE Goal
    BY <1>3 DEF AG!HookStep, AG!RepairStep, AG!FlushStep, AG!DeliveryDeadline, AG!SetAckMode,
                AG!ReattachRunning, AG!RepairSnapshot, AG!RepairScan, AG!RepairWrite, AG!FlushList,
                AG!FlushListIf, AG!FlushSend, AG!execVars
<1>4. CASE AG!Connect \/ AG!Restart \/ AG!HelperFinishes \/ AG!Disconnect \/ AG!Crash
    BY <1>4 DEF AG!Connect, AG!Restart, AG!HelperFinishes, AG!Disconnect, AG!Crash, AG!execVars
<1> QED BY <1>1, <1>2, <1>3, <1>4 DEF AgentMove, AG!AgentStep

(* A step of the Agent executes, ends the execution, or changes nothing.   *)
LEMMA OutcomeAgent ==
    ASSUME ProtocolInv, ManagedInv, AgentMove, UNCHANGED controlVars
    PROVE  Outcome!Next \/ UNCHANGED <<Decision, Execution>>
<1> USE DEF ProtocolInv, ManagedInv
<1>1. Decision' = Decision
    BY ControlKept DEF Decision, NeverDispatched, ExecutorStopped
<1>2. CASE AG!StartEngine
    <2>1. exec \in {"checked", "waiting"} /\ exec' = "engine" /\ runs = 0 /\ runs' = 1
        BY <1>2 DEF AG!StartEngine, AG!Goroutine, ExecInv, Begun
    <2>2. ~NeverDispatched
        BY <2>1, NeverIsUnseen DEF NeverInv, ExecInv
    <2>3. Decision # "never"
        BY <2>2, DecisionValue DEF DecisionFits, TypeOK, Active, Terminal
    <2>4. Execution = "none" /\ Execution' = "executing"
        BY <2>1 DEF Execution
    <2> QED BY <1>1, <2>3, <2>4 DEF Outcome!Next, Outcome!Execute
<1>3. CASE exec = "engine" /\ exec' # "engine" /\ UNCHANGED runs
    <2>1. Execution = "executing" /\ Execution' = "ended"
        BY <1>3 DEF Execution, ExecInv
    <2> QED BY <1>1, <2>1 DEF Outcome!Next, Outcome!End
<1>4. CASE (exec' = "engine" <=> exec = "engine") /\ UNCHANGED runs
    BY <1>1, <1>4 DEF Execution
<1> QED BY <1>2, <1>3, <1>4, AgentRuns

(* A decided row of a managed restore changes only by a result of the      *)
(* Agent.                                                                  *)
LEMMA DecidedManaged ==
    ASSUME ProtocolInv, LockInv, Managed, ~WorkersCrash, status \in Terminal,
           ControlStep \/ Receive
    PROVE  \/ UNCHANGED <<status, result, accepted, dispatched>>
           \/ \E frame \in Told, sameError \in BOOLEAN :
                  /\ frame.wire \in {"success", "failed", "abort"}
                  /\ CompleteTask(frame.wire, ReportedKeys(frame), sameError)
<1> USE DEF ProtocolInv
<1>1. status \notin Active /\ ~Undelivered /\ ~Lifecycle /\ ~AckDurable /\ kind # "backup"
    BY DEF Terminal, Active, Undelivered, Managed, Lifecycle, AckDurable
<1>2. ASSUME NEW w \in Worker PROVE ~WorkerStep(w)
    <2>1. worker[w].pc = "idle"
        BY <1>1 DEF LockInv, Active
    <2> QED BY <1>1, <2>1
            DEF WorkerStep, Deliver, EnterDelivery, EnterDeliveryAs, SweepRetry, SweepDecide,
                DeferDelivery, FailDelivery, Claim, ClaimIf, PublishCommand, RecordLegacy,
                RecordLegacyIf, SweepSelect, TimeoutUnaccepted, SeeTimedOutBackup, ReattachBackup,
                WorkerCrash
<1>3. ~SweepStep
    BY <1>1 DEF SweepStep, CancelTask, CancelRolledBack, SealCancel, WatchdogTimeout, WatchdogDefer,
                WatchdogApplies, WatchdogAppliesUnless, FailOffline, FailActiveForNode, FailRow,
                CoordinatorDecides
<1>4. CASE TimeStep
    BY <1>4 DEF TimeStep, DeadlinePasses, AckWaitPasses
<1>5. CASE Receive
    <2> DEFINE frame == Head(uplink)
    <2>1. CASE frame.type # "result"
        BY <1>1, <1>5, <2>1 DEF Receive, AcceptTask, RecordProgress, vars, rowVars
    <2>2. CASE frame.type = "result"
        <3>1. PICK sameError \in BOOLEAN :
                  HandleResult(frame.wire, ReportedKeys(frame), sameError)
            BY <1>5, <2>2 DEF Receive
        <3>2. CompleteTask(frame.wire, ReportedKeys(frame), sameError)
            BY <1>1, <3>1 DEF HandleResult
        <3>3. frame \in AG!Frames /\ frame \in Told
            BY <1>5, <2>2, HeadSent, HeadTold DEF Receive
        <3>4. frame.wire \in {"success", "failed", "abort"}
            BY <1>1, <3>3 DEF AG!Frames, AG!Wires, TruthInv, SaysDetached
        <3> QED BY <3>2, <3>3, <3>4
    <2> QED BY <2>1, <2>2
<1> QED BY <1>2, <1>3, <1>4, <1>5 DEF ControlStep

(* A restore that was cancelled before it was dispatched stays so.         *)
LEMMA NeverKept ==
    ASSUME ProtocolInv, ManagedInv, ~WorkersCrash, NeverDispatched, ControlStep \/ Receive
    PROVE  NeverDispatched'
<1> USE DEF ProtocolInv, ManagedInv
<1>1. Managed /\ status = "canceled" /\ ~accepted /\ ~dispatched /\ localStatus = "none"
    BY NeverIsUnseen DEF NeverDispatched, NeverInv
<1>2. (Managed' = Managed) /\ ~Lifecycle
    BY <1>1, RowSteps, KindKept DEF Managed, Lifecycle
<1>3. ~SaysSuccess /\ ~SaysStopped
    BY <1>1 DEF TruthInv, Closed, Over
<1>4. ASSUME NEW frame \in Told, NEW sameError,
             CompleteTask(frame.wire, ReportedKeys(frame), sameError),
             frame.wire \in {"success", "failed", "abort"}
      PROVE  UNCHANGED <<status, accepted, dispatched>>
    <2>1. "executor_finished" \notin ReportedKeys(frame)
        BY <1>3, <1>4, ReportedKeysType DEF SaysStopped, SaysSuccess
    <2>2. ~StopEvidence(frame.wire, ReportedKeys(frame))
        BY <2>1 DEF StopEvidence
    <2>3. \A keys : IgnoresResult(frame.wire, keys, sameError)
        BY <1>1, <1>4 DEF IgnoresResult, AbsorbingReturn
    <2> QED BY <1>4, <2>2, <2>3 DEF CompleteTask
<1>5. UNCHANGED <<status, accepted, dispatched>>
    BY <1>1, <1>4, DecidedManaged DEF Terminal
<1> QED BY <1>1, <1>2, <1>5 DEF NeverDispatched

(* A restore whose executor is known to have stopped stays so.             *)
LEMMA StoppedKept ==
    ASSUME ProtocolInv, ManagedInv, ~WorkersCrash, ExecutorStopped, ControlStep \/ Receive
    PROVE  ExecutorStopped'
<1> USE DEF ProtocolInv, ManagedInv
<1>1. Managed /\ status \in {"canceled", "failed"} /\ "executor_finished" \in result
    BY DEF ExecutorStopped
<1>2. (Managed' = Managed) /\ ~Lifecycle /\ ~Detached
    BY <1>1, RowSteps, KindKept DEF Managed, Lifecycle, Detached
<1>3. SaysStopped /\ ~SaysSuccess
    BY <1>1 DEF TruthInv, SaysStopped
<1>4. ASSUME NEW frame \in Told, NEW sameError,
             CompleteTask(frame.wire, ReportedKeys(frame), sameError),
             frame.wire \in {"success", "failed", "abort"}
      PROVE  status' \in {"canceled", "failed"} /\ "executor_finished" \in result'
    <2> DEFINE reported_keys == ReportedKeys(frame)
               evidenced == StopEvidence(frame.wire, reported_keys)
               incoming == IF evidenced THEN "canceled" ELSE frame.wire
               keys == IF evidenced THEN result \cup reported_keys ELSE reported_keys
    <2>1. incoming \in {"failed", "abort", "canceled"} /\ (evidenced => status = "canceled")
        BY <1>3, <1>4 DEF SaysSuccess, StopEvidence
    <2>2. reported_keys \in {{}, {"executor_finished"}}
        BY <1>1, ReportedKeysType DEF ResultKeys, Managed
    <2>3. keys = {} \/ "executor_finished" \in keys
        BY <1>1, <2>2
    <2>4. "executor_finished" \in WithoutDeliveryState(result)
        BY <1>1 DEF WithoutDeliveryState, Protocols
    <2>5. \/ UNCHANGED <<status, result>>
          \/ /\ status' = TerminalOf(incoming)
             /\ result' = (IF keys = {} THEN WithoutDeliveryState(result) ELSE keys)
                          \cup (IF Lifecycle THEN {"lifecycle_terminal_sealed"} ELSE {})
        <3>1. ~LateDetachedSuccess(incoming)
            BY <1>2 DEF LateDetachedSuccess
        <3>2. incoming # "running"
            BY <2>1
        <3> QED BY <1>4, <3>1, <3>2 DEF CompleteTask
    <2>6. TerminalOf(incoming) \in {"failed", "canceled"}
        BY <2>1 DEF TerminalOf
    <2> HIDE DEF incoming, keys
    <2> QED BY <1>1, <2>3, <2>4, <2>5, <2>6
<1>5. status' \in {"canceled", "failed"} /\ "executor_finished" \in result'
    BY <1>1, <1>4, DecidedManaged DEF Terminal
<1> QED BY <1>1, <1>2, <1>5 DEF ExecutorStopped

(* The two hazards that the row does not survive, each in one class of     *)
(* commands only.                                                          *)
Undisturbed == ~Reattaches /\ (WorkersCrash => ~Managed)

(* The invariant of the restores says nothing of other commands.           *)
LEMMA UndisturbedStep ==
    ASSUME ProtocolInv, ManagedInv, Undisturbed, [ProtocolNext]_protocolVars
    PROVE  (ProtocolInv /\ ManagedInv /\ Undisturbed)'
<1>1. ProtocolInv' /\ kind' = kind
    BY ProtocolInvStep, KindStays
<1>2. /\ Managed' = Managed
      /\ Undisturbed'
    <2>1. Managed' = Managed
        BY <1>1 DEF Managed
    <2> QED BY <1>1, <2>1 DEF Undisturbed, Reattaches
<1>3. CASE Managed
    BY <1>1, <1>2, <1>3, ManagedInvStep DEF Undisturbed
<1>4. CASE ~Managed
    <2>1. ~Managed'
        BY <1>2, <1>4
    <2>2. LockInv' /\ DispatchInv' /\ ~Unseen'
        BY <2>1 DEF LockInv, DispatchInv, Unseen
    <2>3. ManagedInv'
        BY <2>2 DEF ManagedInv, NeverInv
    <2> QED BY <1>1, <1>2, <2>3
<1> QED BY <1>3, <1>4

(* What a step of the row may make of its decision.                        *)
LEMMA DecidedRow ==
    ASSUME ProtocolInv, ManagedInv, (ProtocolInv /\ ManagedInv)', DecisionFits, DecisionFits',
           Undisturbed, ControlStep \/ Receive
    PROVE  /\ Decision \in Outcome!Final => Decision' = Decision
           /\ Decision = "canceled" => Decision' \in {"canceled", "stopped"}
           /\ Decision' \in {"success", "stopped"} => Execution' = "ended"
           /\ Decision' = "never" => Execution' = "none"
           /\ Decision' \in Outcome!Decisions
<1> USE DEF ProtocolInv, ManagedInv
<1>1. NoReattach /\ (Managed => ~WorkersCrash)
    BY DEF Steady, Undisturbed
<1>2. /\ UNCHANGED kind
      /\ status \in {"success", "canceled"} => status' = status
    BY <1>1, FinalKept, RowSteps, KindKept DEF Final
<1>3. \/ status \in Active /\ Decision = "open"
      \/ NeverDispatched /\ Decision = "never"
      \/ ExecutorStopped /\ Decision = "stopped"
      \/ status \notin Active /\ ~NeverDispatched /\ ~ExecutorStopped /\ Decision = status
    BY DEF DecisionFits
<1>4. \/ status' \in Active /\ Decision' = "open"
      \/ NeverDispatched' /\ Decision' = "never"
      \/ ExecutorStopped' /\ Decision' = "stopped"
      \/ /\ status' \in Terminal /\ Decision' = status'
         /\ ~NeverDispatched' /\ ~ExecutorStopped'
    BY DEF DecisionFits, TypeOK, Active, Terminal
<1>5. ASSUME Decision \in Outcome!Final PROVE Decision' = Decision
    <2>1. CASE NeverDispatched
        BY <1>1, <2>1, NeverKept DEF DecisionFits, NeverDispatched
    <2>2. CASE ExecutorStopped
        BY <1>1, <2>2, StoppedKept DEF DecisionFits, ExecutorStopped
    <2>3. CASE status = "success" /\ Decision = "success"
        BY <1>2, <2>3 DEF DecisionFits, NeverDispatched, ExecutorStopped, Active
    <2> QED BY <1>3, <1>5, <2>1, <2>2, <2>3 DEF Outcome!Final, TypeOK, Active, Terminal
<1>6. ASSUME Decision = "canceled" PROVE Decision' \in {"canceled", "stopped"}
    <2>1. status = "canceled" /\ ~NeverDispatched /\ status' = "canceled"
        BY <1>2, <1>3, <1>6
    <2>2. ~NeverDispatched'
        BY <1>1, <1>2, <2>1, ManagedRow DEF NeverDispatched, Managed
    <2> QED BY <1>4, <2>1, <2>2 DEF Active
<1>7. ASSUME Decision' \in {"success", "stopped"} PROVE Execution' = "ended"
    <2>1. Over'
        BY <1>4, <1>7 DEF TruthInv, SaysSuccess, SaysStopped, Closed, ExecutorStopped, Active, Terminal
    <2> QED BY <2>1 DEF Over, Execution, ExecInv
<1>8. ASSUME Decision' = "never" PROVE Execution' = "none"
    <2>1. NeverDispatched'
        BY <1>4, <1>8 DEF Terminal
    <2>2. Unseen'
        BY <2>1 DEF LockInv, NeverDispatched, Unseen
    <2> QED BY <2>2 DEF NeverInv, ExecInv, Execution
<1> QED BY <1>5, <1>6, <1>7, <1>8 DEF DecisionFits

(* A step of the row decides as TaskOutcome allows, or decides nothing.    *)
LEMMA OutcomeRow ==
    ASSUME ProtocolInv, ManagedInv, Undisturbed, ControlStep \/ Receive
    PROVE  Outcome!Next \/ UNCHANGED <<Decision, Execution>>
<1>1. DecisionFits
    BY DecisionValue
<1>2. (ProtocolInv /\ ManagedInv)'
    BY UndisturbedStep DEF ProtocolNext
<1>3. DecisionFits'
    BY <1>2, DecisionValue, PTL
<1>4. Execution' = Execution
    BY DEF ControlStep, Receive, agentVars, Execution
<1>5. CASE Decision' = Decision
    BY <1>4, <1>5
<1>6. CASE Decision' # Decision
    <2>1. Outcome!Decide(Decision')
        BY <1>1, <1>2, <1>3, <1>4, <1>6, DecidedRow DEF Outcome!Decide, Outcome!Final
    <2> QED BY <1>3, <2>1 DEF Outcome!Next, DecisionFits
<1> QED BY <1>5, <1>6

(* The row and the Agent keep the promises of TaskOutcome: one execution   *)
(* at most, a success only for one that ended, and a success, "never       *)
(* dispatched" and "the executor stopped"                                  *)
(* (_node_task_has_executor_stop_evidence) for good.  Workers that die may *)
(* disturb managed restores only, and the reattachment backups only.       *)
THEOREM ProtocolImplementsOutcome == ProtocolSpec /\ Undisturbed => KeepsOutcome
<1>1. ProtocolInit => Outcome!Init
    BY DEF ProtocolInit, Init, AG!Init, Outcome!Init, Decision, Execution, Active, NeverDispatched,
           ExecutorStopped
<1>2. ProtocolInv /\ ManagedInv /\ Undisturbed /\ [ProtocolNext]_protocolVars
          => (ProtocolInv /\ ManagedInv /\ Undisturbed)'
    BY UndisturbedStep
<1>3. ProtocolInv /\ ManagedInv /\ Undisturbed /\ [ProtocolNext]_protocolVars
          => [Outcome!Next]_<<Decision, Execution>>
    <2> SUFFICES ASSUME ProtocolInv, ManagedInv, Undisturbed, [ProtocolNext]_protocolVars
                 PROVE  Outcome!Next \/ UNCHANGED <<Decision, Execution>>
        OBVIOUS
    <2>1. CASE ControlStep \/ Receive
        BY <2>1, OutcomeRow
    <2>2. CASE AgentStep \/ Fault
        BY <2>2, AgentAlone, OutcomeAgent
    <2>3. CASE ReceiveFails \/ SendAck \/ UNCHANGED protocolVars
        BY <2>3 DEF ReceiveFails, ReceiveFailsAnd, SendAck, protocolVars, controlVars, rowVars,
                    agentVars, Decision, Execution, NeverDispatched, ExecutorStopped, Managed
    <2> QED BY <2>1, <2>2, <2>3 DEF ProtocolNext
<1> QED BY <1>1, <1>2, <1>3, ProtocolInvInit, ManagedInvInit, PTL
        DEF ProtocolSpec, KeepsOutcome, Outcome!Spec

-----------------------------------------------------------------------------
(* One execution, which hears of its cancellation                          *)

ExecutedOnce == runs \in {0, 1}

(* A cancellation that the Agent stored has cancelled the execution, or    *)
(* its handler is about to do so through the Tracker.                      *)
CancelHeard ==
    localStatus = "cancelled" /\ exec \in {"checked", "waiting", "engine"}
        => ctxCancelled \/ (reader = "cancelling" /\ tracked)

(* An execution that is registered can be cancelled until it was.          *)
Cancellable ==
    exec \in {"registered", "checked", "waiting", "engine"} => tracked \/ ctxCancelled

LEMMA ExecutedOnceStep ==
    ASSUME ExecInv, ExecutedOnce, AgentMove
    PROVE  ExecutedOnce'
<1>1. CASE AG!StartEngine
    <2>1. exec \in Begun /\ runs' = runs + 1
        BY <1>1 DEF AG!StartEngine, AG!Goroutine, Begun
    <2> QED BY <2>1 DEF ExecInv, ExecutedOnce
<1>2. CASE UNCHANGED runs
    BY <1>2 DEF ExecutedOnce
<1> QED BY <1>1, <1>2, AgentRuns

LEMMA CancelHeardReader ==
    ASSUME ExecInv, CancelHeard, Cancellable, AG!ReaderStep
    PROVE  CancelHeard' /\ Cancellable'
<1> USE DEF CancelHeard, Cancellable
<1>1. CASE AG!HandleCommand
    <2>1. UNCHANGED <<tracked, ctxCancelled, reader>>
        BY <1>1 DEF AG!HandleCommand, AG!HandleCommandIf
    <2>2. exec' = "spawned" \/ UNCHANGED <<localStatus, exec>>
        BY <1>1 DEF AG!HandleCommand, AG!HandleCommandIf
    <2> QED BY <2>1, <2>2
<1>2. CASE AG!HandleCancel
    <2>1. UNCHANGED <<exec, tracked, ctxCancelled>>
        BY <1>2 DEF AG!HandleCancel, AG!HandleCancelWith, AG!execVars
    <2>2. reader' = "cancelling" \/ UNCHANGED <<localStatus, reader>>
        BY <1>2 DEF AG!HandleCancel, AG!HandleCancelWith, AG!rowVars
    <2> QED BY <2>1, <2>2
<1>3. CASE AG!TrackerCancel
    <2>1. exec' = exec /\ (tracked \/ ctxCancelled => ctxCancelled')
        BY <1>3 DEF AG!TrackerCancel
    <2>2. localStatus' = localStatus
        BY <1>3 DEF AG!TrackerCancel, AG!rowVars
    <2> QED BY <2>1, <2>2
<1>4. CASE AG!HandleResultAck
    BY <1>4 DEF AG!HandleResultAck, AG!execVars
<1>5. ~AG!RefuseCommand
    BY DEF AG!RefuseCommand, ExecInv
<1> QED BY <1>1, <1>2, <1>3, <1>4, <1>5 DEF AG!ReaderStep

LEMMA CancelHeardExecution ==
    ASSUME TypeOK, CancelHeard, Cancellable, AG!ExecStep
    PROVE  CancelHeard' /\ Cancellable'
<1> USE DEF CancelHeard, Cancellable
<1>1. CASE AG!Register
    <2>1. exec' = "registered" /\ tracked'
        BY <1>1 DEF AG!Register, AG!Goroutine
    <2> QED BY <2>1
<1>2. CASE AG!CheckCancelled
    <2>1. /\ exec = "registered" /\ exec' = "checked"
          /\ ctxCancelled' = (ctxCancelled \/ localStatus = "cancelled")
          /\ UNCHANGED <<localStatus, tracked>>
        BY <1>2 DEF AG!CheckCancelled, AG!CheckCancelledIf, AG!Goroutine, AG!rowVars
    <2> QED BY <2>1
<1>3. CASE AG!WaitForSlot \/ AG!StartEngine
    <2>1. exec \in {"checked", "waiting"} /\ UNCHANGED <<localStatus, tracked, ctxCancelled>>
        BY <1>3 DEF AG!WaitForSlot, AG!StartEngine, AG!Goroutine, AG!rowVars
    <2>2. reader' = reader
        BY <1>3 DEF AG!WaitForSlot, AG!StartEngine, AG!sessionVars
    <2> QED BY <2>1, <2>2
<1>4. exec' \in {"report", "load", "seal", "none", "detach", "returned"}
      \/ AG!Register \/ AG!CheckCancelled \/ AG!WaitForSlot \/ AG!StartEngine
    <2>1. ASSUME NEW wire, AG!EngineReturns(wire) PROVE exec' \in {"detach", "returned"}
        BY <2>1 DEF AG!EngineReturns, AG!Goroutine
    <2>2. ASSUME AG!GiveUpSlot \/ AG!Detach PROVE exec' = "report"
        BY <2>2 DEF AG!GiveUpSlot, AG!Detach, AG!Goroutine
    <2>3. ASSUME AG!Finish PROVE exec' \in {"report", "load", "seal"}
        BY <2>3 DEF AG!Finish
    <2>4. ASSUME AG!SealCancelledExecutor \/ AG!Load \/ AG!Report
          PROVE  exec' \in {"load", "report", "none"}
        BY <2>4 DEF AG!SealCancelledExecutor, AG!Load, AG!LoadAs, AG!Report, AG!Goroutine
    <2>5. ~AG!PathSizeBusy
        BY DEF AG!PathSizeBusy, AgentKind, TypeOK, AllKinds
    <2> QED BY <2>1, <2>2, <2>3, <2>4, <2>5 DEF AG!ExecStep
<1>5. CASE exec' \in {"report", "load", "seal", "none", "detach", "returned"}
    BY <1>5
<1> QED BY <1>1, <1>2, <1>3, <1>4, <1>5

LEMMA CancelHeardStep ==
    ASSUME TypeOK, ExecInv, CancelHeard, Cancellable, AgentMove
    PROVE  CancelHeard' /\ Cancellable'
<1>1. CASE AG!HookStep \/ AG!FlushStep \/ AG!DeliveryDeadline
    <2>1. UNCHANGED <<localStatus, exec, tracked, ctxCancelled, reader>>
        BY <1>1 DEF AG!HookStep, AG!FlushStep, AG!DeliveryDeadline, AG!SetAckMode,
                    AG!ReattachRunning, AG!FlushList, AG!FlushListIf, AG!FlushSend, AG!rowVars,
                    AG!execVars
    <2> QED BY <2>1 DEF CancelHeard, Cancellable
<1>2. CASE AG!RepairStep \/ AG!Restart
    <2>1. /\ UNCHANGED <<exec, tracked, ctxCancelled, reader>>
          /\ localStatus' = localStatus \/ localStatus' = AG!RepairedStatus
        BY <1>2 DEF AG!RepairStep, AG!RepairSnapshot, AG!RepairScan, AG!RepairWrite, AG!Restart,
                    AG!rowVars, AG!execVars, AG!sessionVars
    <2>2. AG!RepairedStatus # "cancelled"
        BY DEF AG!RepairedStatus
    <2> QED BY <2>1, <2>2 DEF CancelHeard, Cancellable
<1>3. CASE AG!Connect \/ AG!HelperFinishes \/ AG!Disconnect
    <2>1. UNCHANGED <<localStatus, exec, tracked, ctxCancelled, reader>>
        BY <1>3 DEF AG!Connect, AG!HelperFinishes, AG!Disconnect, AG!rowVars, AG!execVars,
                    AG!sessionVars
    <2> QED BY <2>1 DEF CancelHeard, Cancellable
<1>4. CASE AG!Crash
    <2>1. exec' = "none"
        BY <1>4 DEF AG!Crash
    <2> QED BY <2>1 DEF CancelHeard, Cancellable
<1> QED BY <1>1, <1>2, <1>3, <1>4, CancelHeardReader, CancelHeardExecution
        DEF AgentMove, AG!AgentStep

ExecutionInv == ProtocolInv /\ ExecutedOnce /\ CancelHeard /\ Cancellable

LEMMA ExecutionInvHolds == ProtocolSpec => []ExecutionInv
<1>1. ProtocolInit => ExecutionInv
    BY ProtocolInvInit DEF ProtocolInit, AG!Init, ExecutionInv, ExecutedOnce, CancelHeard, Cancellable
<1>2. ExecutionInv /\ [ProtocolNext]_protocolVars => ExecutionInv'
    <2> SUFFICES ASSUME ExecutionInv, [ProtocolNext]_protocolVars PROVE ExecutionInv'
        OBVIOUS
    <2>1. ProtocolInv /\ ExecutedOnce /\ CancelHeard /\ Cancellable /\ ProtocolInv'
        BY ProtocolInvStep DEF ExecutionInv
    <2>2. CASE AgentStep \/ Fault
        <3>1. TypeOK /\ ExecInv /\ AgentMove
            BY <2>1, <2>2, AgentAlone DEF ProtocolInv
        <3> QED BY <2>1, <3>1, ExecutedOnceStep, CancelHeardStep DEF ExecutionInv
    <2>3. CASE UNCHANGED agentVars
        BY <2>1, <2>3 DEF agentVars, ExecutionInv, ExecutedOnce, CancelHeard, Cancellable
    <2>4. AgentStep \/ Fault \/ UNCHANGED agentVars
        BY DEF ProtocolNext, ControlStep, Receive, ReceiveFails, ReceiveFailsAnd, SendAck,
               protocolVars
    <2> QED BY <2>2, <2>3, <2>4
<1> QED BY <1>1, <1>2, PTL DEF ProtocolSpec

(* However often the control plane delivers a command, and whatever its    *)
(* session loses, at most one engine is ever started for it: the delivery  *)
(* workers repeat the frame, and AcceptCommand inserts the Agent's row     *)
(* once.                                                                   *)
THEOREM CommandExecutedOnce == ProtocolSpec => []ExecutedOnce
<1>1. ExecutionInv => ExecutedOnce
    BY DEF ExecutionInv
<1> QED BY <1>1, ExecutionInvHolds, PTL

(* A task.cancel that the Agent stored reaches the execution, whichever of *)
(* the control plane's frames, of runTask and of the Tracker was first:    *)
(* its context is cancelled, or TrackerCancel is about to cancel it.       *)
THEOREM CancelReachesExecution == ProtocolSpec => []CancelHeard
<1>1. ExecutionInv => CancelHeard
    BY DEF ExecutionInv
<1> QED BY <1>1, ExecutionInvHolds, PTL

-----------------------------------------------------------------------------
(* A success and the row that the Agent keeps                              *)

Ended == localStatus \in {"succeeded", "failed"}

(* The lifecycle coordinator decides an upgrade by what it sees of the     *)
(* host; any other success is one that the Agent stored, and that a repair *)
(* pass may have rewritten since.                                          *)
SuccessInv == ~Lifecycle /\ SaysSuccess => Ended

(* A command that was cancelled on its Agent is not recorded as a success. *)
CancelledNotSucceeded == ~Lifecycle /\ localStatus = "cancelled" => status # "success"

(* No step of the Agent cancels or reopens a row that ended.               *)
LEMMA EndedKept ==
    ASSUME TypeOK, AgentMove, Ended
    PROVE  Ended'
<1> USE DEF Ended
<1>1. ASSUME AG!ReaderStep PROVE Ended'
    BY <1>1 DEF AG!ReaderStep, AG!RefuseCommand, AG!HandleCommand, AG!HandleCommandIf,
                AG!HandleCancel, AG!HandleCancelWith, AG!TrackerCancel, AG!HandleResultAck, AG!rowVars
<1>2. ASSUME AG!ExecStep PROVE Ended'
    <2>1. ASSUME NEW wire, AG!EngineReturns(wire) PROVE Ended'
        BY <2>1 DEF AG!EngineReturns, AG!rowVars
    <2>2. ASSUME AG!GiveUpSlot \/ AG!Finish PROVE Ended'
        BY <2>2 DEF AG!GiveUpSlot, AG!Finish, AG!rowVars
    <2>3. ~AG!PathSizeBusy
        BY DEF AG!PathSizeBusy, AgentKind, TypeOK, AllKinds
    <2> QED BY <1>2, <2>1, <2>2, <2>3
            DEF AG!ExecStep, AG!Register, AG!CheckCancelled, AG!CheckCancelledIf, AG!WaitForSlot,
                AG!StartEngine, AG!Detach, AG!SealCancelledExecutor, AG!Load, AG!LoadAs, AG!Report,
                AG!rowVars
<1>3. ASSUME AG!HookStep \/ AG!FlushStep \/ AG!DeliveryDeadline PROVE Ended'
    BY <1>3 DEF AG!HookStep, AG!FlushStep, AG!DeliveryDeadline, AG!SetAckMode, AG!ReattachRunning,
                AG!FlushList, AG!FlushListIf, AG!FlushSend, AG!rowVars
<1>4. CASE AG!RepairStep \/ AG!Restart
    <2>1. localStatus' = localStatus \/ localStatus' = AG!RepairedStatus
        BY <1>4 DEF AG!RepairStep, AG!RepairSnapshot, AG!RepairScan, AG!RepairWrite, AG!Restart,
                    AG!rowVars
    <2> QED BY <2>1 DEF AG!RepairedStatus
<1>5. CASE AG!Connect \/ AG!HelperFinishes \/ AG!Disconnect \/ AG!Crash
    BY <1>5 DEF AG!Connect, AG!HelperFinishes, AG!Disconnect, AG!Crash, AG!rowVars
<1> QED BY <1>1, <1>2, <1>3, <1>4, <1>5 DEF AgentMove, AG!AgentStep

(* Only the end of an execution whose row was still running tells a        *)
(* success that was not told before, and stores it.                        *)
LEMMA SuccessAgent ==
    ASSUME TypeOK, AgentTypeOK, ExecInv, SuccessInv, AgentMove, UNCHANGED controlVars
    PROVE  SuccessInv'
<1>1. kind' = kind /\ status' = status /\ (Lifecycle' = Lifecycle)
    BY ControlKept
<1> SUFFICES ASSUME ~Lifecycle, SaysSuccess' PROVE Ended'
    BY <1>1 DEF SuccessInv
<1>2. CASE SaysSuccess
    BY <1>2, EndedKept DEF SuccessInv
<1>3. CASE ~SaysSuccess
    <2>1. PICK frame \in Told' : frame.wire = "success" /\ frame \notin Told
        BY <1>1, <1>3 DEF SaysSuccess
    <2>2. Speaks
        BY <1>1, <2>1, TellsNothingNew DEF Blank
    <2>3. ~AG!Detach
        BY DEF AG!Detach, AG!Goroutine, ExecInv
    <2>4. ~AG!SealCancelledExecutor
        <3> SUFFICES ASSUME AG!SealCancelledExecutor PROVE FALSE
            OBVIOUS
        <3>1. /\ exec = "seal" /\ exec' = "load" /\ UNCHANGED <<uplink, flush, out, localStatus>>
              /\ evidence' = evidence \/ localStatus = "cancelled"
            BY DEF AG!SealCancelledExecutor, AG!Goroutine, AG!sessionVars
        <3>2. frame \in Told \/ frame.wire = "abort"
            BY <2>1, <3>1 DEF Told, Sent, AG!RowResult, AG!WireStatus, AG!Frame
        <3> QED BY <2>1, <3>2
    <2>5. AG!Finish
        BY <2>2, <2>3, <2>4 DEF Speaks
    <2>6. /\ exec' \in {"report", "load", "seal"} /\ UNCHANGED <<uplink, flush, out>>
          /\ exec' = "report" => localStatus = "running"
        BY <2>5 DEF AG!Finish, AG!sessionVars
    <2>7. CASE localStatus = "running"
        <3>1. /\ localStatus' = AG!LocalStatus
              /\ exec' = IF AG!LocalStatus = "cancelled" THEN "load" ELSE "report"
            BY <2>5, <2>7 DEF AG!Finish
        <3>2. CASE localStatus' = "cancelled"
            <4>1. exec' = "load" /\ AG!RowResult'.wire = "abort"
                BY <3>1, <3>2 DEF AG!RowResult, AG!WireStatus, AG!Frame
            <4>2. frame \in Told \/ frame.wire = "abort"
                BY <2>1, <2>6, <4>1 DEF Told, Sent
            <4> QED BY <2>1, <4>2
        <3>3. CASE localStatus' # "cancelled"
            BY <3>1, <3>3 DEF AG!LocalStatus, Ended
        <3> QED BY <3>2, <3>3
    <2>8. CASE localStatus # "running"
        <3>1. UNCHANGED <<localStatus, evidence>> /\ exec' # "report"
            BY <2>5, <2>6, <2>8 DEF AG!Finish, AG!rowVars
        <3>2. frame \in Told
            BY <2>1, <2>6, <3>1 DEF Told, Sent, AG!RowResult, AG!WireStatus
        <3> QED BY <2>1, <3>2
    <2> QED BY <2>7, <2>8
<1> QED BY <1>2, <1>3

(* The row becomes a success by a result that says so.                     *)
LEMMA SuccessRow ==
    ASSUME TypeOK, AgentTypeOK, TruthInv, SuccessInv, ControlStep \/ Receive
    PROVE  SuccessInv'
<1>1. UNCHANGED agentVars /\ Ended' = Ended
    BY DEF ControlStep, Receive, agentVars, Ended
<1>2. Lifecycle' = Lifecycle
    BY RowSteps, KindKept DEF Lifecycle
<1>3. ~Lifecycle => ~Detached
    BY DEF Detached, Lifecycle
<1>4. ~Lifecycle /\ SaysSuccess' => SaysSuccess
    <2> SUFFICES ASSUME ~Lifecycle, SaysSuccess' PROVE SaysSuccess
        OBVIOUS
    <2>1. CASE ControlStep
        <3>1. Told' = Told
            BY <2>1 DEF ControlStep, agentVars, Told, Sent, AG!RowResult, AG!WireStatus
        <3>2. status' = "success" => status = "success"
            BY <1>3, <2>1, ControlLearns DEF ControlStep
        <3> QED BY <3>1, <3>2 DEF SaysSuccess
    <2>2. CASE Receive
        <3>1. uplink # <<>> /\ uplink' = Tail(uplink)
            BY <2>2 DEF Receive
        <3>2. Told' \subseteq Told /\ (Head(uplink).type = "result" => Head(uplink) \in Told)
            BY <1>1, <3>1, HeadSent, HeadTold
        <3>3. CASE Head(uplink).type = "result"
            <4>1. PICK sameError \in BOOLEAN :
                      HandleResult(Head(uplink).wire, ReportedKeys(Head(uplink)), sameError)
                BY <2>2, <3>3 DEF Receive
            <4>2. status' = "success" => status = "success" \/ Head(uplink).wire = "success"
                BY <4>1, ResultLearns
            <4> QED BY <3>2, <3>3, <4>2 DEF SaysSuccess
        <3>4. CASE Head(uplink).type # "result"
            <4>1. status' = "success" => status = "success"
                BY <2>2, <3>4 DEF Receive, AcceptTask, RecordProgress, vars, rowVars
            <4> QED BY <3>2, <4>1 DEF SaysSuccess
        <3> QED BY <3>3, <3>4
    <2> QED BY <2>1, <2>2
<1> QED BY <1>1, <1>2, <1>4 DEF SuccessInv

LEMMA SuccessInvStep ==
    ASSUME ProtocolInv, SuccessInv, [ProtocolNext]_protocolVars
    PROVE  SuccessInv'
<1>1. CASE AgentStep \/ Fault
    BY <1>1, AgentAlone, SuccessAgent DEF ProtocolInv
<1>2. CASE ControlStep \/ Receive
    BY <1>2, SuccessRow DEF ProtocolInv
<1>3. CASE ReceiveFails
    <2>1. uplink # <<>> /\ uplink' = Tail(uplink) /\ UNCHANGED <<controlVars, agentVars>>
        BY <1>3 DEF ReceiveFails, ReceiveFailsAnd
    <2>2. Told' \subseteq Told /\ status' = status /\ (Lifecycle' = Lifecycle)
        BY <2>1, HeadSent, ControlKept DEF ProtocolInv
    <2>3. Ended' = Ended
        BY <2>1 DEF agentVars, Ended
    <2> QED BY <2>2, <2>3 DEF SuccessInv, SaysSuccess
<1>4. CASE SendAck \/ UNCHANGED protocolVars
    <2>1. UNCHANGED <<controlVars, agentVars, uplink>>
        BY <1>4 DEF SendAck, protocolVars
    <2>2. status' = status /\ (Lifecycle' = Lifecycle)
        BY <2>1, ControlKept
    <2>3. Ended' = Ended /\ Told' = Told
        BY <2>1 DEF agentVars, Ended, Told, Sent, AG!RowResult, AG!WireStatus
    <2> QED BY <2>2, <2>3 DEF SuccessInv, SaysSuccess
<1> QED BY <1>1, <1>2, <1>3, <1>4 DEF ProtocolNext

(* When the Agent's row of a command ends as cancelled, the control plane  *)
(* never records a success for it, although the engine may have succeeded, *)
(* its result may have been carried by the goroutine or the outbox, and    *)
(* either side may have crashed (runTask's convergence to the stored row,  *)
(* complete_task).  Upgrades are excepted: their coordinator decides them  *)
(* by the host.                                                            *)
THEOREM CancelledIsNoSuccess == ProtocolSpec => []CancelledNotSucceeded
<1>1. ProtocolInit => SuccessInv
    BY DEF ProtocolInit, Init, AG!Init, AG!FlushIdle, AG!Finished, SuccessInv, SaysSuccess, Told, Sent
<1>2. ProtocolInv /\ SuccessInv /\ [ProtocolNext]_protocolVars => (ProtocolInv /\ SuccessInv)'
    BY ProtocolInvStep, SuccessInvStep
<1>3. SuccessInv => CancelledNotSucceeded
    BY DEF SuccessInv, SaysSuccess, Ended, CancelledNotSucceeded
<1> QED BY <1>1, <1>2, <1>3, ProtocolInvInit, PTL DEF ProtocolSpec
=============================================================================
