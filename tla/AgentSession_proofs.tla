------------------------- MODULE AgentSession_proofs -------------------------
(***************************************************************************)
(* Theorems about AgentSession for every set of classes of commands, every *)
(* capacity of the channels and any number of frames and faults: an Agent  *)
(* executes a command at most once, hands a persisted cancellation to the  *)
(* execution, and never reports a success for a cancelled command.         *)
(***************************************************************************)
EXTENDS AgentSession, TLAPS

-----------------------------------------------------------------------------
(* The inductive invariant                                                 *)

\* Only the insertion of the row starts an execution, and an execution passes by
\* its engine once: until then none has run.
StartsOnce ==
    /\ status = "none" => exec = "none" /\ runs = 0
    /\ exec \in {"spawned", "registered", "checked", "waiting"} => runs = 0
    /\ AtMostOneRun

\* A registered execution can be cancelled until it was; a cancellation that was
\* persisted before the registration is seen by the check that follows it.
CancelSeen ==
    /\ exec \in {"registered", "checked", "waiting", "engine"} => tracked \/ cancelled
    /\ CancelReachesEngine

OnTheWay == delivered \cup {uplink[i] : i \in DOMAIN uplink}

\* Nothing that may still be sent for a row that is open or cancelled is a success.
\* Only an engine's own success is stored as one, and a cancelled row never was.
NoSuccess ==
    status \in {"none", "running", "cancelled"} =>
        /\ \A f \in OnTheWay : f.wire # "success"
        /\ flush.frame.wire # "success"
        /\ exec \in {"detach", "report"} => out.wire # "success"

-----------------------------------------------------------------------------
(* Channels                                                                *)

LEMMA UplinkAppend ==
    ASSUME uplink \in Seq(Frames), NEW frame \in Frames, Send(frame)
    PROVE  /\ uplink' \in Seq(Frames)
           /\ \A i \in DOMAIN uplink' : \/ uplink'[i] = frame
                                        \/ \E j \in DOMAIN uplink : uplink'[i] = uplink[j]
<1>1. CASE uplink' = uplink
    BY <1>1
<1>2. CASE uplink' = Append(uplink, frame)
  <2>1. uplink' \in Seq(Frames)
      BY <1>2
  <2>2. \A i \in DOMAIN uplink' : i \in DOMAIN uplink \/ i = Len(uplink) + 1
      BY <1>2
  <2>3. \A i \in DOMAIN uplink : uplink'[i] = uplink[i]
      BY <1>2
  <2>4. uplink'[Len(uplink) + 1] = frame
      BY <1>2
  <2> QED BY <2>1, <2>2, <2>3, <2>4
<1> QED BY <1>1, <1>2 DEF Send

LEMMA UplinkTail ==
    ASSUME uplink \in Seq(Frames), uplink # <<>>, uplink' = Tail(uplink)
    PROVE  /\ uplink' \in Seq(Frames)
           /\ Head(uplink) \in Frames /\ 1 \in DOMAIN uplink /\ Head(uplink) = uplink[1]
           /\ \A i \in DOMAIN uplink' : \E j \in DOMAIN uplink : uplink'[i] = uplink[j]
<1>1. uplink' \in Seq(Frames) /\ Head(uplink) \in Frames
    OBVIOUS
<1>2. 1 \in DOMAIN uplink /\ Head(uplink) = uplink[1]
    OBVIOUS
<1>3. \A i \in DOMAIN uplink' : i + 1 \in DOMAIN uplink /\ uplink'[i] = uplink[i + 1]
    OBVIOUS
<1> QED BY <1>1, <1>2, <1>3

(* Every frame the Agent makes is one.                                     *)
LEMMA FrameType ==
    /\ Accepted \in Frames /\ Progress \in Frames /\ NoOut \in Frames
    /\ TypeOK => RowResult \in Frames
BY DEF Accepted, Progress, NoOut, Frame, Frames, Wires, RowResult, WireStatus, TypeOK

LEMMA RefusalType ==
    Frame("result", "failed", FALSE) \in Frames /\ Frame("result", "abort", FALSE) \in Frames
BY DEF Frame, Frames, Wires

LEMMA SendType ==
    ASSUME TypeOK, NEW frame \in Frames, Send(frame)
    PROVE  uplink' \in Seq(Frames)
BY UplinkAppend DEF TypeOK

LEMMA SendResultType ==
    ASSUME TypeOK, NEW frame \in Frames, SendResult(frame)
    PROVE  uplink' \in Seq(Frames) /\ inFlight' \in BOOLEAN /\ reported' \in BOOLEAN
<1>1. CASE ackMode /\ inFlight
    BY <1>1 DEF SendResult, TypeOK
<1>2. CASE ~(ackMode /\ inFlight)
  <2>1. Send(frame) /\ inFlight' \in BOOLEAN /\ reported' \in BOOLEAN
      BY <1>2 DEF SendResult
  <2> QED BY <2>1, SendType
<1> QED BY <1>1, <1>2

(* Reading takes one frame.                                                *)
LEMMA ReadType ==
    ASSUME TypeOK, NEW frame, Read(frame)
    PROVE  downlink' \in Seq(Commands)
BY DEF TypeOK, Read

-----------------------------------------------------------------------------
(* Types                                                                   *)

\* The types by what the provers are good at.
Flags ==
    /\ up \in BOOLEAN /\ link \in BOOLEAN /\ maintenance \in BOOLEAN
    /\ evidence \in BOOLEAN /\ reported \in BOOLEAN
    /\ tracked \in BOOLEAN /\ cancelled \in BOOLEAN
    /\ ackMode \in BOOLEAN /\ inFlight \in BOOLEAN

Data ==
    /\ kind \in AllKinds
    /\ helper \in {"none", "running", "succeeded", "failed"}
    /\ status \in Statuses
    /\ exec \in Execs /\ out \in Frames /\ runs \in Nat
    /\ reader \in {"idle", "cancelling"}
    /\ hook \in {"idle", "mode", "repair", "reattach", "flush"}
    /\ repair \in [pc : {"idle", "scan", "write"}, active : BOOLEAN, forHook : BOOLEAN]
    /\ flush \in [pc : {"idle", "send"}, frame : Frames]

Channels ==
    /\ downlink \in Seq(Commands) /\ uplink \in Seq(Frames)
    /\ delivered \subseteq Frames
    /\ published \in 0..MaxFrames /\ faults \in 0..MaxFaults

LEMMA TypeParts ==
    /\ TypeOK <=> Flags /\ Data /\ Channels
    /\ TypeOK' <=> Flags' /\ Data' /\ Channels'
BY DEF TypeOK, Flags, Data, Channels

RepairStates == [pc : {"idle", "scan", "write"}, active : BOOLEAN, forHook : BOOLEAN]

LEMMA RepairMoves ==
    ASSUME NEW r \in RepairStates
    PROVE  RepairIdle \in RepairStates /\ [r EXCEPT !.pc = "write"] \in RepairStates
<1>1. RepairIdle \in RepairStates
    BY DEF RepairIdle, RepairStates
<1>2. r.active \in BOOLEAN /\ r.forHook \in BOOLEAN
    BY DEF RepairStates
<1>3. [r EXCEPT !.pc = "write"] = [pc |-> "write", active |-> r.active, forHook |-> r.forHook]
    BY DEF RepairStates
<1>4. [pc |-> "write", active |-> r.active, forHook |-> r.forHook] \in RepairStates
    BY <1>2 DEF RepairStates
<1> QED BY <1>1, <1>3, <1>4

LEMMA InitType == SessionInit => TypeOK
<1> SUFFICES ASSUME SessionInit PROVE TypeOK
    OBVIOUS
<1>1. kind \in AllKinds
    BY KindAssumption DEF SessionInit, Init
<1>2. out \in Frames /\ flush \in [pc : {"idle", "send"}, frame : Frames]
    BY FrameType DEF SessionInit, Init, FlushIdle
<1>3. /\ up \in BOOLEAN /\ link \in BOOLEAN /\ maintenance \in BOOLEAN
      /\ evidence \in BOOLEAN /\ reported \in BOOLEAN /\ tracked \in BOOLEAN
      /\ cancelled \in BOOLEAN /\ ackMode \in BOOLEAN /\ inFlight \in BOOLEAN
    BY DEF SessionInit, Init
<1>4. downlink \in Seq(Commands) /\ uplink \in Seq(Frames) /\ repair \in [pc : {"idle", "scan", "write"}, active : BOOLEAN, forHook : BOOLEAN]
    BY DEF SessionInit, Init, RepairIdle
<1>5. published \in 0..MaxFrames /\ faults \in 0..MaxFaults /\ delivered \subseteq Frames
    BY MaxAssumption DEF SessionInit
<1> QED BY <1>1, <1>2, <1>3, <1>4, <1>5 DEF SessionInit, Init, TypeOK, Statuses, Execs

(* The read loop.                                                          *)
LEMMA ReaderType ==
    ASSUME TypeOK, ReaderStep, UNCHANGED envVars
    PROVE  TypeOK'
<1> USE DEF TypeOK, envVars, hostVars, rowVars, execVars, sessionVars
<1>1. CASE RefuseCommand
  <2>1. Flags'
      BY <1>1, RefusalType, SendType, ReadType DEF Flags, RefuseCommand, Read
  <2>2. Data'
      BY <1>1, RefusalType, SendType, ReadType DEF Data, RefuseCommand, Read
  <2>3. Channels'
      BY <1>1, RefusalType, SendType, ReadType DEF Channels, RefuseCommand, Read
  <2> QED BY <2>1, <2>2, <2>3, TypeParts
<1>2. CASE HandleCommand
  <2>1. Flags'
      BY <1>2, FrameType, SendType, SendResultType, ReadType DEF Flags, HandleCommand, HandleCommandIf, Read, Statuses, Execs, Executing
  <2>2. Data'
      BY <1>2, FrameType, SendType, SendResultType, ReadType DEF Data, HandleCommand, HandleCommandIf, Read, Statuses, Execs, Executing
  <2>3. Channels'
      BY <1>2, FrameType, SendType, SendResultType, ReadType DEF Channels, HandleCommand, HandleCommandIf, Read, Statuses, Execs, Executing
  <2> QED BY <2>1, <2>2, <2>3, TypeParts
<1>3. CASE HandleCancel
  <2>1. Flags'
      BY <1>3, ReadType DEF Flags, HandleCancel, HandleCancelWith, Read, Statuses, Finished
  <2>2. Data'
      BY <1>3, ReadType DEF Data, HandleCancel, HandleCancelWith, Read, Statuses, Finished
  <2>3. Channels'
      BY <1>3, ReadType DEF Channels, HandleCancel, HandleCancelWith, Read, Statuses, Finished
  <2> QED BY <2>1, <2>2, <2>3, TypeParts
<1>4. CASE TrackerCancel
  <2>1. Flags'
      BY <1>4 DEF Flags, TrackerCancel
  <2>2. Data'
      BY <1>4 DEF Data, TrackerCancel
  <2>3. Channels'
      BY <1>4 DEF Channels, TrackerCancel
  <2> QED BY <2>1, <2>2, <2>3, TypeParts
<1>5. CASE HandleResultAck
  <2>1. Flags'
      BY <1>5, ReadType DEF Flags, HandleResultAck, Read
  <2>2. Data'
      BY <1>5, ReadType DEF Data, HandleResultAck, Read
  <2>3. Channels'
      BY <1>5, ReadType DEF Channels, HandleResultAck, Read
  <2> QED BY <2>1, <2>2, <2>3, TypeParts
<1> QED BY <1>1, <1>2, <1>3, <1>4, <1>5 DEF ReaderStep

(* The execution.                                                          *)
LEMMA ExecType ==
    ASSUME TypeOK, ExecStep, UNCHANGED envVars
    PROVE  TypeOK'
<1> USE DEF TypeOK, envVars, hostVars, rowVars, execVars, sessionVars
<1>1. CASE Register
  <2>1. Flags'
      BY <1>1 DEF Flags, Register, Goroutine, Execs, Executing
  <2>2. Data'
      BY <1>1 DEF Data, Register, Goroutine, Execs, Executing
  <2>3. Channels'
      BY <1>1 DEF Channels, Register, Goroutine, Execs, Executing
  <2> QED BY <2>1, <2>2, <2>3, TypeParts
<1>2. CASE CheckCancelled
  <2>1. Flags'
      BY <1>2 DEF Flags, CheckCancelled, CheckCancelledIf, Goroutine, Execs, Executing
  <2>2. Data'
      BY <1>2 DEF Data, CheckCancelled, CheckCancelledIf, Goroutine, Execs, Executing
  <2>3. Channels'
      BY <1>2 DEF Channels, CheckCancelled, CheckCancelledIf, Goroutine, Execs, Executing
  <2> QED BY <2>1, <2>2, <2>3, TypeParts
<1>3. CASE WaitForSlot
  <2>1. Flags'
      BY <1>3, FrameType, SendType DEF Flags, WaitForSlot, Goroutine, Execs, Executing
  <2>2. Data'
      BY <1>3, FrameType, SendType DEF Data, WaitForSlot, Goroutine, Execs, Executing
  <2>3. Channels'
      BY <1>3, FrameType, SendType DEF Channels, WaitForSlot, Goroutine, Execs, Executing
  <2> QED BY <2>1, <2>2, <2>3, TypeParts
<1>4. CASE GiveUpSlot
  <2>1. Flags'
      BY <1>4, RefusalType DEF Flags, GiveUpSlot, Goroutine, Execs, Statuses, Finished
  <2>2. Data'
    <3>1. exec' \in {"load", "report"} /\ out' \in Frames /\ UNCHANGED runs
        BY <1>4, RefusalType DEF GiveUpSlot, Goroutine
    <3>2. exec' \in Execs
        BY <3>1 DEF Execs
    <3>3. UNCHANGED <<kind, helper, reader, hook, repair, flush>>
        BY <1>4 DEF GiveUpSlot, hostVars, sessionVars
    <3>4. status' \in {status, "cancelled"}
        BY <1>4 DEF GiveUpSlot, rowVars
    <3>5. status' \in Statuses
        BY <3>4 DEF Data, Statuses, Finished
    <3> QED BY <3>1, <3>2, <3>3, <3>5 DEF Data
  <2>3. Channels'
      BY <1>4, RefusalType DEF Channels, GiveUpSlot, Goroutine, Execs, Statuses, Finished
  <2> QED BY <2>1, <2>2, <2>3, TypeParts
<1>5. CASE PathSizeBusy
  <2>1. Flags'
      BY <1>5, RefusalType DEF Flags, PathSizeBusy, Goroutine, Execs, Statuses, Finished
  <2>2. Data'
    <3>1. exec' \in {"load", "report"} /\ out' \in Frames /\ UNCHANGED runs
        BY <1>5, RefusalType DEF PathSizeBusy, Goroutine
    <3>2. exec' \in Execs
        BY <3>1 DEF Execs
    <3>3. UNCHANGED <<kind, helper, reader, hook, repair, flush>>
        BY <1>5 DEF PathSizeBusy, hostVars, sessionVars
    <3>4. status' \in {status, "failed"}
        BY <1>5 DEF PathSizeBusy, rowVars
    <3>5. status' \in Statuses
        BY <3>4 DEF Data, Statuses, Finished
    <3> QED BY <3>1, <3>2, <3>3, <3>5 DEF Data
  <2>3. Channels'
      BY <1>5, RefusalType DEF Channels, PathSizeBusy, Goroutine, Execs, Statuses, Finished
  <2> QED BY <2>1, <2>2, <2>3, TypeParts
<1>6. CASE StartEngine
  <2>1. Flags'
      BY <1>6, FrameType, SendType DEF Flags, StartEngine, Goroutine, Execs, Executing
  <2>2. Data'
      BY <1>6, FrameType, SendType DEF Data, StartEngine, Goroutine, Execs, Executing
  <2>3. Channels'
      BY <1>6, FrameType, SendType DEF Channels, StartEngine, Goroutine, Execs, Executing
  <2> QED BY <2>1, <2>2, <2>3, TypeParts
<1>7. CASE \E wire \in {"success", "failed", "running"} : EngineReturns(wire)
  <2>1. Flags'
      BY <1>7 DEF Flags, EngineReturns, Goroutine, Execs, Executing, Frame, Frames, Wires
  <2>2. Data'
      BY <1>7 DEF Data, EngineReturns, Goroutine, Execs, Executing, Frame, Frames, Wires
  <2>3. Channels'
      BY <1>7 DEF Channels, EngineReturns, Goroutine, Execs, Executing, Frame, Frames, Wires
  <2> QED BY <2>1, <2>2, <2>3, TypeParts
<1>8. CASE Detach
  <2>1. Flags'
      BY <1>8 DEF Flags, Detach, Goroutine, Execs, Executing
  <2>2. Data'
      BY <1>8 DEF Data, Detach, Goroutine, Execs, Executing
  <2>3. Channels'
      BY <1>8 DEF Channels, Detach, Goroutine, Execs, Executing
  <2> QED BY <2>1, <2>2, <2>3, TypeParts
<1>9. CASE Finish
  <2>1. Flags'
      BY <1>9 DEF Flags, Finish, LocalStatus, Frames, Execs, Executing, Statuses, Finished
  <2>2. Data'
      BY <1>9 DEF Data, Finish, LocalStatus, Frames, Execs, Executing, Statuses, Finished
  <2>3. Channels'
      BY <1>9 DEF Channels, Finish, LocalStatus, Frames, Execs, Executing, Statuses, Finished
  <2> QED BY <2>1, <2>2, <2>3, TypeParts
<1>10. CASE SealCancelledExecutor
  <2>1. Flags'
      BY <1>10 DEF Flags, SealCancelledExecutor, Goroutine, Frames, Execs
  <2>2. Data'
      BY <1>10 DEF Data, SealCancelledExecutor, Goroutine, Frames, Execs
  <2>3. Channels'
      BY <1>10 DEF Channels, SealCancelledExecutor, Goroutine, Frames, Execs
  <2> QED BY <2>1, <2>2, <2>3, TypeParts
<1>11. CASE Load
  <2>1. Flags'
      BY <1>11, FrameType DEF Flags, Load, LoadAs, Goroutine, Execs
  <2>2. Data'
      BY <1>11, FrameType DEF Data, Load, LoadAs, Goroutine, Execs
  <2>3. Channels'
      BY <1>11, FrameType DEF Channels, Load, LoadAs, Goroutine, Execs
  <2> QED BY <2>1, <2>2, <2>3, TypeParts
<1>12. CASE Report
  <2>1. Flags'
      BY <1>12, SendResultType DEF Flags, Report, Goroutine, Execs
  <2>2. Data'
      BY <1>12, SendResultType DEF Data, Report, Goroutine, Execs
  <2>3. Channels'
      BY <1>12, SendResultType DEF Channels, Report, Goroutine, Execs
  <2> QED BY <2>1, <2>2, <2>3, TypeParts
<1> QED BY <1>1, <1>2, <1>3, <1>4, <1>5, <1>6, <1>7, <1>8, <1>9, <1>10, <1>11, <1>12 DEF ExecStep

(* The connect hook, the repair, the outbox.                               *)
LEMMA HookType ==
    ASSUME TypeOK, HookStep \/ RepairStep \/ FlushStep \/ DeliveryDeadline, UNCHANGED envVars
    PROVE  TypeOK'
<1> USE DEF TypeOK, envVars, hostVars, rowVars, execVars, sessionVars
<1>1. CASE SetAckMode
  <2>1. Flags'
      BY <1>1, ResultAckAssumption DEF Flags, SetAckMode
  <2>2. Data'
      BY <1>1, ResultAckAssumption DEF Data, SetAckMode
  <2>3. Channels'
      BY <1>1, ResultAckAssumption DEF Channels, SetAckMode
  <2> QED BY <2>1, <2>2, <2>3, TypeParts
<1>2. CASE ReattachRunning
  <2>1. Flags'
      BY <1>2, FrameType, SendType DEF Flags, ReattachRunning
  <2>2. Data'
      BY <1>2, FrameType, SendType DEF Data, ReattachRunning
  <2>3. Channels'
      BY <1>2, FrameType, SendType DEF Channels, ReattachRunning
  <2> QED BY <2>1, <2>2, <2>3, TypeParts
<1>3. CASE RepairSnapshot
  <2>1. Flags'
      BY <1>3 DEF Flags, RepairSnapshot
  <2>2. Data'
      BY <1>3 DEF Data, RepairSnapshot
  <2>3. Channels'
      BY <1>3 DEF Channels, RepairSnapshot
  <2> QED BY <2>1, <2>2, <2>3, TypeParts
<1>4. CASE RepairScan
  <2>0. repair' \in RepairStates
      BY <1>4, RepairMoves DEF RepairScan, RepairDone, RepairStates
  <2>1. Flags'
      BY <1>4, <2>0 DEF Flags, RepairScan, RepairDone, RepairStates
  <2>2. Data'
      BY <1>4, <2>0 DEF Data, RepairScan, RepairDone, RepairStates
  <2>3. Channels'
      BY <1>4, <2>0 DEF Channels, RepairScan, RepairDone, RepairStates
  <2> QED BY <2>1, <2>2, <2>3, TypeParts
<1>5. CASE RepairWrite
  <2>1. Flags'
      BY <1>5 DEF Flags, RepairWrite, RepairDone, RepairIdle, RepairedStatus, Statuses, Finished
  <2>2. Data'
      BY <1>5 DEF Data, RepairWrite, RepairDone, RepairIdle, RepairedStatus, Statuses, Finished
  <2>3. Channels'
      BY <1>5 DEF Channels, RepairWrite, RepairDone, RepairIdle, RepairedStatus, Statuses, Finished
  <2> QED BY <2>1, <2>2, <2>3, TypeParts
<1>6. CASE FlushList
  <2>1. Flags'
      BY <1>6, FrameType DEF Flags, FlushList, FlushListIf
  <2>2. Data'
      BY <1>6, FrameType DEF Data, FlushList, FlushListIf
  <2>3. Channels'
      BY <1>6, FrameType DEF Channels, FlushList, FlushListIf
  <2> QED BY <2>1, <2>2, <2>3, TypeParts
<1>7. CASE FlushSend
  <2>1. Flags'
      BY <1>7, FrameType, SendResultType DEF Flags, FlushSend, FlushIdle
  <2>2. Data'
      BY <1>7, FrameType, SendResultType DEF Data, FlushSend, FlushIdle
  <2>3. Channels'
      BY <1>7, FrameType, SendResultType DEF Channels, FlushSend, FlushIdle
  <2> QED BY <2>1, <2>2, <2>3, TypeParts
<1>8. CASE DeliveryDeadline
  <2>1. Flags'
      BY <1>8 DEF Flags, DeliveryDeadline
  <2>2. Data'
      BY <1>8 DEF Data, DeliveryDeadline
  <2>3. Channels'
      BY <1>8 DEF Channels, DeliveryDeadline
  <2> QED BY <2>1, <2>2, <2>3, TypeParts
<1> QED BY <1>1, <1>2, <1>3, <1>4, <1>5, <1>6, <1>7, <1>8 DEF HookStep, RepairStep, FlushStep

(* The host.                                                               *)
LEMMA HostType ==
    ASSUME TypeOK, HostStep, published' = published, delivered' = delivered, faults' \in 0..MaxFaults
    PROVE  TypeOK'
<1> USE DEF TypeOK, envVars, hostVars, rowVars, execVars, sessionVars
<1>1. CASE Connect
  <2>1. Flags'
      BY <1>1 DEF Flags, Connect
  <2>2. Data'
      BY <1>1 DEF Data, Connect
  <2>3. Channels'
      BY <1>1 DEF Channels, Connect
  <2> QED BY <2>1, <2>2, <2>3, TypeParts
<1>2. CASE Disconnect
  <2>1. Flags'
      BY <1>2 DEF Flags, Disconnect
  <2>2. Data'
      BY <1>2 DEF Data, Disconnect
  <2>3. Channels'
      BY <1>2 DEF Channels, Disconnect
  <2> QED BY <2>1, <2>2, <2>3, TypeParts
<1>3. CASE Crash
  <2>1. Flags'
      BY <1>3, FrameType DEF Flags, Crash, RepairIdle, FlushIdle, Execs
  <2>2. Data'
      BY <1>3, FrameType DEF Data, Crash, RepairIdle, FlushIdle, Execs
  <2>3. Channels'
      BY <1>3, FrameType DEF Channels, Crash, RepairIdle, FlushIdle, Execs
  <2> QED BY <2>1, <2>2, <2>3, TypeParts
<1>4. CASE Restart
  <2>1. Flags'
      BY <1>4 DEF Flags, Restart, RepairedStatus, Statuses, Finished
  <2>2. Data'
      BY <1>4 DEF Data, Restart, RepairedStatus, Statuses, Finished
  <2>3. Channels'
      BY <1>4 DEF Channels, Restart, RepairedStatus, Statuses, Finished
  <2> QED BY <2>1, <2>2, <2>3, TypeParts
<1>5. CASE HelperFinishes
  <2>1. Flags'
      BY <1>5 DEF Flags, HelperFinishes
  <2>2. Data'
      BY <1>5 DEF Data, HelperFinishes
  <2>3. Channels'
      BY <1>5 DEF Channels, HelperFinishes
  <2> QED BY <2>1, <2>2, <2>3, TypeParts
<1>6. CASE ToggleMaintenance
  <2>1. Flags'
      BY <1>6 DEF Flags, ToggleMaintenance
  <2>2. Data'
      BY <1>6 DEF Data, ToggleMaintenance
  <2>3. Channels'
      BY <1>6 DEF Channels, ToggleMaintenance
  <2> QED BY <2>1, <2>2, <2>3, TypeParts
<1> QED BY <1>1, <1>2, <1>3, <1>4, <1>5, <1>6 DEF HostStep

(* The control plane.                                                      *)
LEMMA PublishType ==
    ASSUME TypeOK, NEW frame \in {"command", "cancel"}, Publish(frame)
    PROVE  TypeOK'
<1>1. downlink' \in Seq(Commands)
    BY DEF Publish, TypeOK, Commands
<1> QED BY <1>1, MaxAssumption DEF Publish, TypeOK, hostVars, rowVars, execVars, sessionVars

LEMMA ReceiveType ==
    ASSUME TypeOK, Receive
    PROVE  TypeOK'
<1>1. uplink' \in Seq(Frames) /\ Head(uplink) \in Frames
    BY UplinkTail DEF Receive, TypeOK
<1>2. downlink' \in Seq(Commands)
  <2>1. downlink' = downlink \/ downlink' = Append(downlink, "ack")
      BY DEF Receive
  <2>2. downlink \in Seq(Commands) /\ "ack" \in Commands
      BY DEF TypeOK, Commands
  <2>3. Append(downlink, "ack") \in Seq(Commands)
      BY <2>2
  <2> QED BY <2>1, <2>2, <2>3
<1>3. delivered' \subseteq Frames
    BY <1>1 DEF Receive, TypeOK
<1> QED BY <1>1, <1>2, <1>3 DEF Receive, TypeOK, hostVars, rowVars, execVars, sessionVars

LEMMA TypeStep == TypeOK /\ [SessionNext]_allVars => TypeOK'
<1> SUFFICES ASSUME TypeOK, [SessionNext]_allVars PROVE TypeOK'
    OBVIOUS
<1>1. CASE AgentStep /\ UNCHANGED envVars
    BY <1>1, ReaderType, ExecType, HookType DEF AgentStep
<1>2. CASE (Connect \/ Restart \/ HelperFinishes \/ ToggleMaintenance) /\ UNCHANGED envVars
    BY <1>2, HostType DEF HostStep, envVars, TypeOK
<1>3. CASE \E frame \in {"command", "cancel"} : Publish(frame)
    BY <1>3, PublishType
<1>4. CASE Receive
    BY <1>4, ReceiveType
<1>5. CASE Fault
  <2>1. faults' \in 0..MaxFaults
      BY <1>5, MaxAssumption DEF Fault, TypeOK
  <2> QED BY <1>5, <2>1, HostType DEF Fault, HostStep
<1>6. CASE UNCHANGED allVars
    BY <1>6 DEF allVars, vars, envVars, hostVars, rowVars, execVars, sessionVars, TypeOK
<1> QED BY <1>1, <1>2, <1>3, <1>4, <1>5, <1>6 DEF SessionNext

-----------------------------------------------------------------------------
(* The invariants that make the properties inductive                       *)

LEMMA InitInv == SessionInit => TypeOK /\ StartsOnce /\ CancelSeen /\ NoSuccess
<1> SUFFICES ASSUME SessionInit PROVE TypeOK /\ StartsOnce /\ CancelSeen /\ NoSuccess
    OBVIOUS
<1>1. TypeOK
    BY InitType
<1>2. StartsOnce
    BY DEF SessionInit, Init, StartsOnce, AtMostOneRun
<1>3. CancelSeen
    BY DEF SessionInit, Init, CancelSeen, CancelReachesEngine
<1>4. OnTheWay = {}
    BY DEF SessionInit, Init, OnTheWay
<1>5. NoSuccess
    BY <1>4 DEF SessionInit, Init, NoSuccess, FlushIdle, NoOut, Frame
<1> QED BY <1>1, <1>2, <1>3, <1>5

(* Which steps matter for an execution: the others leave it alone.         *)
LEMMA StartsOnceStep ==
    ASSUME TypeOK, StartsOnce, [SessionNext]_allVars
    PROVE  StartsOnce'
<1> USE DEF StartsOnce, AtMostOneRun, envVars, hostVars, rowVars, execVars, sessionVars
<1>0. runs \in Nat
    BY DEF TypeOK
<1>1. CASE ReaderStep
    BY <1>1 DEF ReaderStep, RefuseCommand, HandleCommand, HandleCommandIf, HandleCancel,
                HandleCancelWith, TrackerCancel, HandleResultAck
<1>2. CASE ExecStep
  <2>1. CASE StartEngine
      BY <1>0, <2>1 DEF StartEngine, Goroutine
  <2>2. CASE Finish
      BY <2>2 DEF Finish, LocalStatus
  <2>3. CASE \E wire \in {"success", "failed", "running"} : EngineReturns(wire)
      BY <2>3 DEF EngineReturns, Goroutine
  <2>4. CASE PathSizeBusy \/ GiveUpSlot
      BY <2>4 DEF PathSizeBusy, GiveUpSlot, Goroutine
  <2>5. CASE Register \/ CheckCancelled \/ WaitForSlot
      BY <2>5 DEF Register, CheckCancelled, CheckCancelledIf, WaitForSlot, Goroutine
  <2>6. CASE Detach \/ SealCancelledExecutor \/ Load \/ Report
      BY <2>6 DEF Detach, SealCancelledExecutor, Load, LoadAs, Report, Goroutine
  <2> QED BY <1>2, <2>1, <2>2, <2>3, <2>4, <2>5, <2>6 DEF ExecStep
<1>3. CASE HookStep \/ RepairStep \/ FlushStep \/ DeliveryDeadline
    BY <1>3 DEF HookStep, SetAckMode, ReattachRunning, RepairStep, RepairSnapshot, RepairScan,
                RepairWrite, RepairedStatus, FlushStep, FlushList, FlushListIf, FlushSend,
                DeliveryDeadline
<1>4. CASE HostStep
    BY <1>4 DEF HostStep, Connect, Disconnect, Crash, Restart, NeedsRepair, NeedsRepairOf,
                RepairedStatus, HelperFinishes, ToggleMaintenance
<1>5. CASE Receive \/ \E frame \in {"command", "cancel"} : Publish(frame)
    BY <1>5 DEF Receive, Publish
<1>6. CASE UNCHANGED allVars
    BY <1>6 DEF allVars, vars
<1> QED BY <1>1, <1>2, <1>3, <1>4, <1>5, <1>6 DEF SessionNext, AgentStep, HostStep, Fault

LEMMA CancelSeenStep ==
    ASSUME TypeOK, CancelSeen, [SessionNext]_allVars
    PROVE  CancelSeen'
<1> USE DEF CancelSeen, CancelReachesEngine, envVars, hostVars, rowVars, execVars, sessionVars
<1>1. CASE ReaderStep
  <2>1. CASE HandleCommand
      BY <2>1 DEF HandleCommand, HandleCommandIf
  <2>2. CASE HandleCancel
      BY <2>2 DEF HandleCancel, HandleCancelWith
  <2>3. CASE TrackerCancel
      BY <2>3 DEF TrackerCancel
  <2>4. CASE RefuseCommand \/ HandleResultAck
      BY <2>4 DEF RefuseCommand, HandleResultAck
  <2> QED BY <1>1, <2>1, <2>2, <2>3, <2>4 DEF ReaderStep
<1>2. CASE ExecStep
  <2>1. CASE StartEngine
      BY <2>1 DEF StartEngine, Goroutine
  <2>2. CASE Finish
      BY <2>2 DEF Finish
  <2>3. CASE \E wire \in {"success", "failed", "running"} : EngineReturns(wire)
      BY <2>3 DEF EngineReturns, Goroutine
  <2>4. CASE PathSizeBusy \/ GiveUpSlot
      BY <2>4 DEF PathSizeBusy, GiveUpSlot, Goroutine
  <2>5. CASE Register \/ WaitForSlot
      BY <2>5 DEF Register, WaitForSlot, Goroutine
  <2>6. CASE CheckCancelled
      BY <2>6 DEF CheckCancelled, CheckCancelledIf, Goroutine
  <2>7. CASE Detach \/ SealCancelledExecutor \/ Load \/ Report
      BY <2>7 DEF Detach, SealCancelledExecutor, Load, LoadAs, Report, Goroutine
  <2> QED BY <1>2, <2>1, <2>2, <2>3, <2>4, <2>5, <2>6, <2>7 DEF ExecStep
<1>3. CASE HookStep \/ RepairStep \/ FlushStep \/ DeliveryDeadline
    BY <1>3 DEF HookStep, SetAckMode, ReattachRunning, RepairStep, RepairSnapshot, RepairScan,
                RepairWrite, RepairedStatus, FlushStep, FlushList, FlushListIf, FlushSend,
                DeliveryDeadline
<1>4. CASE HostStep
    BY <1>4 DEF HostStep, Connect, Disconnect, Crash, Restart, NeedsRepair, NeedsRepairOf,
                RepairedStatus, HelperFinishes, ToggleMaintenance
<1>5. CASE Receive \/ \E frame \in {"command", "cancel"} : Publish(frame)
    BY <1>5 DEF Receive, Publish
<1>6. CASE UNCHANGED allVars
    BY <1>6 DEF allVars, vars
<1> QED BY <1>1, <1>2, <1>3, <1>4, <1>5, <1>6 DEF SessionNext, AgentStep, HostStep, Fault

-----------------------------------------------------------------------------
(* No success for a cancelled command                                      *)

Open == {"none", "running", "cancelled"}
Silent == \A f \in OnTheWay : f.wire # "success"

LEMMA SendSilent ==
    ASSUME TypeOK, Silent, NEW frame \in Frames, Send(frame), frame.wire # "success",
           delivered' = delivered
    PROVE  Silent'
<1>1. \A i \in DOMAIN uplink' : \/ uplink'[i] = frame
                                \/ \E j \in DOMAIN uplink : uplink'[i] = uplink[j]
    BY UplinkAppend DEF TypeOK
<1>2. \A f \in OnTheWay' : f = frame \/ f \in OnTheWay
    BY <1>1 DEF OnTheWay
<1> QED BY <1>2 DEF Silent

LEMMA SendResultSilent ==
    ASSUME TypeOK, Silent, NEW frame \in Frames, SendResult(frame), frame.wire # "success",
           delivered' = delivered
    PROVE  Silent'
<1>1. CASE Send(frame)
    BY <1>1, SendSilent
<1>2. CASE uplink' = uplink
    BY <1>2 DEF Silent, OnTheWay
<1> QED BY <1>1, <1>2 DEF SendResult

LEMMA ReceiveSilent ==
    ASSUME TypeOK, Silent, Receive
    PROVE  Silent'
<1>1. /\ 1 \in DOMAIN uplink /\ Head(uplink) = uplink[1]
      /\ \A i \in DOMAIN uplink' : \E j \in DOMAIN uplink : uplink'[i] = uplink[j]
    BY UplinkTail DEF Receive, TypeOK
<1>2. delivered' = delivered \/ delivered' = delivered \cup {Head(uplink)}
    BY DEF Receive
<1>3. OnTheWay' \subseteq OnTheWay
    BY <1>1, <1>2 DEF OnTheWay
<1> QED BY <1>3 DEF Silent

\* What is read from an open or cancelled row is not a success.
LEMMA OpenRowResult ==
    /\ status \in Open => RowResult.wire # "success"
    /\ Accepted.wire # "success" /\ Progress.wire # "success" /\ NoOut.wire # "success"
    /\ Frame("result", "failed", FALSE).wire # "success"
    /\ Frame("result", "abort", FALSE).wire # "success"
BY DEF Open, RowResult, WireStatus, Accepted, Progress, NoOut, Frame

\* No step leads back to an open or cancelled row.
LEMMA OpenBefore ==
    ASSUME [SessionNext]_allVars, status' \in Open
    PROVE  status \in Open
<1> USE DEF Open, envVars, hostVars, rowVars, execVars, sessionVars
<1>1. CASE ReaderStep
    BY <1>1 DEF ReaderStep, RefuseCommand, HandleCommand, HandleCommandIf, HandleCancel,
                HandleCancelWith, TrackerCancel, HandleResultAck
<1>2. CASE ExecStep
    BY <1>2 DEF ExecStep, Register, CheckCancelled, CheckCancelledIf, WaitForSlot, GiveUpSlot,
                PathSizeBusy, StartEngine, EngineReturns, Detach, Finish, LocalStatus,
                SealCancelledExecutor, Load, LoadAs, Report
<1>3. CASE HookStep \/ RepairStep \/ FlushStep \/ DeliveryDeadline
    BY <1>3 DEF HookStep, SetAckMode, ReattachRunning, RepairStep, RepairSnapshot, RepairScan,
                RepairWrite, RepairedStatus, FlushStep, FlushList, FlushListIf, FlushSend,
                DeliveryDeadline
<1>4. CASE HostStep
    BY <1>4 DEF HostStep, Connect, Disconnect, Crash, Restart, RepairedStatus, HelperFinishes,
                ToggleMaintenance
<1>5. CASE Receive \/ \E frame \in {"command", "cancel"} : Publish(frame)
    BY <1>5 DEF Receive, Publish
<1>6. CASE UNCHANGED allVars
    BY <1>6 DEF allVars, vars
<1> QED BY <1>1, <1>2, <1>3, <1>4, <1>5, <1>6 DEF SessionNext, AgentStep, HostStep, Fault

LEMMA NoSuccessStep ==
    ASSUME TypeOK, NoSuccess, [SessionNext]_allVars
    PROVE  NoSuccess'
<1> DEFINE Carried == exec \in {"detach", "report"} => out.wire # "success"
<1> SUFFICES ASSUME status' \in Open
             PROVE  Silent' /\ (flush.frame.wire # "success")' /\ Carried'
    BY DEF NoSuccess, Open, Silent
<1>0. status \in Open /\ Silent /\ flush.frame.wire # "success" /\ Carried
    BY OpenBefore DEF NoSuccess, Open, Silent
<1> USE DEF envVars, hostVars, rowVars, execVars, sessionVars
<1>1. CASE ReaderStep /\ UNCHANGED envVars
  <2>1. CASE RefuseCommand
      BY <1>0, <1>1, <2>1, RefusalType, OpenRowResult, SendSilent DEF RefuseCommand
  <2>2. CASE HandleCommand
    <3>1. \/ Send(Accepted)
          \/ SendResult(RowResult)
        BY <2>2 DEF HandleCommand, HandleCommandIf
    <3>2. Silent'
        BY <1>0, <1>1, <3>1, FrameType, OpenRowResult, SendSilent, SendResultSilent
    <3> QED BY <1>0, <2>2, <3>2 DEF HandleCommand, HandleCommandIf
  <2>3. CASE HandleCancel \/ TrackerCancel \/ HandleResultAck
      BY <1>0, <1>1, <2>3 DEF HandleCancel, HandleCancelWith, TrackerCancel, HandleResultAck,
                              Silent, OnTheWay
  <2> QED BY <1>1, <2>1, <2>2, <2>3 DEF ReaderStep
<1>2. CASE ExecStep /\ UNCHANGED envVars
  <2>1. CASE WaitForSlot
      BY <1>0, <1>2, <2>1, FrameType, OpenRowResult, SendSilent DEF WaitForSlot, Goroutine
  <2>2. CASE StartEngine
      BY <1>0, <1>2, <2>2, FrameType, OpenRowResult, SendSilent DEF StartEngine, Goroutine
  <2>3. CASE Report
      BY <1>0, <1>2, <2>3, SendResultSilent DEF Report, Goroutine, TypeOK
  <2>4. CASE Load
      BY <1>0, <1>2, <2>4, OpenRowResult DEF Load, LoadAs, Silent, OnTheWay
  <2>5. CASE GiveUpSlot \/ PathSizeBusy
      BY <1>0, <1>2, <2>5, OpenRowResult DEF GiveUpSlot, PathSizeBusy, Silent, OnTheWay
  <2>6. CASE \E wire \in {"success", "failed", "running"} : EngineReturns(wire)
      BY <1>0, <1>2, <2>6 DEF EngineReturns, Goroutine, Frame, Silent, OnTheWay
  <2>7. CASE Finish
      BY <1>0, <1>2, <2>7 DEF Finish, LocalStatus, Open, Silent, OnTheWay
  <2>8. CASE Register \/ CheckCancelled \/ Detach \/ SealCancelledExecutor
      BY <1>0, <1>2, <2>8 DEF Register, CheckCancelled, CheckCancelledIf, Detach,
                              SealCancelledExecutor, Goroutine, Silent, OnTheWay
  <2> QED BY <1>2, <2>1, <2>2, <2>3, <2>4, <2>5, <2>6, <2>7, <2>8 DEF ExecStep
<1>3. CASE (HookStep \/ RepairStep \/ FlushStep \/ DeliveryDeadline) /\ UNCHANGED envVars
  <2>1. CASE ReattachRunning
    <3>1. Send(Progress) \/ uplink' = uplink
        BY <2>1 DEF ReattachRunning
    <3>2. Silent'
        BY <1>0, <1>3, <3>1, FrameType, OpenRowResult, SendSilent DEF Silent, OnTheWay
    <3> QED BY <1>0, <2>1, <3>2 DEF ReattachRunning
  <2>2. CASE FlushList
      BY <1>0, <1>3, <2>2, OpenRowResult DEF FlushList, FlushListIf, Silent, OnTheWay
  <2>3. CASE FlushSend
    <3>1. Silent'
        BY <1>0, <1>3, <2>3, SendResultSilent DEF FlushSend, TypeOK
    <3> QED BY <1>0, <2>3, <3>1, OpenRowResult DEF FlushSend, FlushIdle
  <2>4. CASE SetAckMode \/ RepairStep \/ DeliveryDeadline
      BY <1>0, <1>3, <2>4 DEF SetAckMode, RepairStep, RepairSnapshot, RepairScan, RepairWrite,
                              DeliveryDeadline, Silent, OnTheWay
  <2> QED BY <1>3, <2>1, <2>2, <2>3, <2>4 DEF HookStep, FlushStep
<1>4. CASE HostStep /\ delivered' = delivered
  <2>1. CASE Disconnect \/ Crash
      BY <1>0, <1>4, <2>1, OpenRowResult DEF Disconnect, Crash, FlushIdle, Silent, OnTheWay
  <2>2. CASE Connect \/ Restart \/ HelperFinishes \/ ToggleMaintenance
      BY <1>0, <1>4, <2>2 DEF Connect, Restart, HelperFinishes, ToggleMaintenance, Silent, OnTheWay
  <2> QED BY <1>4, <2>1, <2>2 DEF HostStep
<1>5. CASE \E frame \in {"command", "cancel"} : Publish(frame)
    BY <1>0, <1>5 DEF Publish, Silent, OnTheWay
<1>6. CASE Receive
    BY <1>0, <1>6, ReceiveSilent DEF Receive
<1>7. CASE UNCHANGED allVars
    BY <1>0, <1>7 DEF allVars, vars, Silent, OnTheWay
<1> QED BY <1>1, <1>2, <1>3, <1>4, <1>5, <1>6, <1>7 DEF SessionNext, AgentStep, HostStep, Fault

-----------------------------------------------------------------------------
(* The theorems                                                            *)

IInv == TypeOK /\ StartsOnce /\ CancelSeen /\ NoSuccess

LEMMA InvariantHolds == SessionSpec => []IInv
<1>1. SessionInit => IInv
    BY InitInv DEF IInv
<1>2. IInv /\ [SessionNext]_allVars => IInv'
    BY TypeStep, StartsOnceStep, CancelSeenStep, NoSuccessStep DEF IInv
<1> QED BY <1>1, <1>2, PTL DEF SessionSpec

(* Whatever the host does, the Agent's state keeps its types (the handlers *)
(* of internal/wire and internal/controller).                              *)
THEOREM AgentTypeCorrect == SessionSpec => []TypeOK
<1>1. IInv => TypeOK
    BY DEF IInv
<1> QED BY <1>1, InvariantHolds, PTL

(* A command executes at most once: AcceptCommand starts an execution only *)
(* when it inserts the row, through any redelivery, reconnect or restart.  *)
THEOREM AgentRunsOnce == SessionSpec => []AtMostOneRun
<1>1. IInv => AtMostOneRun
    BY DEF IInv, StartsOnce
<1> QED BY <1>1, InvariantHolds, PTL

(* A persisted task.cancel reaches the execution: through the Tracker, or  *)
(* through the check that follows the registration in runTask.             *)
THEOREM AgentCancelReachesEngine == SessionSpec => []CancelReachesEngine
<1>1. IInv => CancelReachesEngine
    BY DEF IInv, CancelSeen
<1> QED BY <1>1, InvariantHolds, PTL

(* The Agent never reports a success for a cancelled command: the reported *)
(* result converges to the row that won (runTask, FlushUnreportedResults). *)
THEOREM AgentResultConverges == SessionSpec => []ConvergedResult
<1>1. IInv => ConvergedResult
    BY DEF IInv, NoSuccess, ConvergedResult, OnTheWay
<1> QED BY <1>1, InvariantHolds, PTL
=============================================================================
