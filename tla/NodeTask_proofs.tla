--------------------------- MODULE NodeTask_proofs ---------------------------
(***************************************************************************)
(* Theorems about NodeTask for every set of workers, every bound and every *)
(* class of commands.                                                      *)
(***************************************************************************)
EXTENDS NodeTask, TLAPS, FiniteSetTheorems

-----------------------------------------------------------------------------
(* Type correctness                                                        *)

(* The local state of a worker that does nothing is well typed.            *)
LEMMA IdleType == Idle \in WorkerState
BY DEF Idle, WorkerState, PCs

(* Publishing keeps the channel a sequence of frames.                      *)
LEMMA PublishType ==
    ASSUME downlink \in Seq(Frames), NEW frame \in Frames, Publish(frame)
    PROVE  downlink' \in Seq(Frames)
BY DEF Publish

(* A worker that leaves the delivery path keeps the types.                 *)
LEMMA LeaveType ==
    ASSUME TypeOK, NEW w \in Worker, Leave(w)
    PROVE  worker' \in [Worker -> WorkerState] /\ holder' \in Worker \cup {NoWorker}
BY IdleType DEF TypeOK, Leave

(* A worker that moves on keeps the types.                                 *)
LEMMA GotoType ==
    ASSUME TypeOK, NEW w \in Worker, NEW pc \in PCs, Goto(w, pc)
    PROVE  worker' \in [Worker -> WorkerState]
BY DEF TypeOK, Goto, WorkerState

(* The selection of the delivery protocol writes keys of the result only.  *)
LEMMA SelectProtocolType ==
    ASSUME TypeOK, NEW capable \in BOOLEAN, SelectProtocol(capable)
    PROVE  result' \in SUBSET Keys /\ overdue' \in BOOLEAN
BY DEF TypeOK, SelectProtocol, Keys, Protocols

(* Removing the delivery runtime state leaves keys of the result.          *)
LEMMA WithoutDeliveryStateType ==
    ASSUME NEW keys \in SUBSET Keys
    PROVE  WithoutDeliveryState(keys) \in SUBSET Keys
BY DEF WithoutDeliveryState

(* The head of deliver_agent_task keeps the types.                         *)
LEMMA EnterDeliveryType ==
    ASSUME TypeOK, NEW w \in Worker, NEW capable \in BOOLEAN, NEW sweep \in BOOLEAN,
           EnterDelivery(w, capable, sweep)
    PROVE  TypeOK'
<1>1. result' \in SUBSET Keys /\ overdue' \in BOOLEAN
    BY SelectProtocolType DEF EnterDelivery, EnterDeliveryAs
<1>2. worker' \in [Worker -> WorkerState] /\ holder' \in Worker \cup {NoWorker}
    <2>1. CASE Leave(w)
        BY <2>1, LeaveType
    <2>2. CASE ~Leave(w)
        <3>1. UsesAck(capable) \in BOOLEAN
            BY DEF UsesAck, AckDurable
        <3>2. worker' = [worker EXCEPT ![w].pc = "route", ![w].ack = UsesAck(capable),
                                       ![w].seen = attempts]
              /\ holder' = IF Managed THEN w ELSE holder
            BY <2>2 DEF EnterDelivery, EnterDeliveryAs
        <3> DEFINE entered == [worker[w] EXCEPT !.pc = "route", !.ack = UsesAck(capable),
                                                !.seen = attempts]
        <3>3. entered \in WorkerState
            BY <3>1 DEF TypeOK, WorkerState, PCs
        <3>4. worker' = [worker EXCEPT ![w] = entered]
            BY <3>2 DEF TypeOK, WorkerState
        <3> QED BY <3>2, <3>3, <3>4 DEF TypeOK
    <2> QED BY <2>1, <2>2
<1> QED BY <1>1, <1>2 DEF TypeOK, EnterDelivery, EnterDeliveryAs

(* complete_task keeps the types.                                          *)
LEMMA CompleteTaskType ==
    ASSUME TypeOK, NEW wire \in WireStatuses, NEW reported \in SUBSET Keys,
           NEW sameError \in BOOLEAN, CompleteTask(wire, reported, sameError)
    PROVE  TypeOK'
<1> DEFINE evidence == StopEvidence(wire, reported)
           incoming == IF evidence THEN "canceled" ELSE wire
           keys == IF evidence THEN result \cup reported ELSE reported
<1>1. incoming \in {"success", "failed", "abort", "canceled", "running"}
    BY DEF WireStatuses
<1>2. keys \in SUBSET Keys
    BY DEF TypeOK
<1>3. incoming # "running" => TerminalOf(incoming) \in Terminal
    BY <1>1 DEF TerminalOf, Terminal
<1>4. /\ status' \in Active \cup Terminal
      /\ accepted' \in BOOLEAN
      /\ overdue' \in BOOLEAN
      /\ result' \in SUBSET Keys
    <2> HIDE DEF incoming, keys
    <2>1. \/ /\ result' = result \cup {"late_result"}
             /\ UNCHANGED <<status, accepted, overdue>>
          \/ UNCHANGED <<status, accepted, overdue, result>>
          \/ /\ accepted' = TRUE
             /\ IF incoming = "running"
                THEN /\ status' = "running"
                     /\ result' = WithoutDeliveryState(result) \cup keys
                     /\ overdue' = (overdue /\ "local_detached" \notin result')
                ELSE /\ status' = TerminalOf(incoming)
                     /\ result' = (IF keys = {} THEN WithoutDeliveryState(result) ELSE keys)
                                  \cup (IF Lifecycle THEN {"lifecycle_terminal_sealed"} ELSE {})
                     /\ UNCHANGED overdue
        BY DEF CompleteTask, incoming, keys
    <2>2. WithoutDeliveryState(result) \in SUBSET Keys
        BY WithoutDeliveryStateType DEF TypeOK
    <2> QED BY <1>2, <1>3, <2>1, <2>2 DEF TypeOK, Keys, Active
<1> QED BY <1>4 DEF CompleteTask, TypeOK

(* What an Agent reports consists of keys of the result.                   *)
LEMMA ResultKeysType == \A keys \in ResultKeys : keys \in SUBSET Keys
BY DEF ResultKeys, Keys

(* The handler of task.result keeps the types.                             *)
LEMMA HandleResultType ==
    ASSUME TypeOK, NEW wire \in WireStatuses, NEW reported \in ResultKeys,
           NEW sameError \in BOOLEAN, HandleResult(wire, reported, sameError)
    PROVE  TypeOK'
<1> DEFINE merged == IF Lifecycle /\ wire \notin {"running", "canceled"}
                     THEN result \cup reported ELSE reported
           evidenceOnly == Lifecycle /\ status \in Active /\ wire = "success"
                           /\ "local_detached" \in merged
           passed == IF evidenceOnly THEN "running" ELSE wire
<1>1. merged \in SUBSET Keys
    BY ResultKeysType DEF TypeOK
<1>2. passed \in WireStatuses
    BY DEF WireStatuses
<1>3. CompleteTask(passed, merged, sameError)
    BY DEF HandleResult
<1> HIDE DEF merged, passed
<1> QED BY <1>1, <1>2, <1>3, CompleteTaskType

(* Every step of a delivering or sweeping worker keeps the types.          *)
LEMMA WorkerStepType ==
    ASSUME TypeOK, NEW w \in Worker, WorkerStep(w)
    PROVE  TypeOK'
<1>1. ASSUME NEW capable \in BOOLEAN, Deliver(w, capable) PROVE TypeOK'
    BY <1>1, EnterDeliveryType DEF Deliver
<1>2. ASSUME NEW capable \in BOOLEAN, SweepRetry(w, capable) PROVE TypeOK'
    <2>1. CASE EnterDelivery(w, capable, TRUE)
        BY <2>1, EnterDeliveryType
    <2>2. CASE Leave(w) /\ UNCHANGED <<rowVars, downlink>>
        BY <2>2, LeaveType DEF TypeOK, rowVars
    <2> QED BY <1>2, <2>1, <2>2 DEF SweepRetry
<1>3. ASSUME NEW capable \in BOOLEAN, NEW online \in BOOLEAN, SweepDecide(w, capable, online)
      PROVE TypeOK'
    <2>1. worker' \in [Worker -> WorkerState]
        <3>1. CASE worker' = [worker EXCEPT ![w] = Idle]
            BY <3>1, IdleType DEF TypeOK
        <3>2. CASE Goto(w, "expire") \/ Goto(w, "retry")
            BY <3>2, GotoType DEF PCs
        <3>3. \/ worker' = [worker EXCEPT ![w] = Idle]
              \/ Goto(w, "expire")
              \/ Goto(w, "retry")
            BY <1>3 DEF SweepDecide
        <3> QED BY <3>1, <3>2, <3>3
    <2>2. result' \in SUBSET Keys /\ overdue' \in BOOLEAN
        BY <1>3, SelectProtocolType DEF SweepDecide, TypeOK
    <2>3. UNCHANGED <<kind, status, accepted, dispatched, attempts, cancelRequested, rested,
                      holder, downlink>>
        BY <1>3 DEF SweepDecide
    <2> QED BY <2>1, <2>2, <2>3 DEF TypeOK
<1>4. CASE DeferDelivery(w)
    BY <1>4, LeaveType DEF DeferDelivery, TypeOK, rowVars
<1>5. CASE FailDelivery(w)
    <2>1. downlink' \in Seq(Frames)
        BY <1>5, PublishType DEF FailDelivery, TypeOK, Frames
    <2>2. status' \in Active \cup Terminal /\ result' \in SUBSET Keys
        BY <1>5, WithoutDeliveryStateType DEF FailDelivery, TypeOK, Terminal
    <2> QED BY <1>5, <2>1, <2>2, LeaveType DEF FailDelivery, TypeOK
<1>6. CASE Claim(w)
    <2>1. CASE Leave(w) /\ UNCHANGED <<attempts, dispatched, rested>>
        BY <1>6, <2>1, LeaveType DEF Claim, ClaimIf, TypeOK
    <2>2. CASE attempts' = attempts + 1 /\ dispatched' = TRUE /\ rested' = FALSE
               /\ Goto(w, "send") /\ UNCHANGED holder
        <3>1. worker' \in [Worker -> WorkerState]
            BY <2>2, GotoType DEF PCs
        <3>2. UNCHANGED <<kind, status, accepted, cancelRequested, result, overdue, downlink>>
            BY <1>6 DEF Claim, ClaimIf
        <3>3. attempts' \in Nat
            BY <2>2 DEF TypeOK
        <3> QED BY <2>2, <3>1, <3>2, <3>3 DEF TypeOK
    <2> QED BY <1>6, <2>1, <2>2 DEF Claim, ClaimIf
<1>7. CASE PublishCommand(w)
    <2>1. downlink' \in Seq(Frames)
        BY <1>7, PublishType DEF PublishCommand, TypeOK, Frames
    <2>2. worker' \in [Worker -> WorkerState] /\ holder' \in Worker \cup {NoWorker}
        BY <1>7, LeaveType, GotoType DEF PublishCommand, TypeOK, PCs
    <2> QED BY <1>7, <2>1, <2>2 DEF PublishCommand, TypeOK, rowVars
<1>8. CASE RecordLegacy(w)
    <2>1. worker' \in [Worker -> WorkerState] /\ holder' \in Worker \cup {NoWorker}
        BY <1>8, LeaveType DEF RecordLegacy, RecordLegacyIf
    <2>2. /\ status' \in Active \cup Terminal /\ dispatched' \in BOOLEAN
          /\ overdue' \in BOOLEAN /\ rested' \in BOOLEAN
        BY <1>8 DEF RecordLegacy, RecordLegacyIf, TypeOK, Active
    <2>3. attempts' \in Nat
        BY <1>8 DEF RecordLegacy, RecordLegacyIf, TypeOK
    <2>4. result' \in SUBSET Keys
        BY <1>8, WithoutDeliveryStateType DEF RecordLegacy, RecordLegacyIf, TypeOK
    <2>5. UNCHANGED <<kind, accepted, cancelRequested, downlink>>
        BY <1>8 DEF RecordLegacy, RecordLegacyIf
    <2> QED BY <2>1, <2>2, <2>3, <2>4, <2>5 DEF TypeOK
<1>9. CASE SweepSelect(w)
    BY <1>9 DEF SweepSelect, TypeOK, Idle, WorkerState, PCs, rowVars
<1>10. CASE TimeoutUnaccepted(w)
    <2>1. downlink' \in Seq(Frames)
        BY <1>10, PublishType DEF TimeoutUnaccepted, TypeOK, Frames
    <2> QED BY <1>10, <2>1, LeaveType DEF TimeoutUnaccepted, TypeOK, Terminal, Keys
<1>11. CASE SeeTimedOutBackup(w)
    BY <1>11, GotoType DEF SeeTimedOutBackup, TypeOK, PCs, rowVars
<1>12. CASE ReattachBackup(w)
    BY <1>12, LeaveType DEF ReattachBackup, TypeOK, Active
<1>13. CASE WorkerCrash(w)
    BY <1>13, LeaveType DEF WorkerCrash, TypeOK, rowVars
<1> QED BY <1>1, <1>2, <1>3, <1>4, <1>5, <1>6, <1>7, <1>8, <1>9, <1>10, <1>11, <1>12, <1>13
        DEF WorkerStep

(* Every frame of the Agent keeps the types.                               *)
LEMMA FrameStepType ==
    ASSUME TypeOK, FrameStep
    PROVE  TypeOK'
<1>1. CASE AcceptTask
    BY <1>1, WithoutDeliveryStateType DEF AcceptTask, TypeOK, Active
<1>2. ASSUME NEW keys \in SUBSET Keys, RecordProgress(keys) PROVE TypeOK'
    BY <1>2, WithoutDeliveryStateType DEF RecordProgress, TypeOK, Active
<1>3. ASSUME NEW wire \in WireStatuses, NEW keys \in ResultKeys, NEW sameError \in BOOLEAN,
             HandleResult(wire, keys, sameError)
      PROVE TypeOK'
    BY <1>3, HandleResultType
<1>4. {} \in SUBSET Keys /\ {"local_detached"} \in SUBSET Keys
    BY DEF Keys
<1> QED BY <1>1, <1>2, <1>3, <1>4 DEF FrameStep

(* Cancellation, the watchdog and the other sweeps keep the types.         *)
LEMMA SweepStepType ==
    ASSUME TypeOK, SweepStep
    PROVE  TypeOK'
<1>1. ASSUME Publish("cancel") PROVE downlink' \in Seq(Frames)
    BY <1>1, PublishType DEF TypeOK, Frames
<1>2. CASE CancelTask
    BY <1>1, <1>2 DEF CancelTask, TypeOK, Terminal, Keys
<1>3. CASE CancelRolledBack
    BY <1>1, <1>3 DEF CancelRolledBack, TypeOK, rowVars
<1>4. CASE SealCancel
    BY <1>4 DEF SealCancel, TypeOK, Terminal, Keys
<1>5. ASSUME NEW capable \in BOOLEAN, WatchdogTimeout(capable) PROVE TypeOK'
    BY <1>1, <1>5 DEF WatchdogTimeout, TypeOK, Terminal
<1>6. ASSUME NEW capable \in BOOLEAN, NEW queued \in BOOLEAN, WatchdogDefer(capable, queued)
      PROVE TypeOK'
    BY <1>6 DEF WatchdogDefer, TypeOK
<1>7. CASE FailRow
    BY <1>7 DEF FailRow, TypeOK, Terminal
<1>8. ASSUME NEW verdict \in {"running", "success", "failed"}, CoordinatorDecides(verdict) PROVE TypeOK'
    <2>1. verdict \in WireStatuses /\ result \in SUBSET Keys
        BY <1>8 DEF CoordinatorDecides, Detached, WireStatuses, TypeOK
    <2> QED BY <1>8, <2>1, CompleteTaskType DEF CoordinatorDecides
<1>9. FailOffline \/ FailActiveForNode => FailRow
    BY DEF FailOffline, FailActiveForNode
<1> QED BY <1>2, <1>3, <1>4, <1>5, <1>6, <1>7, <1>8, <1>9 DEF SweepStep

(* Every step keeps the types.                                             *)
LEMMA TypeOKStep ==
    ASSUME TypeOK, [Next]_vars
    PROVE  TypeOK'
<1>1. ASSUME NEW w \in Worker, WorkerStep(w) PROVE TypeOK'
    BY <1>1, WorkerStepType
<1>2. CASE TimeStep
    BY <1>2 DEF TimeStep, DeadlinePasses, AckWaitPasses, TypeOK
<1>3. CASE UNCHANGED vars
    BY <1>3 DEF vars, rowVars, TypeOK
<1> QED BY <1>1, <1>2, <1>3, FrameStepType, SweepStepType DEF Next

(* A row that was just created is well typed.                              *)
LEMMA TypeOKInit == Init => TypeOK
<1> SUFFICES ASSUME Init PROVE TypeOK
    OBVIOUS
<1>1. kind \in AllKinds
    BY KindAssumption DEF Init
<1>2. worker \in [Worker -> WorkerState]
    BY IdleType DEF Init
<1>3. result \in SUBSET Keys /\ attempts \in Nat /\ downlink \in Seq(Frames)
    BY DEF Init
<1> QED BY <1>1, <1>2, <1>3 DEF Init, TypeOK, Active

(* Every variable always holds a value of its type.                        *)
THEOREM TypeCorrect == Spec => []TypeOK
BY TypeOKInit, TypeOKStep, PTL DEF Spec

-----------------------------------------------------------------------------
(* Final decisions                                                         *)

(* Without the reattachment of backups no worker is about to save a row it *)
(* read before.                                                            *)
NoReattach == \A w \in Worker : worker[w].pc # "reattach"

(* The row of a command that a stale save may move: a backup, when the     *)
(* reattachment is on.                                                     *)
Reattaches == BackupReattach /\ kind = "backup"

Final == status \in {"success", "canceled"} \/ SealedReturn

(* A worker that leaves becomes idle and moves no other worker.            *)
LEMMA LeaveWorker ==
    ASSUME TypeOK, NEW w \in Worker, Leave(w)
    PROVE  worker'[w] = Idle /\ \A v \in Worker \ {w} : worker'[v] = worker[v]
BY DEF TypeOK, Leave

(* A worker that moves on changes its own place only.                      *)
LEMMA GotoWorker ==
    ASSUME TypeOK, NEW w \in Worker, NEW pc \in PCs, Goto(w, pc)
    PROVE  /\ worker'[w] = [worker[w] EXCEPT !.pc = pc]
           /\ worker'[w].pc = pc
           /\ worker'[w].ack = worker[w].ack
           /\ worker'[w].seen = worker[w].seen
           /\ worker'[w].sweep = worker[w].sweep
           /\ \A v \in Worker \ {w} : worker'[v] = worker[v]
BY DEF TypeOK, Goto, WorkerState

(* complete_task does not move a final row.                                *)
LEMMA CompleteTaskFinal ==
    ASSUME Final, NEW wire \in WireStatuses, NEW reported, NEW sameError,
           CompleteTask(wire, reported, sameError)
    PROVE  status' = status
<1> DEFINE evidence == StopEvidence(wire, reported)
           incoming == IF evidence THEN "canceled" ELSE wire
           keys == IF evidence THEN result \cup reported ELSE reported
<1>1. status' = status \/ (~IgnoresResult(incoming, keys, sameError)
                           /\ IF incoming = "running" THEN status' = "running"
                              ELSE status' = TerminalOf(incoming))
    BY DEF CompleteTask
<1> HIDE DEF incoming, keys
<1>2. CASE SealedReturn
    BY <1>1, <1>2 DEF IgnoresResult
<1>3. CASE status = "success" \/ status = "canceled"
    <2>1. CASE incoming = status
        BY <1>1, <1>3, <2>1 DEF TerminalOf
    <2>2. CASE incoming # status
        BY <1>1, <1>3, <2>2 DEF IgnoresResult, AbsorbingReturn
    <2> QED BY <2>1, <2>2
<1> QED BY <1>2, <1>3 DEF Final

(* A task.result frame does not move a final row.                          *)
LEMMA HandleResultFinal ==
    ASSUME Final, NEW wire \in WireStatuses, NEW reported, NEW sameError,
           HandleResult(wire, reported, sameError)
    PROVE  status' = status
<1>1. PICK merged : CompleteTask(wire, merged, sameError)
    BY DEF HandleResult, Final, SealedReturn, Terminal, Active
<1> QED BY <1>1, CompleteTaskFinal

(* No writer of the row moves it once it is final: each one tests the row  *)
(* it writes, except the reattachment.                                     *)
LEMMA FinalKept ==
    ASSUME Final, NoReattach, [Next]_vars
    PROVE  status' = status
<1>1. status \in Terminal /\ status \notin Active /\ ~Undelivered
    BY DEF Final, SealedReturn, Terminal, Active, Undelivered
<1>2. ASSUME NEW w \in Worker, WorkerStep(w) PROVE status' = status
    <2>1. ASSUME NEW capable \in BOOLEAN, NEW sweep \in BOOLEAN, EnterDelivery(w, capable, sweep)
          PROVE  status' = status
        BY <2>1 DEF EnterDelivery, EnterDeliveryAs
    <2>2. ASSUME NEW capable \in BOOLEAN,
                 Deliver(w, capable) \/ SweepRetry(w, capable)
          PROVE  status' = status
        BY <2>1, <2>2 DEF Deliver, SweepRetry, rowVars
    <2>3. ASSUME NEW capable \in BOOLEAN, NEW online \in BOOLEAN, SweepDecide(w, capable, online)
          PROVE  status' = status
        BY <2>3 DEF SweepDecide
    <2>4. CASE FailDelivery(w) \/ TimeoutUnaccepted(w) \/ RecordLegacy(w)
        BY <1>1, <2>4 DEF FailDelivery, TimeoutUnaccepted, RecordLegacy, RecordLegacyIf
    <2>5. CASE DeferDelivery(w) \/ PublishCommand(w) \/ SweepSelect(w) \/ SeeTimedOutBackup(w)
               \/ WorkerCrash(w)
        BY <2>5 DEF DeferDelivery, PublishCommand, SweepSelect, SeeTimedOutBackup, WorkerCrash,
                    rowVars
    <2>6. CASE Claim(w)
        BY <2>6 DEF Claim, ClaimIf
    <2>7. ~ReattachBackup(w)
        BY DEF NoReattach, ReattachBackup
    <2> QED BY <1>2, <2>2, <2>3, <2>4, <2>5, <2>6, <2>7 DEF WorkerStep
<1>3. CASE FrameStep
    BY <1>1, <1>3, HandleResultFinal DEF FrameStep, AcceptTask, RecordProgress
<1>4. CASE SweepStep
    <2>1. CASE CancelRolledBack
        BY <2>1 DEF CancelRolledBack, rowVars
    <2>2. ASSUME NEW capable \in BOOLEAN, NEW queued \in BOOLEAN, WatchdogDefer(capable, queued)
          PROVE  status' = status
        BY <2>2 DEF WatchdogDefer
    <2>3. ASSUME NEW capable \in BOOLEAN PROVE ~WatchdogTimeout(capable)
        BY <1>1 DEF WatchdogTimeout, WatchdogApplies, WatchdogAppliesUnless
    <2>4. ~CancelTask /\ ~SealCancel /\ ~FailRow
        BY <1>1 DEF CancelTask, SealCancel, FailRow
    <2>5. ASSUME NEW verdict PROVE ~CoordinatorDecides(verdict)
        BY <1>1 DEF CoordinatorDecides
    <2> QED BY <1>4, <2>1, <2>2, <2>3, <2>4, <2>5
            DEF SweepStep, FailOffline, FailActiveForNode
<1>5. CASE TimeStep
    BY <1>5 DEF TimeStep, DeadlinePasses, AckWaitPasses
<1>6. CASE UNCHANGED vars
    BY <1>6 DEF vars, rowVars
<1> QED BY <1>2, <1>3, <1>4, <1>5, <1>6 DEF Next

(* What is not a step of a worker leaves the workers, the lock and the     *)
(* attempts alone.                                                         *)
LEMMA OtherSteps ==
    ASSUME FrameStep \/ SweepStep \/ TimeStep
    PROVE  UNCHANGED <<kind, attempts, worker, holder>>
<1>1. ASSUME NEW wire, NEW reported, NEW sameError, CompleteTask(wire, reported, sameError)
      PROVE  UNCHANGED <<kind, attempts, worker, holder>>
    BY <1>1 DEF CompleteTask
<1>2. ASSUME NEW wire, NEW reported, NEW sameError, HandleResult(wire, reported, sameError)
      PROVE  UNCHANGED <<kind, attempts, worker, holder>>
    <2>1. PICK passed, merged : CompleteTask(passed, merged, sameError)
        BY <1>2 DEF HandleResult
    <2> QED BY <1>1, <2>1
<1>3. ASSUME NEW verdict, CoordinatorDecides(verdict)
      PROVE  UNCHANGED <<kind, attempts, worker, holder>>
    BY <1>1, <1>3 DEF CoordinatorDecides
<1>4. CASE FrameStep
    BY <1>2, <1>4 DEF FrameStep, AcceptTask, RecordProgress
<1>5. CASE SweepStep
    BY <1>3, <1>5 DEF SweepStep, CancelTask, CancelRolledBack, SealCancel, WatchdogTimeout,
                      WatchdogDefer, FailOffline, FailActiveForNode, FailRow, rowVars
<1>6. CASE TimeStep
    BY <1>6 DEF TimeStep, DeadlinePasses, AckWaitPasses
<1> QED BY <1>4, <1>5, <1>6

(* Without the reattachment no worker ever comes to hold a timed-out backup. *)
LEMMA NoReattachStep ==
    ASSUME TypeOK, NoReattach, ~Reattaches, [Next]_vars
    PROVE  NoReattach'
<1>1. ASSUME NEW w \in Worker, WorkerStep(w) PROVE NoReattach'
    <2>1. SUFFICES worker'[w].pc # "reattach" /\ \A v \in Worker \ {w} : worker'[v] = worker[v]
        BY DEF NoReattach
    <2>2. ASSUME Leave(w) PROVE worker'[w].pc # "reattach"
                                /\ \A v \in Worker \ {w} : worker'[v] = worker[v]
        BY <2>2, LeaveWorker DEF Idle
    <2>3. ASSUME NEW pc \in PCs, Goto(w, pc), pc # "reattach"
          PROVE  worker'[w].pc # "reattach" /\ \A v \in Worker \ {w} : worker'[v] = worker[v]
        BY <2>3, GotoWorker
    <2>4. ASSUME UNCHANGED worker
          PROVE  worker'[w].pc # "reattach" /\ \A v \in Worker \ {w} : worker'[v] = worker[v]
        BY <2>4 DEF NoReattach
    <2>5. ASSUME NEW capable \in BOOLEAN, NEW sweep \in BOOLEAN, EnterDelivery(w, capable, sweep)
          PROVE  worker'[w].pc # "reattach" /\ \A v \in Worker \ {w} : worker'[v] = worker[v]
        <3>1. CASE Leave(w)
            BY <2>2, <3>1
        <3>2. CASE ~Leave(w)
            BY <2>5, <3>2 DEF EnterDelivery, EnterDeliveryAs, TypeOK, WorkerState
        <3> QED BY <3>1, <3>2
    <2>6. ASSUME NEW capable \in BOOLEAN,
                 Deliver(w, capable) \/ SweepRetry(w, capable)
          PROVE  worker'[w].pc # "reattach" /\ \A v \in Worker \ {w} : worker'[v] = worker[v]
        BY <2>2, <2>5, <2>6 DEF Deliver, SweepRetry
    <2>7. ASSUME NEW capable \in BOOLEAN, NEW online \in BOOLEAN, SweepDecide(w, capable, online)
          PROVE  worker'[w].pc # "reattach" /\ \A v \in Worker \ {w} : worker'[v] = worker[v]
        <3>1. worker' = [worker EXCEPT ![w] = Idle] \/ Goto(w, "expire") \/ Goto(w, "retry")
            BY <2>7 DEF SweepDecide
        <3>2. CASE worker' = [worker EXCEPT ![w] = Idle]
            BY <3>2 DEF TypeOK, Idle
        <3> QED BY <2>3, <3>1, <3>2 DEF PCs
    <2>8. CASE Claim(w)
        BY <2>2, <2>3, <2>8 DEF Claim, ClaimIf, PCs
    <2>9. CASE PublishCommand(w)
        BY <2>2, <2>3, <2>9 DEF PublishCommand, PCs
    <2>10. CASE SweepSelect(w)
        BY <2>10 DEF SweepSelect, TypeOK, Idle
    <2>11. ~SeeTimedOutBackup(w)
        BY DEF SeeTimedOutBackup, Reattaches
    <2>12. CASE DeferDelivery(w) \/ FailDelivery(w) \/ RecordLegacy(w) \/ TimeoutUnaccepted(w)
                \/ ReattachBackup(w) \/ WorkerCrash(w)
        BY <2>2, <2>12 DEF DeferDelivery, FailDelivery, RecordLegacy, RecordLegacyIf,
                           TimeoutUnaccepted, ReattachBackup, WorkerCrash
    <2> QED BY <1>1, <2>6, <2>7, <2>8, <2>9, <2>10, <2>11, <2>12 DEF WorkerStep
<1>2. CASE FrameStep \/ SweepStep \/ TimeStep
    BY <1>2, OtherSteps DEF NoReattach
<1>3. CASE UNCHANGED vars
    BY <1>3 DEF vars, NoReattach
<1> QED BY <1>1, <1>2, <1>3 DEF Next

(* The class of a command is never written.                                *)
LEMMA KindKept ==
    ASSUME [Next]_vars
    PROVE  kind' = kind
<1>1. ASSUME NEW w \in Worker, WorkerStep(w) PROVE kind' = kind
    <2>1. ASSUME NEW capable, NEW sweep, EnterDelivery(w, capable, sweep) PROVE kind' = kind
        BY <2>1 DEF EnterDelivery, EnterDeliveryAs
    <2> QED BY <1>1, <2>1
            DEF WorkerStep, Deliver, SweepRetry, SweepDecide, DeferDelivery,
                FailDelivery, Claim, ClaimIf, PublishCommand, RecordLegacy, RecordLegacyIf,
                SweepSelect, TimeoutUnaccepted, SeeTimedOutBackup, ReattachBackup, WorkerCrash,
                rowVars
<1>2. CASE UNCHANGED vars
    BY <1>2 DEF vars, rowVars
<1> QED BY <1>1, <1>2, OtherSteps DEF Next

(* Unless it is a backup that may be reattached, the success and the       *)
(* cancellation of a command are final whatever the workers, the sweeps    *)
(* and late frames do (the guards of complete_task, of the claim, of the   *)
(* delivery timeouts and of the watchdog).                                 *)
THEOREM DecisionsAreFinal == Spec /\ ~Reattaches => DecidedIsFinal
<1>1. Init => TypeOK /\ NoReattach
    BY TypeOKInit DEF Init, NoReattach, Idle
<1>2. TypeOK /\ NoReattach /\ ~Reattaches /\ [Next]_vars => (TypeOK /\ NoReattach /\ ~Reattaches)'
    BY TypeOKStep, NoReattachStep, KindKept DEF Reattaches
<1>3. TypeOK /\ NoReattach /\ [Next]_vars
        => [(status \in {"success", "canceled"}) => (status' = status)]_vars
    BY FinalKept DEF Final
<1> QED BY <1>1, <1>2, <1>3, PTL DEF Spec, DecidedIsFinal

(* Under the same condition no late frame and no sweep moves a command     *)
(* whose delivery timeout was sealed (delivery_timeout_sealed in           *)
(* complete_task).                                                         *)
THEOREM SealedTimeoutsAreFinal == Spec /\ ~Reattaches => SealedTimeoutIsFinal
<1>1. Init => TypeOK /\ NoReattach
    BY TypeOKInit DEF Init, NoReattach, Idle
<1>2. TypeOK /\ NoReattach /\ ~Reattaches /\ [Next]_vars => (TypeOK /\ NoReattach /\ ~Reattaches)'
    BY TypeOKStep, NoReattachStep, KindKept DEF Reattaches
<1>3. TypeOK /\ NoReattach /\ [Next]_vars => [SealedReturn => (status' = status)]_vars
    BY FinalKept DEF Final
<1> QED BY <1>1, <1>2, <1>3, PTL DEF Spec, SealedTimeoutIsFinal

-----------------------------------------------------------------------------
(* Managed restores are not overtaken by their cancellation                *)

(* A managed restore is delivered under the lock of its row: while a       *)
(* worker is at it the row is pending, and the channel of a pending row    *)
(* holds no cancel.                                                        *)
LockInv ==
    Managed =>
        /\ \A w \in Worker :
            /\ worker[w].pc \in {"idle", "route", "sent"}
            /\ ~worker[w].ack
            /\ worker[w].pc # "idle" => holder = w /\ status = "pending"
        /\ status = "pending" => \A i \in DOMAIN downlink : downlink[i] = "command"
        /\ CancelNotOvertaken

(* Publishing a cancel never breaks the order, publishing a command does   *)
(* not when only commands were published before.                           *)
LEMMA PublishOrder ==
    ASSUME downlink \in Seq(Frames), NEW frame \in Frames, Publish(frame), kind' = kind,
           CancelNotOvertaken,
           frame = "command" => \A i \in DOMAIN downlink : downlink[i] = "command"
    PROVE  CancelNotOvertaken'
<1>1. CASE UNCHANGED downlink
    BY <1>1 DEF CancelNotOvertaken, Managed
<1>2. CASE downlink' = Append(downlink, frame)
    <2> SUFFICES ASSUME Managed, NEW i \in DOMAIN downlink', NEW j \in DOMAIN downlink', i < j,
                        downlink'[i] = "cancel", downlink'[j] = "command"
                 PROVE  FALSE
        BY DEF CancelNotOvertaken, Managed
    <2>1. /\ DOMAIN downlink = 1..Len(downlink)
          /\ DOMAIN downlink' = 1..Len(downlink) + 1
          /\ Len(downlink) \in Nat
        BY <1>2
    <2>2. i \in DOMAIN downlink /\ downlink'[i] = downlink[i]
        BY <1>2, <2>1
    <2>3. CASE j \in DOMAIN downlink
        <3>1. downlink'[j] = downlink[j]
            BY <1>2, <2>1, <2>3
        <3> QED BY <2>2, <2>3, <3>1 DEF CancelNotOvertaken, Managed
    <2>4. CASE j = Len(downlink) + 1
        <3>1. frame = "command"
            BY <1>2, <2>1, <2>4
        <3> QED BY <2>2, <3>1
    <2> QED BY <2>1, <2>3, <2>4
<1> QED BY <1>1, <1>2 DEF Publish

(* A command published after commands leaves a channel of commands.        *)
LEMMA PublishCommandOnly ==
    ASSUME downlink \in Seq(Frames), Publish("command"),
           \A i \in DOMAIN downlink : downlink[i] = "command"
    PROVE  \A i \in DOMAIN downlink' : downlink'[i] = "command"
BY DEF Publish

(* A delivering worker of a managed restore acts under the row lock.       *)
LEMMA LockInvWorker ==
    ASSUME TypeOK, LockInv, Managed, NEW w \in Worker, WorkerStep(w)
    PROVE  LockInv'
<1>1. Managed' /\ kind' = kind
    BY KindKept DEF Next, Managed
<1>2. /\ worker[w].pc \in {"idle", "route", "sent"}
      /\ ~worker[w].ack
      /\ worker[w].pc # "idle" => holder = w /\ status = "pending"
      /\ status = "pending" => \A i \in DOMAIN downlink : downlink[i] = "command"
      /\ CancelNotOvertaken
      /\ ~AckDurable
    BY DEF LockInv, Managed, AckDurable
<1>3. \A v \in Worker \ {w} : holder = NoWorker \/ holder = w => worker[v].pc = "idle"
    BY NoWorkerAssumption DEF LockInv
<1>4. \A v \in Worker : worker[v].pc \in {"idle", "route", "sent"} /\ ~worker[v].ack
    BY DEF LockInv
\* A worker that leaves lets go of the lock, and no other one was at the row.
<1>5. ASSUME Leave(w), holder = NoWorker \/ holder = w,
             status' = "pending" => \A i \in DOMAIN downlink' : downlink'[i] = "command",
             CancelNotOvertaken'
      PROVE  LockInv'
    <2>1. \A v \in Worker : worker'[v].pc = "idle" /\ ~worker'[v].ack
        BY <1>3, <1>4, <1>5, LeaveWorker DEF Idle
    <2> QED BY <1>5, <2>1 DEF LockInv
<1>6. ASSUME UNCHANGED <<status, downlink>>
      PROVE  /\ status' = "pending" => \A i \in DOMAIN downlink' : downlink'[i] = "command"
             /\ CancelNotOvertaken'
    BY <1>1, <1>2, <1>6 DEF CancelNotOvertaken
<1>7. ASSUME NEW capable \in BOOLEAN, Deliver(w, capable) PROVE LockInv'
    <2>1. ~UsesAck(capable)
        BY <1>2 DEF UsesAck
    <2>2. /\ worker' = [worker EXCEPT ![w].pc = "route", ![w].ack = UsesAck(capable),
                                      ![w].seen = attempts]
          /\ holder' = w
          /\ holder = NoWorker
          /\ status = "pending"
          /\ UNCHANGED <<status, downlink>>
        BY <1>7, <2>1 DEF Deliver, EnterDelivery, EnterDeliveryAs, Undelivered, Unlocked
    <2>3. worker'[w].pc = "route" /\ ~worker'[w].ack /\ \A v \in Worker \ {w} : worker'[v] = worker[v]
        BY <2>1, <2>2 DEF TypeOK, WorkerState
    <2> QED BY <1>3, <1>4, <1>6, <2>2, <2>3 DEF LockInv
<1>8. CASE DeferDelivery(w)
    BY <1>2, <1>5, <1>6, <1>8 DEF DeferDelivery, rowVars
<1>9. CASE FailDelivery(w)
    <2>1. /\ Leave(w)
          /\ Publish("command")
          /\ worker[w].pc = "route"
          /\ status' = status \/ status' = "failed"
        BY <1>2, <1>9 DEF FailDelivery
    <2>2. CancelNotOvertaken' /\ \A i \in DOMAIN downlink' : downlink'[i] = "command"
        BY <1>1, <1>2, <2>1, PublishOrder, PublishCommandOnly DEF TypeOK, Frames
    <2> QED BY <1>2, <1>5, <2>1, <2>2
<1>10. CASE PublishCommand(w)
    <2>1. /\ Goto(w, "sent")
          /\ Publish("command")
          /\ worker[w].pc = "route"
          /\ UNCHANGED <<holder, status>>
        BY <1>2, <1>10 DEF PublishCommand, rowVars
    <2>2. CancelNotOvertaken' /\ \A i \in DOMAIN downlink' : downlink'[i] = "command"
        BY <1>1, <1>2, <2>1, PublishOrder, PublishCommandOnly DEF TypeOK, Frames
    <2>3. worker'[w].pc = "sent" /\ ~worker'[w].ack /\ \A v \in Worker \ {w} : worker'[v] = worker[v]
        BY <1>2, <2>1, GotoWorker DEF PCs
    <2> QED BY <1>2, <1>3, <1>4, <2>1, <2>2, <2>3 DEF LockInv
<1>11. CASE RecordLegacy(w)
    <2>1. /\ Leave(w)
          /\ worker[w].pc = "sent"
          /\ UNCHANGED downlink
          /\ status' = status \/ status' = "running"
        BY <1>11 DEF RecordLegacy, RecordLegacyIf
    <2> QED BY <1>1, <1>2, <1>5, <2>1 DEF CancelNotOvertaken
<1>12. CASE WorkerCrash(w)
    BY <1>2, <1>5, <1>6, <1>12 DEF WorkerCrash, rowVars
<1>13. /\ ~Claim(w)
       /\ ~SweepSelect(w)
       /\ ~TimeoutUnaccepted(w)
       /\ ~SeeTimedOutBackup(w)
       /\ ~ReattachBackup(w)
       /\ \A capable \in BOOLEAN : ~SweepRetry(w, capable)
       /\ \A capable, online \in BOOLEAN : ~SweepDecide(w, capable, online)
    BY <1>2 DEF Claim, ClaimIf, SweepSelect, TimeoutUnaccepted, SeeTimedOutBackup, ReattachBackup,
                SweepRetry, SweepDecide, Managed
<1> QED BY <1>7, <1>8, <1>9, <1>10, <1>11, <1>12, <1>13 DEF WorkerStep

(* The other writers take the row lock, never make a row pending again,    *)
(* and publish a cancel only with the write that decides the row or finds  *)
(* it running.                                                             *)
OthersObeyLock ==
    /\ status' = status \/ (Unlocked /\ status' # "pending")
    /\ UNCHANGED downlink \/ (Publish("cancel") /\ status' # "pending")

(* complete_task waits for the row lock.                                   *)
LEMMA CompleteTaskObeysLock ==
    ASSUME NEW wire \in WireStatuses, NEW reported, NEW sameError,
           CompleteTask(wire, reported, sameError)
    PROVE  OthersObeyLock
<1> DEFINE incoming == IF StopEvidence(wire, reported) THEN "canceled" ELSE wire
<1>1. incoming \in {"success", "failed", "abort", "canceled", "running"}
    BY DEF WireStatuses
<1>2. /\ Unlocked
      /\ UNCHANGED downlink
      /\ status' = status \/ status' = "running" \/ status' = TerminalOf(incoming)
    BY DEF CompleteTask
<1> HIDE DEF incoming
<1> QED BY <1>1, <1>2 DEF TerminalOf, OthersObeyLock

(* Frames and sweeps wait for the row lock and publish no command.         *)
LEMMA OthersLock ==
    ASSUME ~WorkersCrash, FrameStep \/ SweepStep \/ TimeStep
    PROVE  OthersObeyLock
<1>1. ASSUME NEW wire \in WireStatuses, NEW reported, NEW sameError,
             HandleResult(wire, reported, sameError)
      PROVE  OthersObeyLock
    <2> DEFINE merged == IF Lifecycle /\ wire \notin {"running", "canceled"}
                         THEN result \cup reported ELSE reported
               passed == IF Lifecycle /\ status \in Active /\ wire = "success"
                            /\ "local_detached" \in merged
                         THEN "running" ELSE wire
    <2>1. passed \in WireStatuses
        BY DEF WireStatuses
    <2>2. CompleteTask(passed, merged, sameError)
        BY <1>1 DEF HandleResult
    <2> HIDE DEF passed, merged
    <2> QED BY <2>1, <2>2, CompleteTaskObeysLock
<1>2. ASSUME NEW verdict \in {"running", "success", "failed"}, CoordinatorDecides(verdict)
      PROVE  OthersObeyLock
    <2>1. verdict \in WireStatuses
        BY <1>2 DEF CoordinatorDecides, Detached, WireStatuses
    <2> QED BY <1>2, <2>1, CompleteTaskObeysLock DEF CoordinatorDecides
<1>3. CASE FrameStep
    BY <1>1, <1>3 DEF FrameStep, AcceptTask, RecordProgress, OthersObeyLock
<1>4. CASE SweepStep
    <2>1. CASE CancelTask
        BY <2>1 DEF CancelTask, OthersObeyLock, Active
    <2>2. CASE SealCancel
        BY <2>2 DEF SealCancel, OthersObeyLock
    <2>3. CASE FailRow
        BY <2>3 DEF FailRow, OthersObeyLock
    <2>4. ASSUME NEW capable, WatchdogTimeout(capable) PROVE OthersObeyLock
        BY <2>4 DEF WatchdogTimeout, OthersObeyLock
    <2>5. ASSUME NEW capable, NEW queued, WatchdogDefer(capable, queued) PROVE OthersObeyLock
        BY <2>5 DEF WatchdogDefer, OthersObeyLock
    <2>6. ~CancelRolledBack
        BY DEF CancelRolledBack
    <2> QED BY <1>2, <1>4, <2>1, <2>2, <2>3, <2>4, <2>5, <2>6
            DEF SweepStep, FailOffline, FailActiveForNode
<1>5. CASE TimeStep
    BY <1>5 DEF TimeStep, DeadlinePasses, AckWaitPasses, OthersObeyLock
<1> QED BY <1>3, <1>4, <1>5

(* The discipline of the row lock is inductive while no worker crashes.    *)
LEMMA LockInvStep ==
    ASSUME TypeOK, LockInv, ~WorkersCrash, [Next]_vars
    PROVE  LockInv'
<1> SUFFICES ASSUME Managed PROVE LockInv'
    BY KindKept DEF LockInv, Managed
<1>1. ASSUME NEW w \in Worker, WorkerStep(w) PROVE LockInv'
    BY <1>1, LockInvWorker
<1>2. CASE FrameStep \/ SweepStep \/ TimeStep
    <2>1. OthersObeyLock /\ UNCHANGED <<kind, worker, holder>>
        BY <1>2, OtherSteps, OthersLock
    <2>2. Unlocked => \A w \in Worker : worker[w].pc = "idle"
        BY NoWorkerAssumption DEF LockInv, Unlocked
    <2>3. CancelNotOvertaken'
        <3>1. CASE UNCHANGED downlink
            BY <2>1, <3>1 DEF LockInv, CancelNotOvertaken, Managed
        <3>2. CASE Publish("cancel")
            BY <2>1, <3>2, PublishOrder DEF LockInv, TypeOK, Frames
        <3> QED BY <2>1, <3>1, <3>2 DEF OthersObeyLock
    <2>4. status' = "pending" => status = "pending" /\ UNCHANGED downlink
        BY <2>1 DEF OthersObeyLock
    <2>5. ASSUME NEW w \in Worker
          PROVE  /\ worker'[w].pc \in {"idle", "route", "sent"}
                 /\ ~worker'[w].ack
                 /\ worker'[w].pc # "idle" => holder' = w /\ status' = "pending"
        BY <2>1, <2>2 DEF OthersObeyLock, LockInv
    <2> QED BY <2>3, <2>4, <2>5 DEF LockInv
<1>3. CASE UNCHANGED vars
    BY <1>3 DEF vars, rowVars, LockInv, CancelNotOvertaken, Managed
<1> QED BY <1>1, <1>2, <1>3 DEF Next

(* As long as no worker dies in the middle of its transaction, the cancel  *)
(* of a managed restore is never followed by its command: either it        *)
(* prevents the delivery or it is published after it.                      *)
THEOREM CancelNeverOvertaken ==
    ASSUME ~WorkersCrash
    PROVE  Spec => []CancelNotOvertaken
<1>1. Init => LockInv
    BY DEF Init, LockInv, Idle, CancelNotOvertaken
<1>2. LockInv => CancelNotOvertaken
    BY DEF LockInv, CancelNotOvertaken
<1>3. TypeOK /\ LockInv /\ [Next]_vars => (TypeOK /\ LockInv)'
    BY TypeOKStep, LockInvStep
<1> QED BY TypeOKInit, <1>1, <1>2, <1>3, PTL DEF Spec

-----------------------------------------------------------------------------
(* The attempts of an ACK command are bounded                              *)

(* A worker that belongs to the sweep, and the attempts it may still make. *)
SweepHolds(w) ==
    /\ worker[w].pc = "idle" => ~worker[w].sweep
    /\ worker[w].pc \in {"candidate", "retry", "expire"} => worker[w].sweep
    /\ worker[w].pc = "retry" => attempts < MaxAttempts
    /\ worker[w].pc = "sent" => ~worker[w].ack

(* A worker about to claim an attempt: outside the sweep only the first.   *)
RouteHolds(w) ==
    worker[w].pc = "route" /\ worker[w].ack =>
        /\ IF worker[w].sweep THEN worker[w].seen < MaxAttempts ELSE worker[w].seen = 0
        /\ Undelivered => "command_ack_v1" \in result /\ "legacy" \notin result

LegacyHolds(w) ==
    worker[w].pc \in {"route", "sent"} /\ ~worker[w].ack /\ Undelivered => "legacy" \in result

Holds(w) == SweepHolds(w) /\ RouteHolds(w) /\ LegacyHolds(w)

AttemptInv ==
    AckDurable =>
        /\ attempts <= MaxAttempts
        /\ "legacy" \in result /\ Undelivered => attempts = 0
        /\ \A v, w \in Worker : worker[v].sweep /\ worker[w].sweep => v = w
        /\ \A w \in Worker : Holds(w)

(* The row waits on and its protocol is what it was.                       *)
KeepsProtocol ==
    /\ attempts' = attempts
    /\ Undelivered' => Undelivered /\ result' \cap Protocols = result \cap Protocols

(* What a worker knows stays true while it rests and the row waits on.     *)
LEMMA HoldsKept ==
    ASSUME NEW v \in Worker, Holds(v), worker'[v] = worker[v], KeepsProtocol
    PROVE  Holds(v)'
BY DEF Holds, SweepHolds, RouteHolds, LegacyHolds, KeepsProtocol, Protocols

(* A worker that leaves keeps the invariant.                               *)
LEMMA LeaveKeeps ==
    ASSUME TypeOK, AttemptInv, AckDurable, NEW w \in Worker,
           worker' = [worker EXCEPT ![w] = Idle], KeepsProtocol
    PROVE  AttemptInv'
<1>1. worker'[w] = Idle /\ \A v \in Worker \ {w} : worker'[v] = worker[v]
    BY DEF TypeOK
<1>2. Holds(w)'
    BY <1>1 DEF Idle, Holds, SweepHolds, RouteHolds, LegacyHolds
<1>3. ASSUME NEW v \in Worker PROVE Holds(v)'
    BY <1>1, <1>2, HoldsKept DEF AttemptInv
<1>4. \A v, u \in Worker : worker'[v].sweep /\ worker'[u].sweep => v = u
    BY <1>1 DEF AttemptInv, Idle
<1>5. /\ attempts' <= MaxAttempts
      /\ "legacy" \in result' /\ Undelivered' => attempts' = 0
    BY DEF AttemptInv, KeepsProtocol, Protocols
<1> QED BY <1>3, <1>4, <1>5 DEF AttemptInv

(* What the selection of the protocol establishes and what it leaves.      *)
LEMMA SelectKeeps ==
    ASSUME TypeOK, AttemptInv, AckDurable, Undelivered,
           NEW capable \in BOOLEAN, SelectProtocol(capable)
    PROVE  /\ result \subseteq result'
           /\ "legacy" \in result' => attempts = 0
           /\ "command_ack_v1" \in result /\ "legacy" \notin result => "legacy" \notin result'
           /\ UsesAck(capable) => "command_ack_v1" \in result' /\ "legacy" \notin result'
           /\ ~UsesAck(capable) => "legacy" \in result'
<1>1. attempts \in Nat
    BY DEF TypeOK
<1>2. CASE result \cap Protocols = {}
    <2>1. result' = result \cup {IF UsesAck(capable) THEN "command_ack_v1" ELSE "legacy"}
        BY <1>2 DEF SelectProtocol
    <2>2. ~UsesAck(capable) => attempts = 0
        BY <1>1, <1>2 DEF UsesAck, Protocols
    <2> QED BY <1>2, <2>1, <2>2 DEF Protocols
<1>3. CASE result \cap Protocols # {}
    <2>1. result' = result
        BY <1>3 DEF SelectProtocol
    <2>2. "legacy" \in result => attempts = 0
        BY DEF AttemptInv
    <2> QED BY <1>3, <2>1, <2>2 DEF UsesAck, Protocols
<1> QED BY <1>2, <1>3

(* The selection of the protocol keeps what the other workers know.        *)
LEMMA SelectKeepsHolds ==
    ASSUME TypeOK, AttemptInv, AckDurable, Undelivered,
           NEW capable \in BOOLEAN, SelectProtocol(capable),
           UNCHANGED <<status, accepted, attempts>>,
           NEW v \in Worker, worker'[v] = worker[v]
    PROVE  Holds(v)'
<1>1. Holds(v) /\ Undelivered'
    BY DEF AttemptInv, Undelivered
<1>2. /\ result \subseteq result'
      /\ "command_ack_v1" \in result /\ "legacy" \notin result => "legacy" \notin result'
    BY SelectKeeps
<1> QED BY <1>1, <1>2 DEF Holds, SweepHolds, RouteHolds, LegacyHolds

(* The head of deliver_agent_task establishes what the worker knows.       *)
LEMMA EnterKeeps ==
    ASSUME TypeOK, AttemptInv, AckDurable, NEW w \in Worker, NEW capable \in BOOLEAN,
           NEW sweep \in BOOLEAN, EnterDelivery(w, capable, sweep),
           worker[w].sweep = sweep, sweep => attempts < MaxAttempts
    PROVE  AttemptInv'
<1>1. /\ Undelivered
      /\ SelectProtocol(capable)
      /\ UNCHANGED <<kind, status, accepted, attempts>>
    BY DEF EnterDelivery, EnterDeliveryAs
<1>2. UsesAck(capable) \in BOOLEAN /\ attempts \in Nat
    BY DEF UsesAck, AckDurable, TypeOK
<1>3. /\ "legacy" \in result' => attempts = 0
      /\ UsesAck(capable) => "command_ack_v1" \in result' /\ "legacy" \notin result'
      /\ ~UsesAck(capable) => "legacy" \in result'
    BY <1>1, SelectKeeps
<1>4. /\ \A v \in Worker \ {w} : worker'[v] = worker[v]
      /\ worker'[w].sweep => worker[w].sweep
      /\ Holds(w)'
    <2>1. CASE Leave(w)
        BY <2>1, LeaveWorker DEF Idle, Holds, SweepHolds, RouteHolds, LegacyHolds
    <2>2. CASE ~Leave(w)
        <3>1. /\ ~(UsesAck(capable) /\ attempts > 0 /\ ~sweep)
              /\ worker' = [worker EXCEPT ![w].pc = "route", ![w].ack = UsesAck(capable),
                                          ![w].seen = attempts]
            BY <2>2 DEF EnterDelivery, EnterDeliveryAs
        <3>2. /\ \A v \in Worker \ {w} : worker'[v] = worker[v]
              /\ worker'[w].pc = "route"
              /\ worker'[w].ack = UsesAck(capable)
              /\ worker'[w].seen = attempts
              /\ worker'[w].sweep = sweep
            BY <1>2, <3>1 DEF TypeOK, WorkerState
        <3>3. UsesAck(capable) /\ ~sweep => attempts = 0
            BY <1>2, <3>1
        <3>4. SweepHolds(w)' /\ LegacyHolds(w)'
            BY <1>3, <3>2 DEF SweepHolds, LegacyHolds
        <3>5. RouteHolds(w)'
            BY <1>3, <3>2, <3>3 DEF RouteHolds
        <3> QED BY <3>2, <3>4, <3>5 DEF Holds
    <2> QED BY <2>1, <2>2
<1>5. ASSUME NEW v \in Worker PROVE Holds(v)'
    BY <1>1, <1>4, SelectKeepsHolds
<1>6. \A v, u \in Worker : worker'[v].sweep /\ worker'[u].sweep => v = u
    BY <1>4 DEF AttemptInv
<1> QED BY <1>1, <1>3, <1>5, <1>6 DEF AttemptInv

(* The claim compares the attempts it read with the row's.                 *)
LEMMA ClaimKeeps ==
    ASSUME TypeOK, AttemptInv, AckDurable, MaxAttempts >= 2, NEW w \in Worker, Claim(w)
    PROVE  AttemptInv'
<1>1. CASE ~(Undelivered /\ SameAttempt(w))
    BY <1>1, LeaveKeeps DEF Claim, ClaimIf, Leave, KeepsProtocol, Undelivered
<1>2. CASE Undelivered /\ SameAttempt(w)
    <2>1. /\ worker[w].pc = "route" /\ worker[w].ack
          /\ attempts' = attempts + 1
          /\ Goto(w, "send")
          /\ UNCHANGED <<kind, status, accepted, result>>
        BY <1>2 DEF Claim, ClaimIf
    <2>2. /\ attempts \in Nat /\ MaxAttempts \in Nat
          /\ attempts = worker[w].seen
          /\ IF worker[w].sweep THEN worker[w].seen < MaxAttempts ELSE worker[w].seen = 0
          /\ "legacy" \notin result
        BY <1>2, <2>1, BoundAssumption DEF AttemptInv, Holds, RouteHolds, SameAttempt, TypeOK
    <2>3. attempts' <= MaxAttempts
        BY <2>1, <2>2
    <2>4. /\ worker'[w].pc = "send"
          /\ worker'[w].sweep = worker[w].sweep
          /\ \A v \in Worker \ {w} : worker'[v] = worker[v]
        BY <2>1, GotoWorker DEF PCs
    <2>5. Holds(w)'
        BY <2>4 DEF Holds, SweepHolds, RouteHolds, LegacyHolds
    <2>6. ASSUME NEW v \in Worker \ {w} PROVE Holds(v)'
        <3>1. worker[v].pc = "retry" => attempts' < MaxAttempts
            <4> SUFFICES ASSUME worker[v].pc = "retry" PROVE attempts' < MaxAttempts
                OBVIOUS
            <4>1. ~worker[w].sweep
                BY DEF AttemptInv, Holds, SweepHolds
            <4> QED BY <2>1, <2>2, <4>1
        <3> QED BY <2>1, <2>4, <3>1
                DEF AttemptInv, Holds, SweepHolds, RouteHolds, LegacyHolds, Undelivered
    <2>7. \A v, u \in Worker : worker'[v].sweep /\ worker'[u].sweep => v = u
        BY <2>4 DEF AttemptInv
    <2> QED BY <2>1, <2>2, <2>3, <2>5, <2>6, <2>7 DEF AttemptInv
<1> QED BY <1>1, <1>2

(* Recording a legacy delivery ends the wait of the row.                   *)
LEMMA RecordKeeps ==
    ASSUME TypeOK, AttemptInv, AckDurable, MaxAttempts >= 2, NEW w \in Worker, RecordLegacy(w)
    PROVE  AttemptInv'
<1>1. CASE ~Undelivered
    BY <1>1, LeaveKeeps DEF RecordLegacy, RecordLegacyIf, Leave, KeepsProtocol, Undelivered
<1>2. CASE Undelivered
    <2>1. /\ worker[w].pc = "sent"
          /\ attempts' = attempts + 1
          /\ status' = "running"
          /\ Leave(w)
          /\ kind' = kind
        BY <1>2 DEF RecordLegacy, RecordLegacyIf
    <2>2. attempts = 0
        BY <1>2, <2>1 DEF AttemptInv, Holds, SweepHolds, LegacyHolds
    <2>3. attempts' < MaxAttempts /\ ~Undelivered'
        BY <2>1, <2>2, BoundAssumption DEF Undelivered
    <2>4. worker'[w] = Idle /\ \A v \in Worker \ {w} : worker'[v] = worker[v]
        BY <2>1, LeaveWorker
    <2>5. Holds(w)'
        BY <2>4 DEF Idle, Holds, SweepHolds, RouteHolds, LegacyHolds
    <2>6. ASSUME NEW v \in Worker \ {w} PROVE Holds(v)'
        BY <2>3, <2>4 DEF AttemptInv, Holds, SweepHolds, RouteHolds, LegacyHolds
    <2>7. \A v, u \in Worker : worker'[v].sweep /\ worker'[u].sweep => v = u
        BY <2>4 DEF AttemptInv, Idle
    <2>8. attempts' <= MaxAttempts
        BY <2>1, <2>2, <2>3, BoundAssumption
    <2> QED BY <2>3, <2>5, <2>6, <2>7, <2>8 DEF AttemptInv
<1> QED BY <1>1, <1>2

(* The sweep reads the attempts and decides to retry.                      *)
LEMMA DecideKeeps ==
    ASSUME TypeOK, AttemptInv, AckDurable, NEW w \in Worker, NEW capable \in BOOLEAN,
           NEW online \in BOOLEAN, SweepDecide(w, capable, online)
    PROVE  AttemptInv'
<1>1. CASE ~Undelivered
    BY <1>1, LeaveKeeps DEF SweepDecide, KeepsProtocol, Undelivered
<1>2. CASE Undelivered
    <2>1. /\ worker[w].pc = "candidate"
          /\ SelectProtocol(capable)
          /\ UNCHANGED <<kind, status, accepted, attempts>>
          /\ \/ worker' = [worker EXCEPT ![w] = Idle]
             \/ Goto(w, "expire")
             \/ ~(attempts >= MaxAttempts) /\ Goto(w, "retry")
        BY <1>2 DEF SweepDecide
    <2>2. /\ \A v \in Worker \ {w} : worker'[v] = worker[v]
          /\ worker'[w].sweep => worker[w].sweep
          /\ Holds(w)'
        <3>1. CASE worker' = [worker EXCEPT ![w] = Idle]
            BY <3>1 DEF TypeOK, Idle, Holds, SweepHolds, RouteHolds, LegacyHolds
        <3>2. ASSUME NEW pc \in {"expire", "retry"}, Goto(w, pc),
                     pc = "retry" => ~(attempts >= MaxAttempts)
              PROVE  <2>2!1 /\ <2>2!2 /\ <2>2!3
            <4>1. /\ \A v \in Worker \ {w} : worker'[v] = worker[v]
                  /\ worker'[w].pc = pc
                  /\ worker'[w].sweep = worker[w].sweep
                BY <3>2, GotoWorker DEF PCs
            <4>2. worker[w].sweep
                BY <2>1 DEF AttemptInv, Holds, SweepHolds
            <4>3. pc = "retry" => attempts' < MaxAttempts
                BY <2>1, <3>2, BoundAssumption DEF TypeOK
            <4> QED BY <4>1, <4>2, <4>3 DEF Holds, SweepHolds, RouteHolds, LegacyHolds
        <3> QED BY <2>1, <3>1, <3>2
    <2>3. ASSUME NEW v \in Worker PROVE Holds(v)'
        BY <1>2, <2>1, <2>2, SelectKeepsHolds
    <2>4. "legacy" \in result' => attempts = 0
        BY <1>2, <2>1, SelectKeeps
    <2>5. \A v, u \in Worker : worker'[v].sweep /\ worker'[u].sweep => v = u
        BY <2>2 DEF AttemptInv
    <2> QED BY <2>1, <2>3, <2>4, <2>5 DEF AttemptInv
<1> QED BY <1>1, <1>2

(* A worker moves on without touching the row.                             *)
LEMMA GotoKeeps ==
    ASSUME TypeOK, AttemptInv, AckDurable, NEW w \in Worker, NEW pc \in PCs, Goto(w, pc),
           KeepsProtocol, pc \in {"sent", "reattach"},
           pc = "sent" => worker[w].pc = "route" /\ ~worker[w].ack
    PROVE  AttemptInv'
<1>1. /\ worker'[w].pc = pc
      /\ worker'[w].ack = worker[w].ack
      /\ worker'[w].sweep = worker[w].sweep
      /\ \A v \in Worker \ {w} : worker'[v] = worker[v]
    BY GotoWorker
<1>2. Holds(w)'
    BY <1>1 DEF AttemptInv, Holds, SweepHolds, RouteHolds, LegacyHolds, KeepsProtocol, Protocols
<1>3. ASSUME NEW v \in Worker PROVE Holds(v)'
    BY <1>1, <1>2, HoldsKept DEF AttemptInv
<1>4. \A v, u \in Worker : worker'[v].sweep /\ worker'[u].sweep => v = u
    BY <1>1 DEF AttemptInv
<1>5. /\ attempts' <= MaxAttempts
      /\ "legacy" \in result' /\ Undelivered' => attempts' = 0
    BY DEF AttemptInv, KeepsProtocol, Protocols
<1> QED BY <1>3, <1>4, <1>5 DEF AttemptInv

(* The candidate query admits one sweeping worker.                         *)
LEMMA SelectCandidateKeeps ==
    ASSUME TypeOK, AttemptInv, AckDurable, SingleFlight, NEW w \in Worker, SweepSelect(w)
    PROVE  AttemptInv'
<1>1. /\ \A v \in Worker : ~worker[v].sweep
      /\ worker'[w].pc = "candidate" /\ worker'[w].sweep
      /\ \A v \in Worker \ {w} : worker'[v] = worker[v]
      /\ UNCHANGED <<status, accepted, attempts, result>>
    BY DEF SweepSelect, TypeOK, Idle, rowVars
<1>2. KeepsProtocol
    BY <1>1 DEF KeepsProtocol, Undelivered
<1>3. Holds(w)'
    BY <1>1 DEF Holds, SweepHolds, RouteHolds, LegacyHolds
<1>4. ASSUME NEW v \in Worker PROVE Holds(v)'
    BY <1>1, <1>2, <1>3, HoldsKept DEF AttemptInv
<1>5. \A v, u \in Worker : worker'[v].sweep /\ worker'[u].sweep => v = u
    BY <1>1
<1> QED BY <1>1, <1>4, <1>5 DEF AttemptInv, Undelivered

(* Every step of a worker keeps the invariant.                             *)
LEMMA WorkerKeeps ==
    ASSUME TypeOK, AttemptInv, AckDurable, SingleFlight, MaxAttempts >= 2,
           NEW w \in Worker, WorkerStep(w)
    PROVE  AttemptInv'
<1>1. Holds(w)
    BY DEF AttemptInv
<1>2. ASSUME NEW capable \in BOOLEAN, Deliver(w, capable) PROVE AttemptInv'
    <2>1. worker[w].sweep = FALSE
        BY <1>1, <1>2 DEF Deliver, Holds, SweepHolds, TypeOK, WorkerState
    <2> QED BY <1>2, <2>1, EnterKeeps DEF Deliver
<1>3. ASSUME NEW capable \in BOOLEAN, SweepRetry(w, capable) PROVE AttemptInv'
    <2>1. worker[w].sweep = TRUE /\ attempts < MaxAttempts
        BY <1>1, <1>3 DEF SweepRetry, Holds, SweepHolds, TypeOK, WorkerState
    <2>2. CASE EnterDelivery(w, capable, TRUE)
        BY <2>1, <2>2, EnterKeeps
    <2>3. CASE Leave(w) /\ UNCHANGED <<rowVars, downlink>>
        BY <2>3, LeaveKeeps DEF Leave, rowVars, KeepsProtocol, Undelivered
    <2> QED BY <1>3, <2>2, <2>3 DEF SweepRetry
<1>4. ASSUME NEW capable \in BOOLEAN, NEW online \in BOOLEAN, SweepDecide(w, capable, online)
      PROVE  AttemptInv'
    BY <1>4, DecideKeeps
<1>5. CASE DeferDelivery(w) \/ WorkerCrash(w)
    BY <1>5, LeaveKeeps DEF DeferDelivery, WorkerCrash, Leave, rowVars, KeepsProtocol, Undelivered
<1>6. CASE FailDelivery(w)
    BY <1>6, LeaveKeeps DEF FailDelivery, Leave, KeepsProtocol, Undelivered
<1>7. CASE TimeoutUnaccepted(w)
    BY <1>7, LeaveKeeps DEF TimeoutUnaccepted, Leave, KeepsProtocol, Undelivered
<1>8. CASE ReattachBackup(w)
    BY <1>8, LeaveKeeps DEF ReattachBackup, Leave, KeepsProtocol, Undelivered
<1>9. CASE PublishCommand(w)
    <2>1. KeepsProtocol
        BY <1>9 DEF PublishCommand, rowVars, KeepsProtocol, Undelivered
    <2>2. CASE Leave(w)
        BY <2>1, <2>2, LeaveKeeps DEF Leave
    <2>3. CASE worker[w].pc = "route" /\ ~worker[w].ack /\ Goto(w, "sent")
        BY <2>1, <2>3, GotoKeeps DEF PCs
    <2> QED BY <1>9, <2>2, <2>3 DEF PublishCommand
<1>10. CASE SeeTimedOutBackup(w)
    <2>1. KeepsProtocol
        BY <1>10 DEF SeeTimedOutBackup, rowVars, KeepsProtocol, Undelivered
    <2> QED BY <1>10, <2>1, GotoKeeps DEF SeeTimedOutBackup, PCs
<1> QED BY <1>2, <1>3, <1>4, <1>5, <1>6, <1>7, <1>8, <1>9, <1>10,
           ClaimKeeps, RecordKeeps, SelectCandidateKeeps DEF WorkerStep

(* complete_task never puts a row back to waiting.                         *)
LEMMA CompleteTaskKeeps ==
    ASSUME NEW wire, NEW reported, NEW sameError, CompleteTask(wire, reported, sameError)
    PROVE  Undelivered' => Undelivered /\ result' \cap Protocols = result \cap Protocols
<1>1. \/ result' = result \cup {"late_result"} /\ UNCHANGED <<status, accepted>>
      \/ UNCHANGED <<status, accepted, result>>
      \/ accepted' = TRUE
    BY DEF CompleteTask
<1> QED BY <1>1 DEF Undelivered, Protocols

(* Frames, sweeps and time never put a row back to waiting.                *)
LEMMA OthersKeep ==
    ASSUME FrameStep \/ SweepStep \/ TimeStep
    PROVE  KeepsProtocol
<1>1. attempts' = attempts
    BY OtherSteps
<1> DEFINE Kept == Undelivered' => Undelivered /\ result' \cap Protocols = result \cap Protocols
<1> SUFFICES Kept
    BY <1>1 DEF KeepsProtocol
<1>2. CASE FrameStep
    <2>1. ASSUME NEW wire, NEW reported, NEW sameError, HandleResult(wire, reported, sameError)
          PROVE  Kept
        <3>1. PICK passed, merged : CompleteTask(passed, merged, sameError)
            BY <2>1 DEF HandleResult
        <3> QED BY <3>1, CompleteTaskKeeps
    <2> QED BY <1>2, <2>1 DEF FrameStep, AcceptTask, RecordProgress, Undelivered
<1>3. CASE SweepStep
    <2>1. ASSUME NEW verdict, CoordinatorDecides(verdict) PROVE Kept
        BY <2>1, CompleteTaskKeeps DEF CoordinatorDecides
    <2>2. CASE CancelTask
        <3>1. status' # "pending"
            BY <2>2 DEF CancelTask
        <3> QED BY <3>1 DEF Undelivered
    <2> QED BY <1>3, <2>1, <2>2
            DEF SweepStep, CancelRolledBack, SealCancel, WatchdogTimeout, WatchdogDefer,
                FailOffline, FailActiveForNode, FailRow, rowVars, Undelivered
<1>4. CASE TimeStep
    BY <1>4 DEF TimeStep, DeadlinePasses, AckWaitPasses, Undelivered
<1> QED BY <1>2, <1>3, <1>4

(* The invariant is inductive.                                             *)
LEMMA AttemptInvStep ==
    ASSUME TypeOK, AttemptInv, SingleFlight, MaxAttempts >= 2, [Next]_vars
    PROVE  AttemptInv'
<1> SUFFICES ASSUME AckDurable PROVE AttemptInv'
    BY KindKept DEF AttemptInv, AckDurable
<1>1. ASSUME NEW w \in Worker, WorkerStep(w) PROVE AttemptInv'
    BY <1>1, WorkerKeeps
<1>2. CASE UNCHANGED worker /\ KeepsProtocol
    BY <1>2, HoldsKept DEF AttemptInv, KeepsProtocol, Protocols
<1>3. CASE UNCHANGED vars
    BY <1>2, <1>3 DEF vars, rowVars, KeepsProtocol, Undelivered
<1> QED BY <1>1, <1>2, <1>3, OtherSteps, OthersKeep DEF Next

(* An ACK command is never attempted more than MaxAttempts times, however  *)
(* many workers and frames interleave with the sweep, provided only one    *)
(* sweep runs at a time and the configuration allows a retry at all.       *)
THEOREM AttemptsAreBounded ==
    ASSUME SingleFlight, MaxAttempts >= 2
    PROVE  Spec => []AttemptsBounded
<1>1. Init => AttemptInv
    BY BoundAssumption DEF Init, AttemptInv, Idle, Holds, SweepHolds, RouteHolds, LegacyHolds
<1>2. AttemptInv => AttemptsBounded
    BY DEF AttemptInv, AttemptsBounded
<1>3. TypeOK /\ AttemptInv /\ [Next]_vars => (TypeOK /\ AttemptInv)'
    BY TypeOKStep, AttemptInvStep
<1> QED BY TypeOKInit, <1>1, <1>2, <1>3, PTL DEF Spec

-----------------------------------------------------------------------------
(* An accepted command is not delivered again                              *)

(* Each writer of the attempts tests that the row was not accepted, in the *)
(* statement that writes them.                                             *)
LEMMA AcceptedKept ==
    ASSUME accepted, [Next]_vars
    PROVE  attempts' = attempts
<1>1. ~Undelivered
    BY DEF Undelivered
<1>2. ASSUME NEW w \in Worker, WorkerStep(w) PROVE attempts' = attempts
    <2>1. ASSUME NEW capable, NEW sweep, EnterDelivery(w, capable, sweep)
          PROVE  attempts' = attempts
        BY <2>1 DEF EnterDelivery, EnterDeliveryAs
    <2> QED BY <1>1, <1>2, <2>1
            DEF WorkerStep, Deliver, SweepRetry, SweepDecide, DeferDelivery, FailDelivery, Claim,
                ClaimIf, PublishCommand, RecordLegacy, RecordLegacyIf, SweepSelect,
                TimeoutUnaccepted, SeeTimedOutBackup, ReattachBackup, WorkerCrash, rowVars
<1>3. CASE UNCHANGED vars
    BY <1>3 DEF vars, rowVars
<1> QED BY <1>2, <1>3, OtherSteps DEF Next

(* A command that the Agent accepted is never delivered again, for every   *)
(* number of workers and sweeps that read the row before (the conditional  *)
(* UPDATE of deliver_agent_task, the re-read of the legacy path).          *)
THEOREM AcceptedIsDeliveredOnce == Spec => AcceptedNotRedelivered
<1>1. [Next]_vars => [accepted => attempts' = attempts]_vars
    BY AcceptedKept
<1> QED BY <1>1, PTL DEF Spec, AcceptedNotRedelivered

-----------------------------------------------------------------------------
(* One frame for each claimed attempt                                      *)

(* The workers that have claimed an attempt and not published it yet.      *)
Senders == {w \in Worker : worker[w].pc = "send"}

(* Every published command and every worker that is about to publish one   *)
(* has an attempt of its own; on the legacy path nothing is counted before *)
(* the publication, and the row says so.                                   *)
FrameInv ==
    /\ status = "pending" => ~accepted
    /\ status = "pending" /\ "command_ack_v1" \in result => AckDurable /\ "legacy" \notin result
    /\ AckDurable => \A w \in Worker : LegacyHolds(w)
    /\ AckDurable /\ Undelivered /\ "legacy" \notin result =>
          IsFiniteSet(Senders) /\ Commands(downlink) + Cardinality(Senders) <= attempts

(* The number of commands of a channel, when it is published to.           *)
LEMMA CommandsType ==
    ASSUME NEW frames \in Seq(Frames)
    PROVE  Commands(frames) \in Nat
<1>1. IsFiniteSet(1..Len(frames)) /\ {i \in DOMAIN frames : frames[i] = "command"} \subseteq 1..Len(frames)
    BY FS_Interval
<1> QED BY <1>1, FS_Subset, FS_CardinalityType DEF Commands

LEMMA CommandsAppend ==
    ASSUME NEW frames \in Seq(Frames), NEW frame \in Frames
    PROVE  Commands(Append(frames, frame)) =
               Commands(frames) + (IF frame = "command" THEN 1 ELSE 0)
<1> DEFINE new == Append(frames, frame)
           n == Len(frames)
           at(f) == {i \in DOMAIN f : f[i] = "command"}
<1>1. /\ n \in Nat /\ DOMAIN frames = 1..n /\ DOMAIN new = 1..(n + 1)
      /\ new[n + 1] = frame /\ \A i \in 1..n : new[i] = frames[i]
    OBVIOUS
<1>2. IsFiniteSet(at(frames)) /\ (n + 1) \notin at(frames)
  <2>1. IsFiniteSet(1..n) /\ at(frames) \subseteq 1..n
      BY <1>1, FS_Interval
  <2> QED BY <1>1, <2>1, FS_Subset
<1>3. CASE frame = "command"
  <2>1. at(new) = at(frames) \cup {n + 1}
      BY <1>1, <1>3
  <2>2. Cardinality(at(frames) \cup {n + 1}) = Cardinality(at(frames)) + 1
      BY <1>2, FS_AddElement
  <2> QED BY <1>3, <2>1, <2>2 DEF Commands
<1>4. CASE frame # "command"
  <2>1. at(new) = at(frames)
      BY <1>1, <1>4
  <2>2. Commands(new) = Commands(frames) /\ Commands(frames) \in Nat
      BY <2>1, CommandsType DEF Commands
  <2> QED BY <1>4, <2>2
<1> QED BY <1>3, <1>4

(* A worker that is no longer about to publish.                            *)
LEMMA FewerSenders ==
    ASSUME TypeOK, NEW w \in Worker, IsFiniteSet(Senders), worker'[w].pc # "send",
           \A v \in Worker \ {w} : worker'[v] = worker[v]
    PROVE  /\ IsFiniteSet(Senders') /\ Cardinality(Senders) \in Nat /\ Cardinality(Senders') \in Nat
           /\ Cardinality(Senders') <= Cardinality(Senders)
           /\ worker[w].pc = "send" => Cardinality(Senders') = Cardinality(Senders) - 1
<1>1. Senders' = Senders \ {w}
    BY DEF Senders
<1>2. /\ IsFiniteSet(Senders') /\ Cardinality(Senders') <= Cardinality(Senders)
      /\ Cardinality(Senders) \in Nat /\ Cardinality(Senders') \in Nat
    BY <1>1, FS_Subset, FS_CardinalityType
<1>3. worker[w].pc = "send" => Cardinality(Senders \ {w}) = Cardinality(Senders) - 1
    BY FS_RemoveElement DEF Senders
<1> QED BY <1>1, <1>2, <1>3

LEMMA LegacyKept ==
    ASSUME NEW v \in Worker, LegacyHolds(v), worker'[v] = worker[v],
           Undelivered' => Undelivered, "legacy" \in result /\ Undelivered' => "legacy" \in result'
    PROVE  LegacyHolds(v)'
BY DEF LegacyHolds

(* A row that waits on does so under the protocol that was selected for it. *)
Waiting ==
    /\ attempts' = attempts /\ kind' = kind
    /\ status' = "pending" =>
          /\ status = "pending" /\ accepted' = accepted
          /\ "legacy" \in result => "legacy" \in result'
          /\ "command_ack_v1" \in result' => AckDurable /\ "legacy" \notin result'

(* Without a new sender and a new command the invariant is kept.           *)
LEMMA FrameKept ==
    ASSUME TypeOK, FrameInv, Waiting, \A w \in Worker : LegacyHolds(w)' \/ ~AckDurable,
           AckDurable /\ Undelivered /\ Undelivered' /\ "legacy" \notin result /\ "legacy" \notin result' =>
               /\ IsFiniteSet(Senders')
               /\ Commands(downlink') + Cardinality(Senders') <= Commands(downlink) + Cardinality(Senders)
               /\ Commands(downlink') + Cardinality(Senders') \in Nat
    PROVE  FrameInv'
<1>1. status' = "pending" => ~accepted'
    BY DEF FrameInv, Waiting
<1>2. status' = "pending" /\ "command_ack_v1" \in result' => AckDurable' /\ "legacy" \notin result'
    BY DEF Waiting, AckDurable
<1>3. AckDurable' => \A w \in Worker : LegacyHolds(w)'
    BY DEF Waiting, AckDurable
<1>4. ASSUME AckDurable', Undelivered', "legacy" \notin result'
      PROVE  IsFiniteSet(Senders') /\ Commands(downlink') + Cardinality(Senders') <= attempts'
  <2>1. AckDurable /\ Undelivered /\ "legacy" \notin result /\ attempts' = attempts /\ attempts \in Nat
      BY <1>4 DEF Waiting, AckDurable, Undelivered, TypeOK
  <2>2. IsFiniteSet(Senders) /\ Commands(downlink) + Cardinality(Senders) <= attempts
      BY <2>1 DEF FrameInv
  <2>3. Commands(downlink) \in Nat /\ Cardinality(Senders) \in Nat
      BY <2>2, CommandsType, FS_CardinalityType DEF TypeOK
  <2> QED BY <1>4, <2>1, <2>2, <2>3
<1> QED BY <1>1, <1>2, <1>3, <1>4 DEF FrameInv

(* The row waits on as it was, and nobody else stops waiting either.       *)
LEMMA KeepsWaiting ==
    ASSUME FrameInv, KeepsProtocol, kind' = kind,
           status' = "pending" => status = "pending" /\ accepted' = accepted
    PROVE  /\ Waiting
           /\ \A v \in Worker : worker'[v] = worker[v] => LegacyHolds(v)' \/ ~AckDurable
<1>1. ASSUME status' = "pending" PROVE Undelivered /\ result' \cap Protocols = result \cap Protocols
    BY <1>1 DEF FrameInv, KeepsProtocol, Undelivered
<1>2. Waiting
    BY <1>1 DEF FrameInv, KeepsProtocol, Waiting, Protocols
<1>3. Undelivered' => Undelivered /\ ("legacy" \in result => "legacy" \in result')
    BY <1>1 DEF Undelivered, Protocols
<1> QED BY <1>2, <1>3, LegacyKept DEF FrameInv

(* A worker leaves or goes on to a place where it publishes nothing.       *)
LEMMA FrameMove ==
    ASSUME TypeOK, FrameInv, Waiting, NEW w \in Worker, worker'[w].pc # "send",
           \A v \in Worker \ {w} : worker'[v] = worker[v],
           \A v \in Worker : LegacyHolds(v)' \/ ~AckDurable,
           \/ UNCHANGED downlink
           \/ Publish("command") /\ (worker[w].pc = "send" \/ ~Undelivered' \/ "legacy" \in result')
           \/ ~Undelivered'
    PROVE  FrameInv'
<1> SUFFICES ASSUME AckDurable, Undelivered, Undelivered', "legacy" \notin result, "legacy" \notin result'
             PROVE  /\ IsFiniteSet(Senders')
                    /\ Commands(downlink') + Cardinality(Senders') <= Commands(downlink) + Cardinality(Senders)
                    /\ Commands(downlink') + Cardinality(Senders') \in Nat
    BY FrameKept
<1>1. IsFiniteSet(Senders) /\ Commands(downlink) \in Nat
    BY CommandsType DEF FrameInv, TypeOK
<1>2. /\ IsFiniteSet(Senders') /\ Cardinality(Senders) \in Nat /\ Cardinality(Senders') \in Nat
      /\ Cardinality(Senders') <= Cardinality(Senders)
      /\ worker[w].pc = "send" => Cardinality(Senders') = Cardinality(Senders) - 1
    BY <1>1, FewerSenders
<1>3. CASE UNCHANGED downlink
    BY <1>1, <1>2, <1>3
<1>4. CASE downlink' = Append(downlink, "command") /\ worker[w].pc = "send"
  <2>1. Commands(downlink') = Commands(downlink) + 1
      BY <1>4, CommandsAppend DEF TypeOK, Frames
  <2> QED BY <1>1, <1>2, <1>4, <2>1
<1> QED BY <1>3, <1>4 DEF Publish

(* The selection of the protocol.                                          *)
LEMMA FrameSelect ==
    ASSUME TypeOK, FrameInv, Undelivered, NEW capable \in BOOLEAN, SelectProtocol(capable),
           UNCHANGED <<kind, status, accepted, attempts>>
    PROVE  /\ Waiting
           /\ "legacy" \in result => "legacy" \in result'
           /\ AckDurable /\ ~UsesAck(capable) => "legacy" \in result'
<1>1. CASE AckDurable /\ result \cap Protocols = {}
    <2>1. result' = result \cup {IF UsesAck(capable) THEN "command_ack_v1" ELSE "legacy"}
        BY <1>1 DEF SelectProtocol
    <2> QED BY <1>1, <2>1 DEF Waiting, Protocols
<1>2. CASE ~(AckDurable /\ result \cap Protocols = {})
    <2>1. result' = result
        BY <1>2 DEF SelectProtocol
    <2>2. AckDurable /\ ~UsesAck(capable) => "legacy" \in result
        BY <1>2 DEF UsesAck, Protocols
    <2> QED BY <2>1, <2>2 DEF Waiting, FrameInv
<1> QED BY <1>1, <1>2

LEMMA FrameEnter ==
    ASSUME TypeOK, FrameInv, NEW w \in Worker, NEW capable \in BOOLEAN, NEW sweep \in BOOLEAN,
           EnterDelivery(w, capable, sweep)
    PROVE  FrameInv'
<1>1. /\ Undelivered /\ Undelivered' /\ SelectProtocol(capable)
      /\ UNCHANGED <<kind, status, accepted, attempts, downlink>>
    BY DEF EnterDelivery, EnterDeliveryAs, Undelivered
<1>2. /\ Waiting
      /\ "legacy" \in result => "legacy" \in result'
      /\ AckDurable /\ ~UsesAck(capable) => "legacy" \in result'
    BY <1>1, FrameSelect
<1>3. /\ worker'[w].pc # "send" /\ \A v \in Worker \ {w} : worker'[v] = worker[v]
      /\ worker'[w].pc \in {"route", "sent"} /\ ~worker'[w].ack => ~UsesAck(capable)
    <2>1. CASE Leave(w)
        BY <2>1, LeaveWorker DEF Idle
    <2>2. CASE ~Leave(w)
        <3>1. worker' = [worker EXCEPT ![w].pc = "route", ![w].ack = UsesAck(capable),
                                       ![w].seen = attempts]
            BY <2>2 DEF EnterDelivery, EnterDeliveryAs
        <3>2. worker'[w].pc = "route" /\ worker'[w].ack = UsesAck(capable)
            BY <3>1 DEF TypeOK, WorkerState
        <3> QED BY <3>1, <3>2 DEF TypeOK
    <2> QED BY <2>1, <2>2
<1>4. ASSUME AckDurable, NEW v \in Worker PROVE LegacyHolds(v)'
    <2>1. CASE v = w
        BY <1>2, <1>3, <1>4, <2>1 DEF LegacyHolds
    <2>2. CASE v # w
        <3>1. LegacyHolds(v) /\ worker'[v] = worker[v]
            BY <1>3, <1>4, <2>2 DEF FrameInv
        <3> QED BY <1>1, <1>2, <3>1, LegacyKept
    <2> QED BY <2>1, <2>2
<1>5. \A v \in Worker : LegacyHolds(v)' \/ ~AckDurable
    BY <1>4
<1> QED BY <1>1, <1>2, <1>3, <1>5, FrameMove

LEMMA FrameDecide ==
    ASSUME TypeOK, FrameInv, NEW w \in Worker, NEW capable \in BOOLEAN, NEW online \in BOOLEAN,
           SweepDecide(w, capable, online)
    PROVE  FrameInv'
<1>1. UNCHANGED <<kind, status, accepted, attempts, downlink>>
    BY DEF SweepDecide
<1>2. /\ worker'[w].pc \in {"idle", "expire", "retry"}
      /\ \A v \in Worker \ {w} : worker'[v] = worker[v]
    <2>1. worker' = [worker EXCEPT ![w] = Idle] \/ Goto(w, "expire") \/ Goto(w, "retry")
        BY DEF SweepDecide
    <2>2. CASE worker' = [worker EXCEPT ![w] = Idle]
        BY <2>2 DEF TypeOK, Idle
    <2> QED BY <2>1, <2>2, GotoWorker DEF PCs
<1>3. Waiting /\ (Undelivered => ("legacy" \in result => "legacy" \in result'))
    <2>1. CASE Undelivered
        <3>1. SelectProtocol(capable)
            BY <2>1 DEF SweepDecide
        <3> QED BY <1>1, <2>1, <3>1, FrameSelect
    <2>2. CASE ~Undelivered
        <3>1. result' = result
            BY <2>2 DEF SweepDecide
        <3> QED BY <1>1, <2>2, <3>1 DEF Waiting, FrameInv
    <2> QED BY <2>1, <2>2
<1>4. ASSUME AckDurable, NEW v \in Worker PROVE LegacyHolds(v)'
    <2>1. CASE v = w
        BY <1>2, <2>1 DEF LegacyHolds
    <2>2. CASE v # w
        BY <1>1, <1>2, <1>3, <1>4, <2>2, LegacyKept DEF FrameInv, Undelivered
    <2> QED BY <2>1, <2>2
<1> QED BY <1>1, <1>2, <1>3, <1>4, FrameMove

(* A claim counts the frame that it precedes.                              *)
LEMMA FrameClaim ==
    ASSUME TypeOK, FrameInv, NEW w \in Worker, Claim(w)
    PROVE  FrameInv'
<1>1. CASE ~(Undelivered /\ SameAttempt(w))
    <2>1. Leave(w) /\ UNCHANGED <<kind, status, accepted, attempts, result, downlink>>
        BY <1>1 DEF Claim, ClaimIf
    <2>2. KeepsProtocol
        BY <2>1 DEF KeepsProtocol, Undelivered
    <2>3. worker'[w] = Idle /\ \A v \in Worker \ {w} : worker'[v] = worker[v]
        BY <2>1, LeaveWorker
    <2>4. Waiting /\ \A v \in Worker : LegacyHolds(v)' \/ ~AckDurable
        BY <2>1, <2>2, <2>3, KeepsWaiting DEF LegacyHolds, Idle
    <2> QED BY <2>1, <2>3, <2>4, FrameMove DEF Idle
<1>2. CASE Undelivered /\ SameAttempt(w)
    <2>1. /\ worker[w].pc = "route" /\ worker[w].ack /\ attempts' = attempts + 1 /\ Goto(w, "send")
          /\ UNCHANGED <<kind, status, accepted, result, downlink>>
        BY <1>2 DEF Claim, ClaimIf
    <2>2. worker'[w].pc = "send" /\ \A v \in Worker \ {w} : worker'[v] = worker[v]
        BY <2>1, GotoWorker DEF PCs
    <2>3. AckDurable => \A v \in Worker : LegacyHolds(v)'
        BY <2>1, <2>2 DEF FrameInv, LegacyHolds, Undelivered
    <2>4. ASSUME AckDurable, Undelivered, "legacy" \notin result
          PROVE  IsFiniteSet(Senders') /\ Commands(downlink') + Cardinality(Senders') <= attempts'
        <3>1. IsFiniteSet(Senders) /\ Commands(downlink) + Cardinality(Senders) <= attempts
            BY <2>4 DEF FrameInv
        <3>2. Senders' = Senders \cup {w} /\ w \notin Senders
            BY <2>1, <2>2 DEF Senders
        <3>3. IsFiniteSet(Senders') /\ Cardinality(Senders') = Cardinality(Senders) + 1
            BY <3>1, <3>2, FS_AddElement
        <3>4. Cardinality(Senders) \in Nat /\ Commands(downlink) \in Nat /\ attempts \in Nat
            BY <3>1, CommandsType, FS_CardinalityType DEF TypeOK
        <3> QED BY <2>1, <3>1, <3>3, <3>4
    <2> QED BY <2>1, <2>3, <2>4 DEF FrameInv, AckDurable, Undelivered
<1> QED BY <1>1, <1>2

LEMMA FrameWorker ==
    ASSUME TypeOK, FrameInv, NEW w \in Worker, WorkerStep(w)
    PROVE  FrameInv'
<1>1. kind' = kind
    BY KindKept DEF Next
\* The worker leaves: the row waits on as it was, or waits no more.
<1>2. ASSUME Leave(w), KeepsProtocol, status' = "pending" => UNCHANGED <<status, accepted>>,
             \/ UNCHANGED downlink
             \/ Publish("command") /\ (worker[w].pc = "send" \/ ~Undelivered' \/ "legacy" \in result')
             \/ ~Undelivered'
      PROVE  FrameInv'
    <2>1. worker'[w] = Idle /\ \A v \in Worker \ {w} : worker'[v] = worker[v]
        BY <1>2, LeaveWorker
    <2>2. Waiting /\ \A v \in Worker : LegacyHolds(v)' \/ ~AckDurable
        BY <1>1, <1>2, <2>1, KeepsWaiting DEF LegacyHolds, Idle
    <2> QED BY <1>2, <2>1, <2>2, FrameMove DEF Idle
<1>3. ASSUME NEW capable \in BOOLEAN, Deliver(w, capable) PROVE FrameInv'
    BY <1>3, FrameEnter DEF Deliver
<1>4. ASSUME NEW capable \in BOOLEAN, SweepRetry(w, capable) PROVE FrameInv'
    <2>1. CASE EnterDelivery(w, capable, TRUE)
        BY <2>1, FrameEnter
    <2>2. CASE Leave(w) /\ UNCHANGED <<rowVars, downlink>>
        BY <1>2, <2>2 DEF rowVars, KeepsProtocol, Undelivered
    <2> QED BY <1>4, <2>1, <2>2 DEF SweepRetry
<1>5. ASSUME NEW capable \in BOOLEAN, NEW online \in BOOLEAN, SweepDecide(w, capable, online)
      PROVE  FrameInv'
    BY <1>5, FrameDecide
<1>6. CASE DeferDelivery(w) \/ WorkerCrash(w)
    BY <1>2, <1>6 DEF DeferDelivery, WorkerCrash, rowVars, KeepsProtocol, Undelivered
<1>7. CASE FailDelivery(w)
    <2>1. ~Undelivered'
        BY <1>7 DEF FailDelivery, Undelivered
    <2>2. KeepsProtocol
        BY <1>7, <2>1 DEF FailDelivery, KeepsProtocol
    <2> QED BY <1>2, <1>7, <2>1, <2>2 DEF FailDelivery
<1>8. CASE PublishCommand(w)
    <2>1. UNCHANGED rowVars /\ Publish("command") /\ KeepsProtocol
        BY <1>8 DEF PublishCommand, rowVars, KeepsProtocol, Undelivered
    <2>2. CASE worker[w].pc = "send" /\ Leave(w)
        BY <1>2, <2>1, <2>2 DEF rowVars
    <2>3. CASE worker[w].pc = "route" /\ ~worker[w].ack /\ Goto(w, "sent")
        <3>1. /\ worker'[w].pc = "sent" /\ worker'[w].ack = worker[w].ack
              /\ \A v \in Worker \ {w} : worker'[v] = worker[v]
            BY <2>3, GotoWorker DEF PCs
        <3>2. AckDurable => LegacyHolds(w) /\ LegacyHolds(w)'
            BY <2>1, <2>3, <3>1 DEF FrameInv, LegacyHolds, rowVars, Undelivered
        <3>3. Waiting /\ \A v \in Worker : LegacyHolds(v)' \/ ~AckDurable
            BY <1>1, <2>1, <3>1, <3>2, KeepsWaiting DEF rowVars
        <3>4. AckDurable => ~Undelivered' \/ "legacy" \in result'
            BY <2>1, <2>3, <3>2 DEF LegacyHolds, rowVars, Undelivered
        <3>5. CASE AckDurable
            BY <2>1, <3>1, <3>3, <3>4, <3>5, FrameMove
        <3>6. CASE ~AckDurable
            BY <3>3, <3>6, FrameKept
        <3> QED BY <3>5, <3>6
    <2> QED BY <1>8, <2>2, <2>3 DEF PublishCommand
<1>9. CASE RecordLegacy(w)
    <2>1. CASE Undelivered
        <3>1. status' = "running"
            BY <1>9, <2>1 DEF RecordLegacy, RecordLegacyIf
        <3> QED BY <3>1 DEF FrameInv, LegacyHolds, Undelivered
    <2>2. CASE ~Undelivered
        <3>1. Leave(w) /\ UNCHANGED <<status, accepted, attempts, result, downlink>>
            BY <1>9, <2>2 DEF RecordLegacy, RecordLegacyIf
        <3>2. KeepsProtocol
            BY <3>1 DEF KeepsProtocol, Undelivered
        <3> QED BY <1>2, <3>1, <3>2
    <2> QED BY <2>1, <2>2
<1>10. CASE SweepSelect(w)
    <2>1. /\ worker'[w].pc = "candidate" /\ \A v \in Worker \ {w} : worker'[v] = worker[v]
          /\ UNCHANGED <<rowVars, downlink>>
        BY <1>10 DEF SweepSelect, TypeOK, Idle
    <2>2. KeepsProtocol
        BY <2>1 DEF rowVars, KeepsProtocol, Undelivered
    <2>3. Waiting /\ \A v \in Worker : LegacyHolds(v)' \/ ~AckDurable
        BY <2>1, <2>2, KeepsWaiting DEF rowVars, LegacyHolds
    <2> QED BY <2>1, <2>3, FrameMove
<1>11. CASE TimeoutUnaccepted(w)
    <2>1. ~Undelivered' /\ KeepsProtocol
        BY <1>11 DEF TimeoutUnaccepted, Undelivered, KeepsProtocol
    <2> QED BY <1>2, <1>11, <2>1 DEF TimeoutUnaccepted
<1>12. CASE SeeTimedOutBackup(w)
    <2>1. /\ worker'[w].pc = "reattach" /\ \A v \in Worker \ {w} : worker'[v] = worker[v]
          /\ UNCHANGED <<rowVars, downlink>>
        BY <1>12, GotoWorker DEF SeeTimedOutBackup, PCs
    <2>2. KeepsProtocol
        BY <2>1 DEF rowVars, KeepsProtocol, Undelivered
    <2>3. Waiting /\ \A v \in Worker : LegacyHolds(v)' \/ ~AckDurable
        BY <2>1, <2>2, KeepsWaiting DEF rowVars, LegacyHolds
    <2> QED BY <2>1, <2>3, FrameMove
<1>13. CASE ReattachBackup(w)
    <2>1. ~Undelivered' /\ KeepsProtocol
        BY <1>13 DEF ReattachBackup, Undelivered, KeepsProtocol
    <2> QED BY <1>2, <1>13, <2>1 DEF ReattachBackup
<1> QED BY <1>3, <1>4, <1>5, <1>6, <1>7, <1>8, <1>9, <1>10, <1>11, <1>12, <1>13, FrameClaim
        DEF WorkerStep

(* complete_task publishes nothing and makes no row pending.               *)
LEMMA CompleteTaskWaits ==
    ASSUME NEW wire \in WireStatuses, NEW reported, NEW sameError,
           CompleteTask(wire, reported, sameError)
    PROVE  UNCHANGED downlink /\ (status' = "pending" => UNCHANGED <<status, accepted>>)
<1> DEFINE incoming == IF StopEvidence(wire, reported) THEN "canceled" ELSE wire
<1>1. incoming \in {"success", "failed", "abort", "canceled", "running"}
    BY DEF WireStatuses
<1>2. /\ UNCHANGED downlink
      /\ \/ UNCHANGED <<status, accepted>>
         \/ status' = "running" \/ status' = TerminalOf(incoming)
    BY DEF CompleteTask
<1> HIDE DEF incoming
<1> QED BY <1>1, <1>2 DEF TerminalOf

(* Whatever else publishes to the channel of a waiting row publishes a     *)
(* cancel, and nothing makes a row wait again.                             *)
LEMMA OthersWait ==
    ASSUME FrameStep \/ SweepStep \/ TimeStep
    PROVE  /\ status' = "pending" => UNCHANGED <<status, accepted>>
           /\ UNCHANGED downlink \/ Publish("cancel")
<1> DEFINE Goal == /\ status' = "pending" => UNCHANGED <<status, accepted>>
                   /\ UNCHANGED downlink \/ Publish("cancel")
<1>1. ASSUME NEW wire \in WireStatuses, NEW reported, NEW sameError,
             HandleResult(wire, reported, sameError)
      PROVE  Goal
    <2> DEFINE merged == IF Lifecycle /\ wire \notin {"running", "canceled"}
                         THEN result \cup reported ELSE reported
               passed == IF Lifecycle /\ status \in Active /\ wire = "success"
                            /\ "local_detached" \in merged
                         THEN "running" ELSE wire
    <2>1. passed \in WireStatuses
        BY DEF WireStatuses
    <2>2. CompleteTask(passed, merged, sameError)
        BY <1>1 DEF HandleResult
    <2> HIDE DEF passed, merged
    <2> QED BY <2>1, <2>2, CompleteTaskWaits
<1>2. ASSUME NEW verdict \in {"running", "success", "failed"}, CoordinatorDecides(verdict)
      PROVE  Goal
    <2>1. verdict \in WireStatuses
        BY <1>2 DEF CoordinatorDecides, Detached, WireStatuses
    <2> QED BY <1>2, <2>1, CompleteTaskWaits DEF CoordinatorDecides
<1>3. CASE FrameStep
    BY <1>1, <1>3 DEF FrameStep, AcceptTask, RecordProgress
<1>4. CASE SweepStep
    <2>1. CASE CancelTask
        BY <2>1 DEF CancelTask, Active
    <2>2. CASE SealCancel \/ FailRow \/ CancelRolledBack
        BY <2>2 DEF SealCancel, FailRow, CancelRolledBack, rowVars
    <2>3. ASSUME NEW capable, WatchdogTimeout(capable) PROVE Goal
        BY <2>3 DEF WatchdogTimeout
    <2>4. ASSUME NEW capable, NEW queued, WatchdogDefer(capable, queued) PROVE Goal
        BY <2>4 DEF WatchdogDefer
    <2> QED BY <1>2, <1>4, <2>1, <2>2, <2>3, <2>4 DEF SweepStep, FailOffline, FailActiveForNode
<1>5. CASE TimeStep
    BY <1>5 DEF TimeStep, DeadlinePasses, AckWaitPasses
<1> QED BY <1>3, <1>4, <1>5

LEMMA FrameOthers ==
    ASSUME TypeOK, FrameInv, FrameStep \/ SweepStep \/ TimeStep
    PROVE  FrameInv'
<1>1. UNCHANGED <<kind, worker>> /\ KeepsProtocol
    BY OtherSteps, OthersKeep
<1>2. /\ status' = "pending" => UNCHANGED <<status, accepted>>
      /\ UNCHANGED downlink \/ Publish("cancel")
    BY OthersWait
<1>3. Waiting /\ \A v \in Worker : LegacyHolds(v)' \/ ~AckDurable
    BY <1>1, <1>2, KeepsWaiting
<1>4. Commands(downlink') = Commands(downlink) /\ Commands(downlink) \in Nat
    <2>1. downlink \in Seq(Frames) /\ "cancel" \in Frames
        BY DEF TypeOK, Frames
    <2>2. Commands(downlink) \in Nat
        BY <2>1, CommandsType
    <2>3. CASE downlink' = Append(downlink, "cancel")
        <3>1. Commands(downlink') = Commands(downlink) + 0
            BY <2>1, <2>3, CommandsAppend
        <3> QED BY <2>2, <3>1
    <2> QED BY <1>2, <2>2, <2>3 DEF Publish
<1>5. ASSUME AckDurable, Undelivered, "legacy" \notin result
      PROVE  /\ IsFiniteSet(Senders') /\ Cardinality(Senders') = Cardinality(Senders)
             /\ Cardinality(Senders) \in Nat
    <2>1. Senders' = Senders /\ IsFiniteSet(Senders)
        BY <1>1, <1>5 DEF Senders, FrameInv
    <2> QED BY <2>1, FS_CardinalityType
<1> QED BY <1>3, <1>4, <1>5, FrameKept

LEMMA FrameInvStep ==
    ASSUME TypeOK, FrameInv, [Next]_vars
    PROVE  FrameInv'
<1>1. CASE UNCHANGED vars
    <2>1. UNCHANGED <<kind, status, accepted, attempts, result, worker, downlink>>
        BY <1>1 DEF vars, rowVars
    <2> QED BY <2>1 DEF FrameInv, LegacyHolds, AckDurable, Undelivered, Senders
<1> QED BY <1>1, FrameWorker, FrameOthers DEF Next

(* While an ACK command waits for acceptance, at most one frame has been   *)
(* published for each attempt that was claimed, for any number of workers  *)
(* that deliver it, die between the claim and the publication, or overlap  *)
(* with sweeps (the claim in deliver_agent_task precedes _send_task_command,*)
(* and the protocol of a row is chosen once).                              *)
THEOREM OneFrameForEachAttempt == Spec => []OneFramePerAttempt
<1>1. Init => FrameInv
    <2> SUFFICES ASSUME Init PROVE FrameInv
        OBVIOUS
    <2>1. Senders = {} /\ {i \in DOMAIN downlink : downlink[i] = "command"} = {}
        BY DEF Init, Senders, Idle
    <2>2. IsFiniteSet(Senders) /\ Commands(downlink) = 0 /\ Cardinality(Senders) = 0
        BY <2>1, FS_EmptySet DEF Commands
    <2> QED BY <2>2 DEF Init, FrameInv, LegacyHolds, Idle
<1>2. TypeOK /\ FrameInv => OneFramePerAttempt
    <2> SUFFICES ASSUME TypeOK, FrameInv, "command_ack_v1" \in result, status = "pending"
                 PROVE  Commands(downlink) <= attempts
        BY DEF OneFramePerAttempt
    <2>1. IsFiniteSet(Senders) /\ Commands(downlink) + Cardinality(Senders) <= attempts
        BY DEF FrameInv, Undelivered
    <2>2. Commands(downlink) \in Nat /\ Cardinality(Senders) \in Nat /\ attempts \in Nat
        BY <2>1, CommandsType, FS_CardinalityType DEF TypeOK
    <2> QED BY <2>1, <2>2
<1>3. TypeOK /\ FrameInv /\ [Next]_vars => (TypeOK /\ FrameInv)'
    BY TypeOKStep, FrameInvStep
<1> QED BY TypeOKInit, <1>1, <1>2, <1>3, PTL DEF Spec
=============================================================================
