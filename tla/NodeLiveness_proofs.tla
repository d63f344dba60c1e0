------------------------ MODULE NodeLiveness_proofs --------------------------
(***************************************************************************)
(* Theorems about NodeLiveness for every set of sessions and every bound   *)
(* of the clock, the queue and the faults.                                 *)
(***************************************************************************)
EXTENDS NodeLiveness, TLAPS

-----------------------------------------------------------------------------
(* The inductive invariant                                                 *)

Rows == [online : BOOLEAN, updatedAt : Time, lastSeen : Time]
Marks == [inventory : Who, label : Who, source : Who]
Drains == [pc : {"snapshot", "choose", "merge", "available"}, hb : Heartbeats,
           owned : BOOLEAN, applied : BOOLEAN, missing : BOOLEAN]

\* Nothing was observed in the future.
Causal ==
  /\ node.updatedAt <= clock
  /\ \A s \in Sessions : sess[s].at <= clock
  /\ \A hb \in queue : hb.at <= clock
  /\ drain # NoDrain => drain.hb.at <= clock

\* What a sweep has read was silent, and has not become less so.
SweepSilent == sweep # NoSweep => clock - sweep.lastSeen >= Grace

IInv == TypeOK /\ Causal /\ SweepSilent /\ EvidenceOfSession

-----------------------------------------------------------------------------
(* The writers of the row                                                  *)

(* An observation is recorded unless a later one was; it touches nothing   *)
(* but the availability and its time.                                      *)
LEMMA RecordAvailabilityEffect ==
    ASSUME node \in Rows, NEW online \in BOOLEAN, NEW at \in Time,
           RecordAvailability(online, at)
    PROVE  /\ node' \in Rows
           /\ node'.updatedAt >= node.updatedAt
           /\ node'.updatedAt \in {node.updatedAt, at}
           /\ node'.lastSeen = node.lastSeen
           /\ node' = node \/ node'.online = online
<1>1. node.updatedAt \in Int /\ at \in Int
    BY BoundAssumption DEF Rows, Time
<1>2. CASE node.updatedAt > at
    BY <1>1, <1>2 DEF RecordAvailability
<1>3. CASE ~(node.updatedAt > at)
  <2>1. node' = [node EXCEPT !.online = online, !.updatedAt = at]
      BY <1>3 DEF RecordAvailability
  <2>2. node' = [online |-> online, updatedAt |-> at, lastSeen |-> node.lastSeen]
      BY <2>1 DEF Rows
  <2> QED BY <1>1, <1>3, <2>2 DEF Rows
<1> QED BY <1>2, <1>3

(* A heartbeat moves the time of the last sign of life forward or not at   *)
(* all.                                                                    *)
LEMMA LatestEffect ==
    ASSUME node \in Rows, NEW at \in Time,
           node' = IF IsLatest(at) THEN [node EXCEPT !.lastSeen = at] ELSE node
    PROVE  /\ node' \in Rows
           /\ node'.lastSeen >= node.lastSeen
           /\ node'.online = node.online /\ node'.updatedAt = node.updatedAt
BY BoundAssumption DEF IsLatest, Rows, Time

(* A merge leaves the inventory with the session of the heartbeat, and     *)
(* capabilities only as evidence of the session that reported them.        *)
LEMMA MergeEffect ==
    ASSUME evidence \in Marks, EvidenceOfSession, NEW hb \in Heartbeats, Merge(hb)
    PROVE  /\ evidence' \in Marks
           /\ evidence'.label \in {NoSession, evidence'.inventory}
           /\ EvidenceOfSession'
BY SessionAssumption DEF Merge, Marks, Heartbeats, Who, EvidenceOfSession, HasCapabilities

-----------------------------------------------------------------------------
(* The invariant holds initially and is preserved                          *)

LEMMA InitInv == Init => IInv
BY SessionAssumption, BoundAssumption
   DEF Init, IInv, TypeOK, Causal, SweepSilent, EvidenceOfSession, HasCapabilities, Time, Who,
       NoDrain, NoSweep

LEMMA Split == TypeOK => /\ node \in Rows /\ evidence \in Marks /\ clock \in Time
                         /\ drain # NoDrain => drain \in Drains
                         /\ sess \in [Sessions -> [pc : {"new", "hook", "seen", "available", "open",
                                         "persist", "revive", "enqueue", "closed"}, at : Time]]
BY DEF TypeOK, Rows, Marks, Drains, NoDrain

(* The steps of a consumer.                                                *)
LEMMA ConsumerInv ==
    ASSUME IInv, NEW s \in Sessions,
           Connect(s) \/ Consumer(s) \/ Heartbeat(s) \/ OnDisconnected(s)
    PROVE  IInv'
<1> USE SessionAssumption, BoundAssumption, Split
<1> DEFINE Others == UNCHANGED <<clock, evidence, drain, sweep>>
<1>0. TypeOK /\ Causal /\ SweepSilent /\ EvidenceOfSession
    BY DEF IInv
<1>1. CASE Connect(s)
    BY <1>0, <1>1 DEF Connect, Goto, IInv, TypeOK, Causal, SweepSilent, EvidenceOfSession,
       HasCapabilities, Who
<1>2. CASE OnConnected(s)
    BY <1>0, <1>2 DEF OnConnected, SetLocation, Fault, IInv, TypeOK, Causal, SweepSilent,
       EvidenceOfSession, HasCapabilities, Who, Time
<1>3. CASE RecordSeen(s)
    BY <1>0, <1>3 DEF RecordSeen, Goto, IInv, TypeOK, Causal, SweepSilent, EvidenceOfSession,
       HasCapabilities, Who, Time
<1>4. CASE RecordConnected(s)
  <2>1. sess[s].at \in Time
      BY <1>0
  <2>2. node' \in Rows /\ node'.updatedAt \in {node.updatedAt, sess[s].at}
      BY <1>0, <1>4, <2>1, RecordAvailabilityEffect DEF RecordConnected
  <2> QED BY <1>0, <1>4, <2>1, <2>2 DEF RecordConnected, IInv, TypeOK, Causal, SweepSilent,
         EvidenceOfSession, HasCapabilities, Who, Time, Rows
<1>5. CASE Heartbeat(s)
    BY <1>0, <1>5 DEF Heartbeat, EnsureLocation, IsCurrent, Goto, Fault, IInv, TypeOK, Causal,
       SweepSilent, EvidenceOfSession, HasCapabilities, Who, Time
<1>6. CASE PersistLiveness(s)
    BY <1>0, <1>6 DEF PersistLiveness, IsLatest, Goto, Fault, IInv, TypeOK, Causal,
       SweepSilent, EvidenceOfSession, HasCapabilities, Who, Time
<1>7. CASE Revive(s)
  <2>1. sess[s].at \in Time
      BY <1>0
  <2>2. node' \in Rows /\ node'.updatedAt \in {node.updatedAt, sess[s].at}
      BY <1>0, <1>7, <2>1, RecordAvailabilityEffect DEF Revive
  <2> QED BY <1>0, <1>7, <2>1, <2>2 DEF Revive, IInv, TypeOK, Causal, SweepSilent,
         EvidenceOfSession, HasCapabilities, Who, Time, Rows
<1>8. CASE Enqueue(s)
    BY <1>0, <1>8 DEF Enqueue, Goto, Fault, IInv, TypeOK, Causal, SweepSilent,
       EvidenceOfSession, HasCapabilities, Who, Time, Heartbeats
<1>9. CASE OnDisconnected(s)
    BY <1>0, <1>9 DEF OnDisconnected, ClearIfSession, Goto, IInv, TypeOK, Causal, SweepSilent,
       EvidenceOfSession, HasCapabilities, Who, Time
<1> QED BY <1>1, <1>2, <1>3, <1>4, <1>5, <1>6, <1>7, <1>8, <1>9 DEF Consumer


(* The follow-up of a queued heartbeat.                                    *)
LEMMA FollowUpInv ==
    ASSUME IInv, \/ \E hb \in queue : TakeHeartbeat(hb) \/ DropHeartbeat(hb)
                 \/ FollowUp
    PROVE  IInv'
<1> USE SessionAssumption, BoundAssumption, Split
<1>0. TypeOK /\ Causal /\ SweepSilent /\ EvidenceOfSession
    BY DEF IInv
<1>1. ASSUME NEW hb \in queue, TakeHeartbeat(hb)
      PROVE  IInv'
  <2>1. hb \in Heartbeats
      BY <1>0 DEF TypeOK
  <2>2. drain' \in Drains /\ drain'.hb = hb /\ queue' \subseteq queue
      BY <1>1, <2>1 DEF TakeHeartbeat, Drains
  <2>3. faults' \in 0..MaxFaults
      BY <1>0, <1>1 DEF TakeHeartbeat, Fault, TypeOK
  <2>4. UNCHANGED <<clock, route, live, sess, node, evidence, sweep>>
      BY <1>1 DEF TakeHeartbeat
  <2> QED BY <1>0, <2>1, <2>2, <2>3, <2>4 DEF IInv, TypeOK, Causal, SweepSilent,
         EvidenceOfSession, HasCapabilities, Drains
<1>2. ASSUME NEW hb \in queue, DropHeartbeat(hb)
      PROVE  IInv'
    BY <1>0, <1>2 DEF DropHeartbeat, IInv, TypeOK, Causal, SweepSilent, EvidenceOfSession,
       HasCapabilities
<1>3. CASE SnapshotLiveness
  <2>1. drain \in Drains /\ drain.hb.at \in Time
      BY <1>0, <1>3 DEF SnapshotLiveness, Drains, Heartbeats, NoDrain
  <2>2. node' \in Rows /\ node'.updatedAt = node.updatedAt
      BY <1>0, <1>3, <2>1, LatestEffect DEF SnapshotLiveness
  <2>3. IsLatest(drain.hb.at) \in BOOLEAN
      BY DEF IsLatest
  <2>4. drain' \in Drains /\ drain'.hb = drain.hb
      BY <1>3, <2>1, <2>3 DEF SnapshotLiveness, Drains
  <2>5. UNCHANGED <<clock, route, live, sess, evidence, queue, sweep, faults>>
      BY <1>3 DEF SnapshotLiveness
  <2>6. drain.pc = "snapshot"
      BY <1>3 DEF SnapshotLiveness
  <2> QED BY <1>0, <2>1, <2>2, <2>4, <2>5, <2>6 DEF IInv, TypeOK, Causal, SweepSilent,
         EvidenceOfSession, HasCapabilities, Drains, Rows, NoDrain
<1>4. CASE ChooseInventory
  <2>1. drain \in Drains
      BY <1>0, <1>4 DEF ChooseInventory, NoDrain
  <2>2. drain' = NoDrain \/ (drain' \in Drains /\ drain'.hb = drain.hb)
      BY <1>4, <2>1 DEF ChooseInventory, Choose, Drains
  <2>3. UNCHANGED <<clock, route, live, sess, node, evidence, queue, sweep, faults>>
      BY <1>4 DEF ChooseInventory
  <2>4. drain.pc = "choose"
      BY <1>4 DEF ChooseInventory
  <2> QED BY <1>0, <2>1, <2>2, <2>3, <2>4 DEF IInv, TypeOK, Causal, SweepSilent,
         EvidenceOfSession, HasCapabilities, Drains, NoDrain
<1>5. CASE SnapshotInventory
  <2>1. drain \in Drains /\ drain.hb \in Heartbeats /\ drain.hb.at \in Time
      BY <1>0, <1>5 DEF SnapshotInventory, Drains, Heartbeats, NoDrain
  <2>2. node' \in Rows /\ node'.updatedAt = node.updatedAt
      BY <1>0, <1>5, <2>1 DEF SnapshotInventory, Rows, IsLatest
  <2>3. /\ evidence' \in Marks /\ evidence'.label \in {NoSession, evidence'.inventory}
        /\ EvidenceOfSession'
    <3>1. CASE IsLatest(drain.hb.at)
        BY <1>0, <1>5, <2>1, <3>1, MergeEffect DEF SnapshotInventory
    <3>2. CASE ~IsLatest(drain.hb.at)
      <4>1. evidence' = evidence \/ evidence' =
              [inventory |-> drain.hb.of, label |-> drain.hb.of, source |-> drain.hb.of]
          BY <1>5, <3>2 DEF SnapshotInventory
      <4> QED BY <1>0, <2>1, <4>1 DEF TypeOK, Marks, Who, Heartbeats, EvidenceOfSession,
             HasCapabilities
    <3> QED BY <3>1, <3>2
  <2>4. drain' = NoDrain \/ (drain' \in Drains /\ drain'.hb = drain.hb)
      BY <1>5, <2>1 DEF SnapshotInventory, Drains
  <2>5. UNCHANGED <<clock, route, live, sess, queue, sweep, faults>>
      BY <1>5 DEF SnapshotInventory
  <2>6. drain.pc = "merge"
      BY <1>5 DEF SnapshotInventory
  <2> QED BY <1>0, <2>1, <2>2, <2>3, <2>4, <2>5, <2>6 DEF IInv, TypeOK, Causal, SweepSilent,
         Drains, Rows, Marks, NoDrain
<1>6. CASE RecordHeartbeat
  <2>1. drain \in Drains /\ drain.hb.at \in Time /\ drain.hb.at <= clock
      BY <1>0, <1>6 DEF RecordHeartbeat, Drains, Heartbeats, NoDrain, Causal
  <2>2. node' \in Rows /\ node'.updatedAt \in {node.updatedAt, drain.hb.at}
      BY <1>0, <1>6, <2>1, RecordAvailabilityEffect DEF RecordHeartbeat
  <2>3. drain' = NoDrain /\ UNCHANGED <<clock, route, live, sess, evidence, queue, sweep, faults>>
      BY <1>6 DEF RecordHeartbeat
  <2> QED BY <1>0, <2>1, <2>2, <2>3 DEF IInv, TypeOK, Causal, SweepSilent, EvidenceOfSession,
         HasCapabilities, Rows
<1> QED BY <1>1, <1>2, <1>3, <1>4, <1>5, <1>6 DEF FollowUp

(* The sweeps, the socket and time.                                        *)
LEMMA SweepInv ==
    ASSUME IInv, ReadStale \/ MarkOffline \/ MarkStaleOffline \/ LoseSocket \/ Tick \/ RouteExpires
    PROVE  IInv'
<1> USE SessionAssumption, BoundAssumption, Split
<1>0. TypeOK /\ Causal /\ SweepSilent /\ EvidenceOfSession
    BY DEF IInv
<1>1. CASE ReadStale
    BY <1>0, <1>1 DEF ReadStale, Silent, IInv, TypeOK, Causal, SweepSilent, EvidenceOfSession,
       HasCapabilities, Rows, NoSweep
<1>2. CASE MarkOffline
  <2>1. node' \in Rows /\ node'.updatedAt \in {node.updatedAt, clock}
      BY <1>0, <1>2, RecordAvailabilityEffect DEF MarkOffline
  <2>2. sweep' = NoSweep /\ UNCHANGED <<clock, route, live, sess, evidence, queue, drain, faults>>
      BY <1>2 DEF MarkOffline
  <2> QED BY <1>0, <2>1, <2>2 DEF IInv, TypeOK, Causal, SweepSilent, EvidenceOfSession,
         HasCapabilities, Rows, Time
<1>3. CASE MarkStaleOffline
  <2>1. node' \in Rows /\ node'.updatedAt = clock
      BY <1>0, <1>3 DEF MarkStaleOffline, Rows
  <2>2. faults' \in 0..MaxFaults
      BY <1>0, <1>3 DEF MarkStaleOffline, Fault, TypeOK
  <2>3. UNCHANGED <<clock, route, live, sess, evidence, queue, drain, sweep>>
      BY <1>3 DEF MarkStaleOffline
  <2> QED BY <1>0, <2>1, <2>2, <2>3 DEF IInv, TypeOK, Causal, SweepSilent, EvidenceOfSession,
         HasCapabilities, Rows, Time
<1>4. CASE LoseSocket
    BY <1>0, <1>4 DEF LoseSocket, IInv, TypeOK, Causal, SweepSilent, EvidenceOfSession,
       HasCapabilities, Who
<1>5. CASE Tick
  <2>1. clock' = clock + 1 /\ clock' \in Time /\ clock < clock'
      BY <1>0, <1>5 DEF Tick, Time
  <2>2. UNCHANGED <<route, live, sess, node, evidence, queue, drain, sweep, faults>>
      BY <1>5 DEF Tick
  <2>3. TypeOK' /\ EvidenceOfSession'
      BY <1>0, <2>1, <2>2 DEF TypeOK, EvidenceOfSession, HasCapabilities
  <2>4. Causal'
      BY <1>0, <2>1, <2>2 DEF TypeOK, Causal, Rows, Drains, Heartbeats, Time
  <2>5. SweepSilent'
      BY <1>0, <2>1, <2>2 DEF TypeOK, SweepSilent, Time
  <2> QED BY <2>3, <2>4, <2>5 DEF IInv
<1>6. CASE RouteExpires
    BY <1>0, <1>6 DEF RouteExpires, Fault, IInv, TypeOK, Causal, SweepSilent,
       EvidenceOfSession, HasCapabilities, Who
<1> QED BY <1>1, <1>2, <1>3, <1>4, <1>5, <1>6

LEMMA StepInv == IInv /\ [Next]_vars => IInv'
<1> SUFFICES ASSUME IInv, [Next]_vars PROVE IInv'
    OBVIOUS
<1>1. CASE UNCHANGED vars
    BY <1>1 DEF vars, IInv, TypeOK, Causal, SweepSilent, EvidenceOfSession, HasCapabilities
<1>2. CASE Next
    BY <1>2, ConsumerInv, FollowUpInv, SweepInv DEF Next
<1> QED BY <1>1, <1>2

LEMMA Invariance == Spec => []IInv
BY InitInv, StepInv, PTL DEF Spec

-----------------------------------------------------------------------------
(* Theorems                                                                *)

(* Every reachable state is well typed.                                    *)
THEOREM LivenessTypeCorrect == Spec => []TypeOK
BY Invariance, PTL DEF IInv

(* Capabilities count as evidence only of the session that reported them,  *)
(* whatever heartbeats are delayed, repeated or overtaken (ws/uplink.py,   *)
(* _merge_heartbeat_inventory_updates).                                    *)
THEOREM EvidenceIsOfSession == Spec => []EvidenceOfSession
BY Invariance, PTL DEF IInv

(* No step records an older observation over a later one, and only the     *)
(* connect hook moves the time of the last sign of life back.              *)
LEMMA OrderedStep ==
    ASSUME IInv, [Next]_vars
    PROVE  /\ node'.updatedAt >= node.updatedAt
           /\ node'.lastSeen < node.lastSeen => \E s \in Sessions : sess[s].pc = "seen"
<1> USE BoundAssumption, Split
<1>0. TypeOK /\ Causal /\ node \in Rows /\ clock \in Time
    BY DEF IInv
<1>1. /\ node.updatedAt \in Int /\ node.lastSeen \in Int /\ clock \in Int
      /\ node.updatedAt <= clock
    BY <1>0 DEF Rows, Time, Causal
<1>2. CASE UNCHANGED node
    BY <1>1, <1>2
<1>3. ASSUME NEW s \in Sessions, RecordSeen(s)
      PROVE  node'.updatedAt = node.updatedAt /\ sess[s].pc = "seen"
    BY <1>0, <1>3 DEF RecordSeen, Rows
<1>4. ASSUME NEW s \in Sessions, RecordConnected(s) \/ Revive(s)
      PROVE  node'.updatedAt >= node.updatedAt /\ node'.lastSeen = node.lastSeen
    BY <1>0, <1>4, RecordAvailabilityEffect DEF RecordConnected, Revive
<1>7. ASSUME RecordHeartbeat
      PROVE  node'.updatedAt >= node.updatedAt /\ node'.lastSeen = node.lastSeen
  <2>1. drain.hb.at \in Time
      BY <1>0, <1>7 DEF RecordHeartbeat, Drains, Heartbeats, NoDrain
  <2>2. CASE RecordAvailability(TRUE, drain.hb.at)
      BY <1>0, <2>1, <2>2, RecordAvailabilityEffect
  <2>3. CASE UNCHANGED node
      BY <1>1, <2>3
  <2>4. RecordAvailability(TRUE, drain.hb.at) \/ UNCHANGED node
      BY <1>7 DEF RecordHeartbeat
  <2> QED BY <2>2, <2>3, <2>4
<1>8. ASSUME MarkOffline \/ MarkStaleOffline
      PROVE  node'.updatedAt >= node.updatedAt /\ node'.lastSeen = node.lastSeen
  <2>1. CASE MarkStaleOffline
      BY <1>0, <1>1, <2>1 DEF MarkStaleOffline, Rows
  <2>2. CASE RecordAvailability(FALSE, clock)
      BY <1>0, <2>2, RecordAvailabilityEffect
  <2>3. CASE UNCHANGED node
      BY <1>1, <2>3
  <2>4. MarkStaleOffline \/ RecordAvailability(FALSE, clock) \/ UNCHANGED node
      BY <1>8 DEF MarkOffline
  <2> QED BY <2>1, <2>2, <2>3, <2>4
<1>9. ASSUME NEW s \in Sessions,
             Connect(s) \/ OnConnected(s) \/ Enqueue(s) \/ Heartbeat(s) \/ OnDisconnected(s)
      PROVE  UNCHANGED node
    BY <1>9 DEF Connect, OnConnected, Enqueue, Heartbeat, OnDisconnected
<1>10. ASSUME \/ \E hb \in queue : TakeHeartbeat(hb) \/ DropHeartbeat(hb)
              \/ ChooseInventory \/ ReadStale \/ LoseSocket \/ Tick \/ RouteExpires
              \/ UNCHANGED vars
       PROVE  UNCHANGED node
    BY <1>10 DEF TakeHeartbeat, DropHeartbeat, ChooseInventory, ReadStale, LoseSocket, Tick,
       RouteExpires, vars
<1>11. CASE \E s \in Sessions : Connect(s) \/ Consumer(s) \/ Heartbeat(s) \/ OnDisconnected(s)
  <2>1. PICK s \in Sessions : Connect(s) \/ Consumer(s) \/ Heartbeat(s) \/ OnDisconnected(s)
      BY <1>11
  <2>2. UNCHANGED node \/ RecordSeen(s) \/ RecordConnected(s) \/ Revive(s) \/ PersistLiveness(s)
      BY <2>1, <1>9 DEF Consumer
  <2>3. CASE RecordSeen(s)
      BY <1>1, <1>3, <2>3
  <2>4. CASE RecordConnected(s) \/ Revive(s)
    <3>1. node'.updatedAt >= node.updatedAt /\ node'.lastSeen = node.lastSeen
        BY <1>4, <2>4
    <3> QED BY <1>1, <3>1
  <2>5. CASE PersistLiveness(s)
    <3>1. node' \in Rows /\ node'.updatedAt = node.updatedAt /\ node'.lastSeen >= node.lastSeen
        BY <1>0, <1>1, <2>5, LatestEffect DEF PersistLiveness
    <3> QED BY <1>1, <3>1 DEF Rows, Time
  <2> QED BY <1>2, <2>2, <2>3, <2>4, <2>5
<1>12. CASE SnapshotLiveness \/ SnapshotInventory
  <2>1. drain.hb.at \in Time
      BY <1>0, <1>12 DEF SnapshotLiveness, SnapshotInventory, Drains, Heartbeats, NoDrain
  <2>2. node' \in Rows /\ node'.updatedAt = node.updatedAt /\ node'.lastSeen >= node.lastSeen
      BY <1>0, <1>1, <1>12, <2>1, LatestEffect DEF SnapshotLiveness, SnapshotInventory
  <2> QED BY <1>1, <2>2 DEF Rows, Time
<1>13. CASE RecordHeartbeat \/ MarkOffline \/ MarkStaleOffline
  <2>1. node'.updatedAt >= node.updatedAt /\ node'.lastSeen = node.lastSeen
      BY <1>7, <1>8, <1>13
  <2> QED BY <1>1, <2>1
<1> QED BY <1>2, <1>10, <1>11, <1>12, <1>13 DEF Next, FollowUp

(* Observations are recorded in order, for any number of sessions and any  *)
(* delay of hooks and heartbeats.                                          *)
THEOREM ObservationsAreOrdered == Spec => ObservationsInOrder
<1>1. IInv /\ [Next]_vars =>
        [ /\ node'.updatedAt >= node.updatedAt
          /\ node'.lastSeen < node.lastSeen => \E s \in Sessions : sess[s].pc = "seen" ]_vars
    BY OrderedStep
<1> QED BY <1>1, Invariance, PTL DEF Spec, ObservationsInOrder

(* A node is marked offline only while its row says that nothing was heard *)
(* for the grace period, although both sweeps decide from earlier reads.   *)
THEOREM OfflineNeedsSilence == Spec => OfflineOnlyWhenSilent
<1>1. ASSUME IInv, [Next]_vars, node.online, ~node'.online PROVE Silent
  <2> USE BoundAssumption, Split
  <2>0. TypeOK /\ SweepSilent /\ node \in Rows /\ clock \in Time
      BY <1>1 DEF IInv
  <2>1. CASE MarkStaleOffline
      BY <2>1 DEF MarkStaleOffline
  <2>2. CASE MarkOffline
      BY <1>1, <2>0, <2>2 DEF MarkOffline, SweepSilent, Silent
  <2>3. ASSUME NEW s \in Sessions, Consumer(s) PROVE FALSE
    <3>1. sess[s].at \in Time
        BY <2>0
    <3>2. CASE RecordConnected(s) \/ Revive(s)
        BY <1>1, <2>0, <3>1, <3>2, RecordAvailabilityEffect DEF RecordConnected, Revive
    <3>3. CASE PersistLiveness(s)
        BY <1>1, <2>0, <3>3, LatestEffect DEF PersistLiveness
    <3> QED BY <1>1, <2>0, <2>3, <3>2, <3>3
          DEF Consumer, OnConnected, RecordSeen, Enqueue, Rows
  <2>4. CASE FollowUp
    <3>1. CASE SnapshotLiveness \/ SnapshotInventory
        BY <1>1, <2>0, <3>1 DEF SnapshotLiveness, SnapshotInventory, Rows
    <3>2. CASE RecordHeartbeat
      <4>1. drain \in Drains
          BY <1>1, <3>2 DEF IInv, RecordHeartbeat, NoDrain
      <4>2. drain.hb.at \in Time
          BY <4>1 DEF Drains, Heartbeats
      <4>3. RecordAvailability(TRUE, drain.hb.at) \/ UNCHANGED node
          BY <3>2 DEF RecordHeartbeat
      <4> QED BY <1>1, <2>0, <4>2, <4>3, RecordAvailabilityEffect
    <3> QED BY <1>1, <2>4, <3>1, <3>2 DEF FollowUp, ChooseInventory
  <2>5. ASSUME NEW s \in Sessions, Connect(s) \/ Heartbeat(s) \/ OnDisconnected(s)
        PROVE FALSE
      BY <1>1, <2>5 DEF Connect, Heartbeat, OnDisconnected
  <2>6. ASSUME \/ \E hb \in queue : TakeHeartbeat(hb) \/ DropHeartbeat(hb)
               \/ ReadStale \/ LoseSocket \/ Tick \/ RouteExpires \/ UNCHANGED vars
        PROVE FALSE
      BY <1>1, <2>6 DEF TakeHeartbeat, DropHeartbeat, ReadStale, LoseSocket, Tick,
         RouteExpires, vars
  <2> QED BY <1>1, <2>1, <2>2, <2>3, <2>4, <2>5, <2>6 DEF Next
<1>2. IInv /\ [Next]_vars => [node.online /\ ~node'.online => Silent]_vars
    BY <1>1
<1> QED BY <1>2, Invariance, PTL DEF Spec, OfflineOnlyWhenSilent

=============================================================================
