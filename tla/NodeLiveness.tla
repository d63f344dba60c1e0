---------------------------- MODULE NodeLiveness -----------------------------
(***************************************************************************)
(* Is an Agent online?  The Node row in PostgreSQL as its writers see it:  *)
(* the connect hook and the heartbeats of the WebSocket consumer, the      *)
(* queued follow-up of heartbeats (apps/node/ws/uplink.py), and the two    *)
(* sweeps that mark silent nodes offline (internal/node_registry.py).      *)
(*                                                                         *)
(* Timestamps are values of a clock.  An observation may be written much   *)
(* later than it was made: hooks wait for the row lock, heartbeats wait in *)
(* the uplink queue (UplinkQueue), and a sweep decides from an earlier     *)
(* read.  The inventory of the node is reduced to its capabilities, which  *)
(* count as evidence only for the session that reported them.              *)
(***************************************************************************)
EXTENDS RouteKey, Integers, FiniteSets

CONSTANTS Grace,       \* AGENT_LOC_TTL_SECONDS, in ticks
          MaxClock,    \* bound: ticks
          MaxQueue,    \* bound: heartbeats that wait in the queue
          MaxFaults    \* bound: Redis and database errors, redeliveries, late heartbeats

ASSUME BoundAssumption ==
  /\ Grace \in Nat \ {0} /\ MaxClock \in Nat /\ MaxQueue \in Nat /\ MaxFaults \in Nat

VARIABLES
  clock,
  route,       \* the route key
  live,        \* the session that the Agent uses
  sess,        \* consumers: next step and time of the observation in hand
  node,        \* the Node row
  evidence,    \* its inventory: sessions of inventory, label and source of capabilities
  queue,       \* heartbeats in the uplink queue
  drain,       \* the follow-up in progress
  sweep,       \* the row as reconcile_node_availability has read it
  faults

vars == <<clock, route, live, sess, node, evidence, queue, drain, sweep, faults>>

Time == 0..MaxClock
Heartbeats == [of : Sessions, at : Time, caps : BOOLEAN]
NoDrain == [pc |-> "idle"]
NoSweep == [pc |-> "idle"]
Who == Sessions \cup {NoSession}

TypeOK ==
  /\ clock \in Time /\ route \in Who /\ live \in Who
  /\ sess \in [Sessions -> [pc : {"new", "hook", "seen", "available", "open", "persist",
                                  "revive", "enqueue", "closed"}, at : Time]]
  /\ node \in [online : BOOLEAN, updatedAt : Time, lastSeen : Time]
  /\ evidence \in [inventory : Who, label : Who, source : Who]
  /\ evidence.label \in {NoSession, evidence.inventory}
  /\ queue \subseteq Heartbeats
  /\ drain \in {NoDrain} \cup
       [pc : {"snapshot", "choose", "merge", "available"}, hb : Heartbeats,
        owned : BOOLEAN, applied : BOOLEAN, missing : BOOLEAN]
  /\ sweep \in {NoSweep} \cup [pc : {"stale"}, updatedAt : Time, lastSeen : Time]
  /\ faults \in 0..MaxFaults

Init ==
  /\ clock = 0 /\ route = NoSession /\ live = NoSession
  /\ sess = [s \in Sessions |-> [pc |-> "new", at |-> 0]]
  /\ node = [online |-> FALSE, updatedAt |-> 0, lastSeen |-> 0]
  /\ evidence = [inventory |-> NoSession, label |-> NoSession, source |-> NoSession]
  /\ queue = {} /\ drain = NoDrain /\ sweep = NoSweep /\ faults = 0

Fault == faults < MaxFaults /\ faults' = faults + 1
Goto(s, pc) == sess' = [sess EXCEPT ![s].pc = pc]
Silent == clock - node.lastSeen >= Grace

(***************************************************************************)
(* The row                                                                 *)
(***************************************************************************)
\* Mutant: an observation is recorded however old it is.
RecordLatestWrite(online, at) == node' = [node EXCEPT !.online = online, !.updatedAt = at]

\* record_node_availability, under the row lock: the latest observation wins.
RecordAvailability(online, at) ==
  node' = IF node.updatedAt > at THEN node
          ELSE [node EXCEPT !.online = online, !.updatedAt = at]

\* _persist_heartbeat_snapshot applies an observation that is not older than the
\* last one.
IsLatest(at) == node.lastSeen <= at

(***************************************************************************)
(* Agent and consumer                                                      *)
(***************************************************************************)
\* Sessions are fresh identifiers: which one is taken makes no difference.
Connect(s) ==
  /\ live = NoSession /\ \E n \in Sessions : sess[n].pc = "new"
  /\ s = CHOOSE n \in Sessions : sess[n].pc = "new"
  /\ live' = s /\ Goto(s, "hook")
  /\ UNCHANGED <<clock, route, node, evidence, queue, drain, sweep, faults>>

LoseSocket ==
  /\ live # NoSession
  /\ live' = NoSession
  /\ UNCHANGED <<clock, route, sess, node, evidence, queue, drain, sweep, faults>>

\* on_agent_connected: the route, then the time of the observation ...
OnConnected(s) ==
  /\ sess[s].pc = "hook"
  /\ \/ route' = SetLocation(route, s) /\ UNCHANGED faults
     \/ Fault /\ UNCHANGED route
  /\ sess' = [sess EXCEPT ![s] = [pc |-> "seen", at |-> clock]]
  /\ UNCHANGED <<clock, live, node, evidence, queue, drain, sweep>>

\* ... which is written whatever the row says, and then recorded.
RecordSeen(s) ==
  /\ sess[s].pc = "seen"
  /\ node' = [node EXCEPT !.lastSeen = sess[s].at]
  /\ Goto(s, "available")
  /\ UNCHANGED <<clock, route, live, evidence, queue, drain, sweep, faults>>

RecordConnected(s) ==
  /\ sess[s].pc = "available"
  /\ RecordAvailability(TRUE, sess[s].at)
  /\ sess' = [sess EXCEPT ![s] = [pc |-> "open", at |-> 0]]
  /\ UNCHANGED <<clock, route, live, evidence, queue, drain, sweep, faults>>

\* receive, heartbeat: renew the route; a superseded session is ignored.
Heartbeat(s) ==
  /\ sess[s].pc = "open" /\ live = s
  /\ \/ /\ route' = EnsureLocation(route, s) /\ UNCHANGED faults
        /\ IsCurrent(route', s)
        /\ Goto(s, "persist")
     \/ Fault /\ UNCHANGED route /\ Goto(s, "persist")
  /\ UNCHANGED <<clock, live, node, evidence, queue, drain, sweep>>

\* persist_heartbeat_liveness: the update of an online node, ...
PersistLiveness(s) ==
  /\ sess[s].pc = "persist"
  /\ \/ /\ IF node.online
             THEN /\ node' = IF IsLatest(clock) THEN [node EXCEPT !.lastSeen = clock] ELSE node
                  /\ sess' = [sess EXCEPT ![s].pc = "enqueue"]
             ELSE /\ sess' = [sess EXCEPT ![s] = [pc |-> "revive", at |-> clock]]
                  /\ UNCHANGED node
        /\ UNCHANGED faults
     \/ Fault /\ Goto(s, "enqueue") /\ UNCHANGED node
  /\ UNCHANGED <<clock, route, live, evidence, queue, drain, sweep>>

\* ... or an observation that brings it back.
Revive(s) ==
  /\ sess[s].pc = "revive"
  /\ RecordAvailability(TRUE, sess[s].at)
  /\ sess' = [sess EXCEPT ![s] = [pc |-> "enqueue", at |-> 0]]
  /\ UNCHANGED <<clock, route, live, evidence, queue, drain, sweep, faults>>

\* enqueue_uplink, with the time of reception; a failure is logged.
Enqueue(s) ==
  /\ sess[s].pc = "enqueue"
  /\ \/ /\ Cardinality(queue) < MaxQueue
        /\ \E caps \in BOOLEAN : queue' = queue \cup {[of |-> s, at |-> clock, caps |-> caps]}
        /\ UNCHANGED faults
     \/ Cardinality(queue) = MaxQueue /\ UNCHANGED <<queue, faults>>
     \/ Fault /\ UNCHANGED queue
  /\ Goto(s, "open")
  /\ UNCHANGED <<clock, route, live, node, evidence, drain, sweep>>

OnDisconnected(s) ==
  /\ sess[s].pc = "open" /\ live # s
  /\ route' = ClearIfSession(route, s) /\ Goto(s, "closed")
  /\ UNCHANGED <<clock, live, node, evidence, queue, drain, sweep, faults>>

(***************************************************************************)
(* Follow-up of a queued heartbeat: _process_heartbeat_followup            *)
(***************************************************************************)
\* Ownership of the route is read once; an error of Redis leaves it unknown.  The entry
\* is removed, or stays and is delivered again.
TakeHeartbeat(hb) ==
  /\ drain = NoDrain /\ hb \in queue
  /\ \E owned, again \in BOOLEAN :
       /\ owned => IsCurrent(route, hb.of)
       /\ IF owned /\ ~again THEN UNCHANGED faults ELSE Fault
       /\ queue' = IF again THEN queue ELSE queue \ {hb}
       /\ drain' = [pc |-> "snapshot", hb |-> hb, owned |-> owned,
                    applied |-> FALSE, missing |-> FALSE]
  /\ UNCHANGED <<clock, route, live, sess, node, evidence, sweep>>

\* The heartbeat of a superseded session is dropped.
DropHeartbeat(hb) ==
  /\ drain = NoDrain /\ hb \in queue /\ ~IsCurrent(route, hb.of)
  /\ queue' = queue \ {hb}
  /\ UNCHANGED <<clock, route, live, sess, node, evidence, drain, sweep, faults>>

SnapshotLiveness ==
  /\ drain.pc = "snapshot"
  /\ LET at == drain.hb.at IN
     /\ node' = IF IsLatest(at) THEN [node EXCEPT !.lastSeen = at] ELSE node
     /\ drain' = [drain EXCEPT !.pc = "choose", !.applied = IsLatest(at)]
  /\ UNCHANGED <<clock, route, live, sess, evidence, queue, sweep, faults>>

HasCapabilities(s) == evidence.inventory = s /\ evidence.label = s

\* What the later steps still need of a heartbeat.
Choose(full) ==
  drain' = CASE full -> [drain EXCEPT !.pc = "merge", !.owned = FALSE]
             [] ~full /\ drain.applied
                  -> [drain EXCEPT !.pc = "available", !.owned = FALSE, !.missing = FALSE]
             [] OTHER -> NoDrain

\* Mutant: missing capabilities do not bypass the throttle.
ChooseThrottled ==
  /\ drain.pc = "choose"
  /\ \E due \in {FALSE, drain.owned /\ drain.applied} : Choose(due)
  /\ UNCHANGED <<clock, route, live, sess, node, evidence, queue, sweep, faults>>

\* Is the full inventory due?  Yes if the session has not reported its capabilities;
\* otherwise only if the heartbeat is the latest and no other full inventory throttles
\* it, which is left open.
ChooseInventory ==
  LET missing == drain.owned /\ drain.hb.caps /\ ~HasCapabilities(drain.hb.of)
  IN /\ drain.pc = "choose"
     /\ IF missing
          THEN drain' = [drain EXCEPT !.pc = "merge", !.owned = FALSE, !.missing = TRUE]
          ELSE \E due \in {FALSE, drain.owned /\ drain.applied} : Choose(due)
     /\ UNCHANGED <<clock, route, live, sess, node, evidence, queue, sweep, faults>>

\* Mutant: the inventory of a session that reports no capabilities is labelled with
\* that session, and keeps what its predecessor reported.
MergeInherited(hb) ==
  evidence' = [evidence EXCEPT !.inventory = hb.of, !.label = hb.of,
                               !.source = IF hb.caps THEN hb.of ELSE @]

\* Mutant: a heartbeat without capabilities leaves their label alone.
MergeKeepingLabel(hb) ==
  evidence' = [evidence EXCEPT !.inventory = hb.of,
                               !.label  = IF hb.caps THEN hb.of ELSE @,
                               !.source = IF hb.caps THEN hb.of ELSE @]

\* _merge_heartbeat_inventory_updates: capabilities of an earlier session are not
\* inherited; within a session they survive a heartbeat without them.
Merge(hb) ==
  LET none == IF HasCapabilities(hb.of) THEN evidence.label ELSE NoSession IN
  evidence' = [inventory |-> hb.of,
               label  |-> IF hb.caps THEN hb.of ELSE none,
               source |-> IF hb.caps THEN hb.of
                          ELSE IF HasCapabilities(hb.of) THEN evidence.source ELSE NoSession]

\* The snapshot with the inventory.  An older heartbeat only adds capabilities that
\* are still missing under the lock.
SnapshotInventory ==
  LET hb == drain.hb
      recovers == drain.missing /\ evidence.label # hb.of
  IN /\ drain.pc = "merge"
     /\ IF IsLatest(hb.at)
          THEN Merge(hb) /\ node' = [node EXCEPT !.lastSeen = hb.at]
          ELSE /\ UNCHANGED node
               /\ evidence' = IF recovers
                    THEN [inventory |-> hb.of, label |-> hb.of, source |-> hb.of] ELSE evidence
     /\ drain' = IF IsLatest(hb.at) \/ recovers THEN [drain EXCEPT !.pc = "available"] ELSE NoDrain
     /\ UNCHANGED <<clock, route, live, sess, queue, sweep, faults>>

RecordHeartbeat ==
  /\ drain.pc = "available"
  /\ IF drain.applied THEN RecordAvailability(TRUE, drain.hb.at) ELSE UNCHANGED node
  /\ drain' = NoDrain
  /\ UNCHANGED <<clock, route, live, sess, evidence, queue, sweep, faults>>

(***************************************************************************)
(* Sweeps                                                                  *)
(***************************************************************************)
\* reconcile_node_availability reads the row and the route, only if Redis answers;
ReadStale ==
  /\ sweep = NoSweep /\ node.online /\ route = NoSession /\ Silent
  /\ sweep' = [pc |-> "stale", updatedAt |-> node.updatedAt, lastSeen |-> node.lastSeen]
  /\ UNCHANGED <<clock, route, live, sess, node, evidence, queue, drain, faults>>

\* Mutant: the row is not compared with what was read.
MarkOfflineBlindly ==
  /\ sweep # NoSweep
  /\ RecordAvailability(FALSE, clock)
  /\ sweep' = NoSweep
  /\ UNCHANGED <<clock, route, live, sess, evidence, queue, drain, faults>>

\* and marks it if the row has not changed since.
MarkOffline ==
  /\ sweep # NoSweep
  /\ IF node.updatedAt = sweep.updatedAt /\ node.lastSeen = sweep.lastSeen
       THEN RecordAvailability(FALSE, clock) ELSE UNCHANGED node
  /\ sweep' = NoSweep
  /\ UNCHANGED <<clock, route, live, sess, evidence, queue, drain, faults>>

\* reconcile_stale_online_nodes does all of it under the row lock; it takes an
\* error of Redis for a missing route.
MarkStaleOffline ==
  /\ node.online /\ Silent
  /\ IF route = NoSession THEN UNCHANGED faults ELSE Fault
  /\ node' = [node EXCEPT !.online = FALSE, !.updatedAt = clock]
  /\ UNCHANGED <<clock, route, live, sess, evidence, queue, drain, sweep>>

(***************************************************************************)
(* Time                                                                    *)
(***************************************************************************)
Tick ==
  /\ clock < MaxClock /\ clock' = clock + 1
  /\ UNCHANGED <<route, live, sess, node, evidence, queue, drain, sweep, faults>>

\* The lease ends when nobody renews it; it lasts three heartbeats, so that it ends
\* under a live session only if its heartbeats are held up.
RouteExpires ==
  /\ route # NoSession /\ route' = NoSession
  /\ IF route = live THEN Fault ELSE UNCHANGED faults
  /\ UNCHANGED <<clock, live, sess, node, evidence, queue, drain, sweep>>

Consumer(s) ==
  \/ OnConnected(s) \/ RecordSeen(s) \/ RecordConnected(s)
  \/ PersistLiveness(s) \/ Revive(s) \/ Enqueue(s)
FollowUp ==
  \/ SnapshotLiveness \/ ChooseInventory \/ SnapshotInventory
  \/ RecordHeartbeat

Next ==
  \/ \E s \in Sessions :
       Connect(s) \/ Consumer(s) \/ Heartbeat(s) \/ OnDisconnected(s)
  \/ \E hb \in queue : TakeHeartbeat(hb) \/ DropHeartbeat(hb)
  \/ FollowUp
  \/ ReadStale \/ MarkOffline \/ MarkStaleOffline
  \/ LoseSocket \/ Tick \/ RouteExpires

Spec == Init /\ [][Next]_vars

EnqueueCapabilities(s) ==
  Enqueue(s) /\ \E hb \in queue' \ queue : hb.of = s /\ hb.caps

\* Consumers and the drain go on, the Agent sends heartbeats, some of them with
\* capabilities that find room, and the lease of a superseded route ends.
FairSpec ==
  /\ Spec
  /\ \A s \in Sessions :
       WF_vars(Consumer(s)) /\ WF_vars(Heartbeat(s)) /\ SF_vars(EnqueueCapabilities(s))
  /\ WF_vars(drain # NoDrain /\ FollowUp) /\ WF_vars(\E hb \in queue : TakeHeartbeat(hb) \/ DropHeartbeat(hb))
  /\ WF_vars(route # live /\ RouteExpires)

(***************************************************************************)
(* Properties                                                              *)
(***************************************************************************)
\* A node is marked offline only while the row itself says that nothing was heard for
\* the grace period, however long ago the sweep has read it.
OfflineOnlyWhenSilent == [][ node.online /\ ~node'.online => Silent ]_vars

\* Observations are recorded in order, however long they waited: neither a queued
\* heartbeat nor a slow hook revives a node that was found offline later, and no
\* heartbeat moves the time of the last sign of life back.  (The connect hook of a
\* slow, superseded session may.)
ObservationsInOrder ==
  [][ /\ node'.updatedAt >= node.updatedAt
      /\ node'.lastSeen < node.lastSeen => \E s \in Sessions : sess[s].pc = "seen" ]_vars

\* The capabilities that count as evidence of a session were reported by it.
EvidenceOfSession ==
  \A s \in Sessions : HasCapabilities(s) => evidence.source = s

\* An Agent that stays connected is found online with its capabilities recorded,
\* although sweeps go on, late hooks of a superseded session take the route, the hot
\* path overtakes the queue and full inventories are throttled.
LiveNodeSettles ==
  \A s \in Sessions : live = s ~> (node.online /\ HasCapabilities(s)) \/ live # s
=============================================================================
