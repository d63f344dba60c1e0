-------------------------- MODULE AgentRoute_proofs ---------------------------
(***************************************************************************)
(* Theorems about AgentRoute for every set of sessions and of processes    *)
(* and any number of faults.                                               *)
(***************************************************************************)
EXTENDS AgentRoute, TLAPS

-----------------------------------------------------------------------------
(* A consumer that is about to acknowledge has committed the result; this  *)
(* makes AckedMeansApplied inductive.                                      *)
AckAfterCommit == \A s \in Sessions : sess[s].pc = "ack" => applied

IInv == TypeOK /\ AckAfterCommit /\ AckedMeansApplied

(* The operations on the key stay among the sessions.                      *)
LEMMA RouteKeyType ==
    ASSUME NEW r \in Sessions \cup {NoSession}, NEW s \in Sessions
    PROVE  /\ SetLocation(r, s) = s
           /\ EnsureLocation(r, s) = IF r = NoSession THEN s ELSE r
           /\ EnsureLocation(r, s) \in Sessions
           /\ ClearIfSession(r, s) \in Sessions \cup {NoSession}
BY DEF SetLocation, EnsureLocation, ClearIfSession

(* Moving a consumer to another step keeps the type of the consumers.      *)
LEMMA GotoType ==
    ASSUME TypeOK, NEW s \in Sessions, sess[s].pc # "new",
           NEW pc \in PCs \ {"new"}, Goto(s, pc)
    PROVE  /\ sess' \in [Sessions -> [pc : PCs, on : Instances \cup {NoInstance}]]
           /\ \A t \in Sessions : sess'[t].pc = "new" <=> sess'[t].on = NoInstance
           /\ sess'[s].pc = pc
           /\ \A t \in Sessions \ {s} : sess'[t] = sess[t]
<1>1. sess' = [t \in Sessions |-> IF t = s THEN [sess[s] EXCEPT !.pc = pc] ELSE sess[t]]
    BY DEF TypeOK, Goto
<1>2. sess[s] \in [pc : PCs, on : Instances \cup {NoInstance}]
    BY DEF TypeOK
<1>3. [sess[s] EXCEPT !.pc = pc] = [pc |-> pc, on |-> sess[s].on]
    BY <1>2
<1> QED BY <1>1, <1>2, <1>3 DEF TypeOK

LEMMA InitInv == Init => IInv
<1> SUFFICES ASSUME Init PROVE IInv
    OBVIOUS
<1>1. \A s \in Sessions : sess[s] = [pc |-> "new", on |-> NoInstance]
    BY DEF Init, Unborn
<1>2. sess \in [Sessions -> [pc : PCs, on : Instances \cup {NoInstance}]]
    BY <1>1 DEF Init, Unborn, PCs
<1>3. outbox \in BOOLEAN /\ applied \in BOOLEAN /\ hold \in BOOLEAN /\ clearing \in BOOLEAN
    BY DEF Init
<1>4. TypeOK
    BY <1>1, <1>2, <1>3, InstanceAssumption DEF Init, TypeOK
<1>5. AckAfterCommit /\ AckedMeansApplied
    BY <1>1 DEF Init, AckAfterCommit, AckedMeansApplied
<1> QED BY <1>4, <1>5 DEF IInv

(* The steps of a consumer.                                                *)
LEMMA ConsumerInv ==
    ASSUME IInv, NEW s \in Sessions, Consumer(s)
    PROVE  IInv'
<1> USE InstanceAssumption, SessionAssumption
<1>0. TypeOK /\ AckAfterCommit /\ AckedMeansApplied
    BY DEF IInv
<1>1. Host(s) \in Instances \/ sess[s].pc = "new"
    BY <1>0 DEF TypeOK, Host
<1>2. ASSUME Touch(s), sess[s].pc # "new"
      PROVE  route' \in Sessions \cup {NoSession} /\ alive' \subseteq Instances /\ faults' \in 0..MaxFaults
    BY <1>0, <1>1, <1>2, RouteKeyType DEF Touch, Fault, TypeOK
<1>3. CASE OnConnected(s)
  <2>1. sess[s].pc = "hook" /\ Goto(s, "open")
      BY <1>3 DEF OnConnected
  <2>2. /\ route' \in Sessions \cup {NoSession} /\ alive' \subseteq Instances
        /\ faults' \in 0..MaxFaults
      BY <1>0, <1>1, <1>3, <2>1, RouteKeyType DEF OnConnected, Fault, TypeOK
  <2>3. UNCHANGED <<agent, process, hold, clearing>>
      BY <1>3 DEF OnConnected
  <2> QED BY <1>0, <2>1, <2>2, <2>3, GotoType DEF IInv, TypeOK, AckAfterCommit,
         AckedMeansApplied, agent, process, PCs
<1>4. CASE Heartbeat(s)
    BY <1>0, <1>2, <1>4 DEF Heartbeat, IInv, TypeOK, AckAfterCommit, AckedMeansApplied,
       agent, process
<1>5. CASE ReceiveResult(s)
  <2>1. sess[s].pc = "open" /\ Goto(s, "touched") /\ Touch(s)
      BY <1>5 DEF ReceiveResult
  <2>2. buffered' \subseteq Sessions /\ UNCHANGED <<live, outbox, applied, process, hold, clearing>>
      BY <1>0, <1>5 DEF ReceiveResult, TypeOK
  <2>3. /\ route' \in Sessions \cup {NoSession} /\ alive' \subseteq Instances
        /\ faults' \in 0..MaxFaults
      BY <1>2, <2>1
  <2> QED BY <1>0, <2>1, <2>2, <2>3, GotoType DEF IInv, TypeOK, AckAfterCommit,
         AckedMeansApplied, process, PCs
<1>6. CASE CheckOwner(s)
  <2>1. sess[s].pc = "touched" /\ (Goto(s, "apply") \/ Goto(s, "open"))
      BY <1>6 DEF CheckOwner
  <2>2. faults' \in 0..MaxFaults /\ UNCHANGED <<route, agent, process, alive, hold, clearing>>
      BY <1>0, <1>6 DEF CheckOwner, Fault, TypeOK
  <2> QED BY <1>0, <2>1, <2>2, GotoType DEF IInv, TypeOK, AckAfterCommit, AckedMeansApplied,
         agent, process, PCs
<1>7. CASE ApplyResult(s)
  <2>1. /\ sess[s].pc = "apply"
        /\ (applied' = TRUE /\ Goto(s, "ack")) \/ (UNCHANGED applied /\ Goto(s, "open"))
      BY <1>7 DEF ApplyResult
  <2>2. /\ faults' \in 0..MaxFaults
        /\ UNCHANGED <<route, live, buffered, outbox, process, alive, hold, clearing>>
      BY <1>0, <1>7 DEF ApplyResult, Fault, TypeOK
  <2>3. CASE applied' = TRUE /\ Goto(s, "ack")
    <3>1. applied' \in BOOLEAN /\ applied'
        BY <2>3
    <3>2. TypeOK'
        BY <1>0, <2>1, <2>2, <2>3, <3>1, GotoType DEF TypeOK, process, PCs
    <3>3. AckAfterCommit' /\ AckedMeansApplied'
        BY <3>1 DEF AckAfterCommit, AckedMeansApplied
    <3> QED BY <3>2, <3>3 DEF IInv
  <2>4. CASE UNCHANGED applied /\ Goto(s, "open")
      BY <1>0, <2>1, <2>2, <2>4, GotoType DEF IInv, TypeOK, AckAfterCommit, AckedMeansApplied,
         process, PCs
  <2> QED BY <2>1, <2>3, <2>4
<1>8. CASE AckResult(s)
  <2>1. sess[s].pc = "ack" /\ Goto(s, "open") /\ applied
      BY <1>0, <1>8 DEF AckResult, AckAfterCommit
  <2>2. /\ outbox' \in BOOLEAN
        /\ UNCHANGED <<route, live, buffered, applied, process, alive, hold, clearing, faults>>
      BY <1>8 DEF AckResult
  <2>3. TypeOK'
      BY <1>0, <2>1, <2>2, GotoType DEF TypeOK, process, PCs
  <2>4. AckAfterCommit' /\ AckedMeansApplied'
      BY <2>1, <2>2 DEF AckAfterCommit, AckedMeansApplied
  <2> QED BY <2>3, <2>4 DEF IInv
<1>9. CASE OnDisconnected(s)
  <2>1. sess[s].pc = "open" /\ Goto(s, "closed")
      BY <1>9 DEF OnDisconnected
  <2>2. /\ route' \in Sessions \cup {NoSession} /\ faults' \in 0..MaxFaults
        /\ UNCHANGED <<agent, process, alive, hold, clearing>>
      BY <1>0, <1>9, RouteKeyType DEF OnDisconnected, Fault, TypeOK
  <2> QED BY <1>0, <2>1, <2>2, GotoType DEF IInv, TypeOK, AckAfterCommit, AckedMeansApplied,
         agent, process, PCs
<1> QED BY <1>3, <1>4, <1>5, <1>6, <1>7, <1>8, <1>9 DEF Consumer

(* The steps of a process.                                                 *)
LEMMA ProcessInv ==
    ASSUME IInv, NEW i \in Instances, Process(i)
    PROVE  IInv'
<1> USE InstanceAssumption, SessionAssumption
<1>0. TypeOK /\ AckAfterCommit /\ AckedMeansApplied
    BY DEF IInv
<1>1. CASE ProcessDies(i)
  <2>1. \A t \in Sessions : sess'[t] \in {sess[t], [sess[t] EXCEPT !.pc = "closed"]}
      BY <1>1 DEF ProcessDies
  <2>2. /\ sess' = [t \in Sessions |-> sess'[t]]
        /\ \A t \in Sessions : sess'[t] # sess[t] => Host(t) = i
      BY <1>1 DEF ProcessDies
  <2>3. /\ sess' \in [Sessions -> [pc : PCs, on : Instances \cup {NoInstance}]]
        /\ \A t \in Sessions : sess'[t].pc = "new" <=> sess'[t].on = NoInstance
        /\ \A t \in Sessions : sess'[t].pc = "ack" => sess[t].pc = "ack"
    <3> SUFFICES ASSUME NEW t \in Sessions
                 PROVE  /\ sess'[t] \in [pc : PCs, on : Instances \cup {NoInstance}]
                        /\ sess'[t].pc = "new" <=> sess'[t].on = NoInstance
                        /\ sess'[t].pc = "ack" => sess[t].pc = "ack"
        BY <2>2
    <3>1. sess[t] \in [pc : PCs, on : Instances \cup {NoInstance}]
        BY <1>0 DEF TypeOK
    <3>2. CASE sess'[t] = sess[t]
        BY <1>0, <3>1, <3>2 DEF TypeOK
    <3>3. CASE sess'[t] = [sess[t] EXCEPT !.pc = "closed"] /\ sess'[t] # sess[t]
      <4>1. sess[t].on = i
          BY <2>2, <3>3 DEF Host
      <4> QED BY <3>1, <3>3, <4>1 DEF PCs
    <3> QED BY <2>1, <3>2, <3>3
  <2>4. /\ proc' \in [Instances -> {"down", "scanned", "cleared", "up"}]
        /\ live' \in Sessions \cup {NoSession} /\ buffered' \subseteq Sessions
        /\ faults' \in 0..MaxFaults
        /\ UNCHANGED <<route, outbox, applied, found, alive, hold, clearing>>
      BY <1>0, <1>1 DEF ProcessDies, Fault, TypeOK
  <2> QED BY <1>0, <2>3, <2>4 DEF IInv, TypeOK, AckAfterCommit, AckedMeansApplied
<1>2. CASE ScanRoutes(i)
    BY <1>0, <1>2 DEF ScanRoutes, IInv, TypeOK, AckAfterCommit, AckedMeansApplied, agent
<1>3. CASE ClearRoutes(i)
    BY <1>0, <1>3 DEF ClearRoutes, IInv, TypeOK, AckAfterCommit, AckedMeansApplied, agent
<1>4. CASE StartServing(i)
  <2>1. hold \in BOOLEAN /\ faults \in 0..MaxFaults
      BY <1>0 DEF TypeOK
  <2>2. hold' = TRUE \/ hold' = hold
      BY <1>4 DEF StartServing
  <2>3. hold' \in BOOLEAN
      BY <2>1, <2>2, Zenon
  <2>4. faults' \in 0..MaxFaults
      BY <2>1, <1>4 DEF StartServing, Fault
  <2>5. /\ proc' \in [Instances -> {"down", "scanned", "cleared", "up"}]
        /\ alive' \subseteq Instances /\ UNCHANGED <<route, sess, agent, found, clearing>>
      BY <1>0, <1>4 DEF StartServing, TypeOK
  <2> QED BY <1>0, <2>3, <2>4, <2>5 DEF IInv, TypeOK, AckAfterCommit, AckedMeansApplied, agent
<1>5. CASE KeepAlive(i)
    BY <1>0, <1>5 DEF KeepAlive, IInv, TypeOK, AckAfterCommit, AckedMeansApplied, agent, process
<1>6. CASE AliveExpires(i)
    BY <1>0, <1>6 DEF AliveExpires, Fault, IInv, TypeOK, AckAfterCommit, AckedMeansApplied,
       agent, process
<1> QED BY <1>1, <1>2, <1>3, <1>4, <1>5, <1>6 DEF Process

LEMMA StepInv == IInv /\ [Next]_vars => IInv'
<1> SUFFICES ASSUME IInv, [Next]_vars PROVE IInv'
    OBVIOUS
<1> USE InstanceAssumption, SessionAssumption
<1>0. TypeOK /\ AckAfterCommit /\ AckedMeansApplied
    BY DEF IInv
<1>1. ASSUME NEW s \in Sessions, NEW i \in Instances, Connect(s, i) PROVE IInv'
  <2>1. sess' \in [Sessions -> [pc : PCs, on : Instances \cup {NoInstance}]]
      BY <1>0, <1>1 DEF Connect, TypeOK, PCs
  <2> QED BY <1>0, <1>1, <2>1 DEF Connect, IInv, TypeOK, AckAfterCommit, AckedMeansApplied,
         process
<1>2. CASE LoseSocket
    BY <1>0, <1>2 DEF LoseSocket, IInv, TypeOK, AckAfterCommit, AckedMeansApplied, process
<1>3. CASE BeginHold \/ EndHold \/ RouteExpires \/ ReadRouteOffline \/ ClearOfflineRoute
    BY <1>0, <1>3 DEF BeginHold, EndHold, RouteExpires, ReadRouteOffline, ClearOfflineRoute,
       IInv, TypeOK, AckAfterCommit, AckedMeansApplied, agent, process
<1>4. CASE UNCHANGED vars
    BY <1>0, <1>4 DEF vars, IInv, TypeOK, AckAfterCommit, AckedMeansApplied, agent, process
<1> QED BY <1>1, <1>2, <1>3, <1>4, ConsumerInv, ProcessInv DEF Next

LEMMA Invariance == Spec => []IInv
BY InitInv, StepInv, PTL DEF Spec

-----------------------------------------------------------------------------
(* Theorems                                                                *)

(* Every reachable state is well typed.                                    *)
THEOREM RouteTypeCorrect == Spec => []TypeOK
BY Invariance, PTL DEF IInv

(* The Agent drops its result only after a transaction has committed it,   *)
(* whichever of its sessions, live or superseded, delivers it              *)
(* (ws/uplink.py, handle_uplink).                                          *)
THEOREM AckedIsApplied == Spec => []AckedMeansApplied
BY Invariance, PTL DEF IInv

(* An owned route passes to another session only by that session's connect *)
(* hook, and no other session's consumer deletes it, whatever late frames, *)
(* late disconnects and clears are on their way (redis_store.py,           *)
(* ensure_agent_location_on_heartbeat, clear_agent_location_if_session).   *)
THEOREM RouteIsFenced == Spec => RouteFenced
<1> DEFINE Fenced ==
      route # NoSession /\ route' # route
        => \/ route' # NoSession /\ sess[route'].pc = "hook"
           \/ route' = NoSession /\ \A s \in Sessions \ {route} : sess'[s] = sess[s]
<1>1. ASSUME IInv, Next PROVE Fenced
  <2> SUFFICES ASSUME route # NoSession, route' # route
               PROVE  \/ route' # NoSession /\ sess[route'].pc = "hook"
                      \/ route' = NoSession /\ \A s \in Sessions \ {route} : sess'[s] = sess[s]
      OBVIOUS
  <2> USE SessionAssumption
  <2>0. TypeOK
      BY <1>1 DEF IInv
  <2>1. ASSUME NEW s \in Sessions, OnConnected(s)
        PROVE  route' # NoSession /\ sess[route'].pc = "hook"
      BY <2>1 DEF OnConnected, SetLocation
  <2>2. ASSUME NEW s \in Sessions, Touch(s) PROVE FALSE
      BY <2>2 DEF Touch, EnsureLocation
  <2>3. ASSUME NEW s \in Sessions, OnDisconnected(s)
        PROVE  route' = NoSession /\ \A t \in Sessions \ {route} : sess'[t] = sess[t]
    <3>1. route = s /\ route' = NoSession
        BY <2>3 DEF OnDisconnected, ClearIfSession
    <3>2. \A t \in Sessions \ {s} : sess'[t] = sess[t]
        BY <2>0, <2>3 DEF OnDisconnected, Goto, TypeOK
    <3> QED BY <3>1, <3>2
  <2>4. ASSUME NEW i \in Instances, ClearRoutes(i)
        PROVE  route' = NoSession /\ UNCHANGED sess
      BY <2>4 DEF ClearRoutes
  <2>5. CASE RouteExpires \/ ClearOfflineRoute
      BY <2>5 DEF RouteExpires, ClearOfflineRoute
  <2>6. ASSUME NEW s \in Sessions, Heartbeat(s) \/ ReceiveResult(s) PROVE FALSE
      BY <2>2, <2>6 DEF Heartbeat, ReceiveResult
  <2>7. ASSUME NEW s \in Sessions, CheckOwner(s) \/ ApplyResult(s) \/ AckResult(s) PROVE FALSE
      BY <2>7 DEF CheckOwner, ApplyResult, AckResult
  <2>8. ASSUME NEW i \in Instances,
               \/ ProcessDies(i) \/ ScanRoutes(i) \/ StartServing(i) \/ KeepAlive(i)
               \/ AliveExpires(i) \/ \E s \in Sessions : Connect(s, i)
        PROVE  FALSE
      BY <2>8 DEF ProcessDies, ScanRoutes, StartServing, KeepAlive, AliveExpires, Connect
  <2>9. CASE LoseSocket \/ BeginHold \/ EndHold \/ ReadRouteOffline
      BY <2>9 DEF LoseSocket, BeginHold, EndHold, ReadRouteOffline
  <2> QED BY <1>1, <2>1, <2>3, <2>4, <2>5, <2>6, <2>7, <2>8, <2>9 DEF Next, Consumer, Process
<1>2. IInv /\ [Next]_vars => [Fenced]_vars
    BY <1>1
<1> QED BY <1>2, Invariance, PTL DEF Spec, RouteFenced

=============================================================================
