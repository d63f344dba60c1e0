----------------------------- MODULE AgentRoute ------------------------------
(***************************************************************************)
(* Who owns the route of an Agent: the WebSocket sessions of one Agent on  *)
(* several WebSocket processes (apps/node/ws/node_agent.py, ws/uplink.py), *)
(* the route key in Redis, what a starting process clears                  *)
(* (project/asgi_ws.py) and what a dispatcher clears (internal/task.py).   *)
(*                                                                         *)
(* The Agent uses one session at a time, but the server learns late that a *)
(* session is gone: its consumer may still run its connect hook, or handle *)
(* a frame that was received before.  Each await of a consumer is a step.  *)
(* The Agent holds one task result until it is acknowledged.               *)
(***************************************************************************)
EXTENDS RouteKey, Naturals

CONSTANTS Instances,    \* WebSocket processes (WS_INSTANCE_ID)
          NoInstance,
          MaxFaults     \* bound: Redis errors, failed transactions, crashes

ASSUME InstanceAssumption == NoInstance \notin Instances /\ MaxFaults \in Nat

VARIABLES
  route,       \* owner of the route key
  sess,        \* the consumer of each session: its next step and its process
  live,        \* the session that the Agent uses
  buffered,    \* sessions with a result frame that their consumer has not read
  outbox,      \* TRUE while the Agent holds the result
  applied,     \* TRUE when the result was committed
  proc,        \* each process: down, scanning, clearing, starting, up
  found,       \* processes whose startup scan has seen the route as their own
  alive,       \* processes with a node_alive key
  hold,        \* TRUE while a recovery hold is open
  clearing,    \* TRUE while a dispatcher is about to clear the route it read
  faults

agent == <<live, buffered, outbox, applied>>
process == <<proc, found>>
vars == <<route, sess, agent, process, alive, hold, clearing, faults>>

Unborn == [pc |-> "new", on |-> NoInstance]
PCs == {"new", "hook", "open", "touched", "apply", "ack", "closed"}

TypeOK ==
  /\ route \in Sessions \cup {NoSession} /\ live \in Sessions \cup {NoSession}
  /\ sess \in [Sessions -> [pc : PCs, on : Instances \cup {NoInstance}]]
  /\ \A s \in Sessions : sess[s].pc = "new" <=> sess[s].on = NoInstance
  /\ buffered \subseteq Sessions /\ outbox \in BOOLEAN /\ applied \in BOOLEAN
  /\ proc \in [Instances -> {"down", "scanned", "cleared", "up"}]
  /\ found \subseteq Instances /\ alive \subseteq Instances
  /\ hold \in BOOLEAN /\ clearing \in BOOLEAN /\ faults \in 0..MaxFaults

Init ==
  /\ route = NoSession /\ sess = [s \in Sessions |-> Unborn]
  /\ live = NoSession /\ buffered = {} /\ outbox = TRUE /\ applied = FALSE
  /\ proc = [i \in Instances |-> "up"] /\ found = {} /\ alive = Instances
  /\ hold = FALSE /\ clearing = FALSE /\ faults = 0

Fault == faults < MaxFaults /\ faults' = faults + 1
Goto(s, pc) == sess' = [sess EXCEPT ![s].pc = pc]
Host(s) == sess[s].on

(***************************************************************************)
(* The Agent                                                               *)
(***************************************************************************)
\* Mutant: the session does not say on which process it is.
ConnectAnonymously(s, i) ==
  /\ live = NoSession /\ sess[s] = Unborn /\ proc[i] = "up"
  /\ live' = s /\ Goto(s, "hook")
  /\ UNCHANGED <<route, buffered, outbox, applied, process, alive, hold, clearing, faults>>

\* A connection reaches a process that accepts it; its hook runs next.
Connect(s, i) ==
  /\ live = NoSession /\ sess[s] = Unborn /\ proc[i] = "up"
  /\ live' = s /\ sess' = [sess EXCEPT ![s] = [pc |-> "hook", on |-> i]]
  /\ UNCHANGED <<route, buffered, outbox, applied, process, alive, hold, clearing, faults>>

\* The Agent loses its socket; a result that it sent may still be unread.
LoseSocket ==
  /\ live # NoSession
  /\ live' = NoSession
  /\ buffered' \in {buffered, IF outbox THEN buffered \cup {live} ELSE buffered}
  /\ UNCHANGED <<route, sess, outbox, applied, process, alive, hold, clearing, faults>>

(***************************************************************************)
(* The consumer of a session                                               *)
(***************************************************************************)
\* on_agent_connected.  A failed write is logged and the session goes on.
OnConnected(s) ==
  /\ sess[s].pc = "hook"
  /\ \/ /\ route' = SetLocation(route, s) /\ alive' = alive \cup {Host(s)}
        /\ UNCHANGED faults
     \/ Fault /\ UNCHANGED <<route, alive>>
  /\ Goto(s, "open")
  /\ UNCHANGED <<agent, process, hold, clearing>>

\* touch_agent_session_fast, for every frame.
Touch(s) ==
  /\ \/ route' = EnsureLocation(route, s) /\ UNCHANGED faults
     \/ Fault /\ UNCHANGED route
  /\ alive' = alive \cup {Host(s)}

Heartbeat(s) ==
  /\ sess[s].pc = "open" /\ live = s
  /\ Touch(s)
  /\ UNCHANGED <<sess, agent, process, hold, clearing>>

\* A result frame, of the live session or read late.
ReceiveResult(s) ==
  /\ sess[s].pc = "open"
  /\ (live = s /\ outbox) \/ s \in buffered
  /\ buffered' = buffered \ {s}
  /\ Touch(s)
  /\ Goto(s, "touched")
  /\ UNCHANGED <<live, outbox, applied, process, hold, clearing>>

\* Mutant: a result that is discarded as stale is acknowledged.
CheckOwnerAndAck(s) ==
  /\ sess[s].pc = "touched"
  /\ IF IsCurrent(route, s) THEN Goto(s, "apply") ELSE Goto(s, "ack")
  /\ UNCHANGED <<route, agent, process, alive, hold, clearing, faults>>

\* handle_uplink: discard the result of a superseded session without an ACK.  An
\* error of Redis proves nothing.
CheckOwner(s) ==
  /\ sess[s].pc = "touched"
  /\ \/ IsCurrent(route, s) /\ Goto(s, "apply") /\ UNCHANGED faults
     \/ ~IsCurrent(route, s) /\ Goto(s, "open") /\ UNCHANGED faults
     \/ Fault /\ Goto(s, "apply")
  /\ UNCHANGED <<route, agent, process, alive, hold, clearing>>

ApplyResult(s) ==
  /\ sess[s].pc = "apply"
  /\ \/ applied' = TRUE /\ Goto(s, "ack") /\ UNCHANGED faults
     \/ Fault /\ Goto(s, "open") /\ UNCHANGED applied
  /\ UNCHANGED <<route, live, buffered, outbox, process, alive, hold, clearing>>

\* The ACK reaches the Agent only over the socket it uses.
AckResult(s) ==
  /\ sess[s].pc = "ack"
  /\ outbox' = (outbox /\ live # s)
  /\ Goto(s, "open")
  /\ UNCHANGED <<route, live, buffered, applied, process, alive, hold, clearing, faults>>

\* disconnect, after the frames before it.  A failed script is logged.
OnDisconnected(s) ==
  /\ sess[s].pc = "open" /\ live # s /\ s \notin buffered
  /\ \/ route' = ClearIfSession(route, s) /\ UNCHANGED faults
     \/ Fault /\ UNCHANGED route
  /\ Goto(s, "closed")
  /\ UNCHANGED <<agent, process, alive, hold, clearing>>

(***************************************************************************)
(* WebSocket processes                                                     *)
(***************************************************************************)
ProcessDies(i) ==
  LET lost == {s \in Sessions : Host(s) = i} IN
  /\ proc[i] = "up" /\ Fault
  /\ proc' = [proc EXCEPT ![i] = "down"]
  /\ sess' = [s \in Sessions |-> IF s \in lost THEN [sess[s] EXCEPT !.pc = "closed"] ELSE sess[s]]
  /\ live' = IF live \in lost THEN NoSession ELSE live
  /\ buffered' = buffered \ lost
  /\ UNCHANGED <<route, outbox, applied, found, alive, hold, clearing>>

\* clear_ws_instance_routes: what the scan has found is deleted later, whatever
\* it is by then.
ScanRoutes(i) ==
  /\ proc[i] = "down"
  /\ proc' = [proc EXCEPT ![i] = "scanned"]
  /\ found' = IF route # NoSession /\ Host(route) = i THEN found \cup {i} ELSE found
  /\ UNCHANGED <<route, sess, agent, alive, hold, clearing, faults>>

ClearRoutes(i) ==
  /\ proc[i] = "scanned"
  /\ route' = IF i \in found THEN NoSession ELSE route
  /\ alive' = alive \ {i} /\ found' = found \ {i}
  /\ proc' = [proc EXCEPT ![i] = "cleared"]
  /\ UNCHANGED <<sess, agent, hold, clearing, faults>>

\* The hold is best effort; the keepalive thread starts in any case.
StartServing(i) ==
  /\ proc[i] = "cleared"
  /\ \/ hold' = TRUE /\ UNCHANGED faults
     \/ Fault /\ UNCHANGED hold
  /\ proc' = [proc EXCEPT ![i] = "up"] /\ alive' = alive \cup {i}
  /\ UNCHANGED <<route, sess, agent, found, clearing>>

KeepAlive(i) ==
  /\ proc[i] = "up" /\ i \notin alive
  /\ alive' = alive \cup {i}
  /\ UNCHANGED <<route, sess, agent, process, hold, clearing, faults>>

\* Under a process that is up only if its thread could not write for a while.
AliveExpires(i) ==
  /\ i \in alive
  /\ IF proc[i] = "up" THEN Fault ELSE UNCHANGED faults
  /\ alive' = alive \ {i}
  /\ UNCHANGED <<route, sess, agent, process, hold, clearing>>

(***************************************************************************)
(* Recovery hold                                                           *)
(***************************************************************************)
\* The deployment opens a hold in the name of a replica that it replaces.
BeginHold ==
  /\ hold' = TRUE
  /\ UNCHANGED <<route, sess, agent, process, alive, clearing, faults>>

\* Its gate completes when that replica's socket is ready, or its time is over.
EndHold ==
  /\ hold /\ hold' = FALSE
  /\ UNCHANGED <<route, sess, agent, process, alive, clearing, faults>>

(***************************************************************************)
(* Time and dispatchers                                                    *)
(***************************************************************************)
\* The lease of a route ends when its frames are late, also under a session that
\* is still open.
RouteExpires ==
  /\ route # NoSession
  /\ route' = NoSession
  /\ UNCHANGED <<sess, agent, process, alive, hold, clearing, faults>>

\* deliver_agent_task reads the route state and, when it is offline, clears the
\* route without looking again.
Routable == route # NoSession /\ Host(route) \in alive
ReadRouteOffline ==
  /\ ~hold /\ ~Routable /\ ~clearing
  /\ clearing' = TRUE
  /\ UNCHANGED <<route, sess, agent, process, alive, hold, faults>>

ClearOfflineRoute ==
  /\ clearing /\ clearing' = FALSE
  /\ route' = NoSession
  /\ UNCHANGED <<sess, agent, process, alive, hold, faults>>

Consumer(s) ==
  \/ OnConnected(s) \/ Heartbeat(s) \/ ReceiveResult(s) \/ CheckOwner(s)
  \/ ApplyResult(s) \/ AckResult(s) \/ OnDisconnected(s)
Process(i) ==
  \/ ProcessDies(i) \/ ScanRoutes(i) \/ ClearRoutes(i) \/ StartServing(i)
  \/ KeepAlive(i) \/ AliveExpires(i)

Next ==
  \/ \E s \in Sessions : Consumer(s) \/ \E i \in Instances : Connect(s, i)
  \/ \E i \in Instances : Process(i)
  \/ LoseSocket \/ BeginHold \/ EndHold
  \/ RouteExpires \/ ReadRouteOffline \/ ClearOfflineRoute

Spec == Init /\ [][Next]_vars

\* Consumers go on, the Agent sends heartbeats and repeats its result, and the
\* lease of a route that nobody renews ends.  The lease lasts several heartbeats
\* and a frame is checked at once after it renewed it, so the lease does not end
\* in between every time (strong fairness of the check).
FairSpec ==
  /\ Spec
  /\ \A s \in Sessions :
       /\ WF_vars(OnConnected(s)) /\ WF_vars(Heartbeat(s)) /\ SF_vars(ReceiveResult(s))
       /\ WF_vars(CheckOwner(s)) /\ WF_vars(ApplyResult(s)) /\ WF_vars(AckResult(s))
       /\ SF_vars(CheckOwner(s) /\ sess'[s].pc = "apply")
  /\ WF_vars(route # live /\ RouteExpires)

(***************************************************************************)
(* Properties                                                              *)
(***************************************************************************)
\* An owned route passes to another session only by the connect hook of that
\* session, and no other session's consumer deletes it: neither a late heartbeat,
\* nor a late result, nor a late disconnect of a superseded session.
RouteFenced ==
  [][ route # NoSession /\ route' # route
        => \/ route' # NoSession /\ sess[route'].pc = "hook"
           \/ route' = NoSession /\ \A s \in Sessions \ {route} : sess'[s] = sess[s] ]_vars

\* The Agent drops its result only after it was committed.
AckedMeansApplied == outbox \/ applied

\* No lock-out: whatever an older session or a clear has done to the key, a session
\* that stays becomes the owner, and its result gets through.
ResultGetsThrough == \A s \in Sessions : live = s ~> ~outbox \/ live # s
=============================================================================
