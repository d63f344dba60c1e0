------------------------------ MODULE RouteKey -------------------------------
(***************************************************************************)
(* The Redis key agent_loc of one Agent (apps/node/services/internal/      *)
(* redis_store.py): the session that owns the route, or NoSession.  Each   *)
(* operator is one atomic command, script or WATCH transaction.            *)
(***************************************************************************)
CONSTANTS Sessions, NoSession

ASSUME SessionAssumption == NoSession \notin Sessions

\* set_agent_location: the connect hook writes the route whoever owns it.
SetLocation(route, s) == s

\* Mutant: a heartbeat sets the key without looking at its owner.
EnsureLocationBlindly(route, s) == s

\* Mutant: the time to live is extended, but a key that is gone stays away.
ExtendLocation(route, s) == route

\* ensure_agent_location_on_heartbeat: the owner renews it, a missing key is
\* created again, and the route of another session is left alone.
EnsureLocation(route, s) == IF route = NoSession THEN s ELSE route

\* is_agent_session_current: an expired key proves no ownership.
IsCurrent(route, s) == route = s

\* Mutant: the disconnect hook deletes the key without comparing the session.
ClearLocation(route, s) == NoSession

\* clear_agent_location_if_session, run by the disconnect hook.
ClearIfSession(route, s) == IF route = s THEN NoSession ELSE route
=============================================================================
