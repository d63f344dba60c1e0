---------------------------- MODULE TaskOutcome ----------------------------
(***************************************************************************)
(* What the control plane promises about one command, whatever happens to  *)
(* workers, sessions and the Agent: it is executed at most once, a success *)
(* is recorded only for an execution that ended, final decisions are final,*)
(* and the two decisions from which the teardown of a Chat workspace       *)
(* concludes that nobody writes to it any more are true:                   *)
(*   never    cancelled before any executor existed                        *)
(*   stopped  cancelled or failed, and the executor was waited for         *)
(***************************************************************************)
VARIABLES
    decision,   \* what the control plane's row says
    execution   \* what happened on the Agent

Final == {"success", "never", "stopped"}
Decisions == {"open", "failed", "timeout", "canceled"} \cup Final

Init == decision = "open" /\ execution = "none"

Execute ==
    /\ execution = "none"
    /\ decision # "never"
    /\ execution' = "executing"
    /\ UNCHANGED decision

End ==
    /\ execution = "executing"
    /\ execution' = "ended"
    /\ UNCHANGED decision

(* A cancellation leaves only for the proof that the executor stopped; a   *)
(* failure or a timeout may be revised by a late result.                   *)
Decide(d) ==
    /\ decision \notin Final
    /\ decision = "canceled" => d = "stopped"
    /\ d \in {"success", "stopped"} => execution = "ended"
    /\ d = "never" => execution = "none"
    /\ decision' = d
    /\ UNCHANGED execution

Next == Execute \/ End \/ \E d \in Decisions : Decide(d)

Spec == Init /\ [][Next]_<<decision, execution>>
=============================================================================
