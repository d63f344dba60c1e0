------------------------------- MODULE Mailbox -------------------------------
(***************************************************************************)
(* What the uplink queue promises about the frames it accepts: each stays  *)
(* in the queue or in the dead letters until it was processed at least     *)
(* once; it may be processed more than once and in any order.              *)
(***************************************************************************)
CONSTANT Frame

VARIABLES waiting,     \* frames in the live queue
          dead,        \* frames in the dead letters
          processed    \* frames that were processed at least once

mail == <<waiting, dead, processed>>

Init == waiting = {} /\ dead = {} /\ processed = {}

Put(f) == waiting' = waiting \cup {f} /\ UNCHANGED <<dead, processed>>

\* A late consumer may process a frame that has already left the queue, but it
\* never is the first to do so.
Process(f) ==
  /\ f \in waiting \cup dead \cup processed
  /\ processed' = processed \cup {f}
  /\ UNCHANGED <<waiting, dead>>

Remove(f) ==
  /\ f \in processed
  /\ waiting' = waiting \ {f}
  /\ UNCHANGED <<dead, processed>>

\* A slow consumer may bury a frame that was replayed meanwhile.
Bury(f) ==
  /\ f \in waiting \cup dead \cup processed
  /\ waiting' \in {waiting, waiting \ {f}} /\ dead' = dead \cup {f}
  /\ UNCHANGED processed

Replay(f) ==
  /\ f \in dead
  /\ waiting' = waiting \cup {f} /\ dead' \in {dead, dead \ {f}}
  /\ UNCHANGED processed

Next == \E f \in Frame : Put(f) \/ Process(f) \/ Remove(f) \/ Bury(f) \/ Replay(f)

Spec == Init /\ [][Next]_mail
=============================================================================
