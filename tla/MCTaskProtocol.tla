--------------------------- MODULE MCTaskProtocol ---------------------------
(* Instances of TaskProtocol for TLC.                                      *)
EXTENDS TaskProtocol

(* State constraint: a backup, which is delivered twice, is followed without faults *)
(* and with one frame in flight; a managed restore without restriction.             *)
Bounded == kind = "backup" => faults = 0 /\ Len(downlink) + Len(uplink) <= 1
=============================================================================
