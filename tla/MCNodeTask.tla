----------------------------- MODULE MCNodeTask -----------------------------
(* Instances of NodeTask for TLC: workers are interchangeable.             *)
EXTENDS NodeTask, TLC

WorkerSymmetry == Permutations(Worker)
=============================================================================
