---------------------------- MODULE MCBackupRun ----------------------------
(* Instances of BackupRun for TLC.                                         *)
EXTENDS BackupRun, TLC

RequestSymmetry == Permutations(Requests)
=============================================================================
