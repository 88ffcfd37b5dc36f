--------------------------- MODULE MCBackupEngine ---------------------------
(***************************************************************************)
(* Instances of BackupEngine for TLC.                                      *)
(***************************************************************************)
EXTENDS BackupEngine, TLC

\* Runs are told apart only by being equal or not.
RunSymmetry == Permutations(Runs)
=============================================================================
