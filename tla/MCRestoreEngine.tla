--------------------------- MODULE MCRestoreEngine ---------------------------
(***************************************************************************)
(* RestoreEngine on a small machine.                                       *)
(***************************************************************************)
EXTENDS RestoreEngine
=============================================================================
