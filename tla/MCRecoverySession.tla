-------------------------- MODULE MCRecoverySession --------------------------
(* One boot of either interface, which may die once and is started again.   *)
EXTENDS RecoverySession
=============================================================================
