---------------------------- MODULE MCBootChain ----------------------------
(* Instance of BootChain for TLC: the numbers a small machine uses. *)
EXTENDS BootChain

SmallIds == 0..7
=============================================================================
