------------------------- MODULE RestoreIntentProofs -------------------------
(***************************************************************************)
(* The intent protocol keeps its promise.                                  *)
(***************************************************************************)
EXTENDS RestoreIntent, TLAPS

\* What the record says over a torn volume, and that it takes a lock to tear it.
THEOREM IntentPromise == IntentSpec => [](IntentTypeOK /\ NeverSilentlyTorn)
<1>1. IntentInit => IntentTypeOK /\ NeverSilentlyTorn
  BY DEF IntentInit, IntentTypeOK, NeverSilentlyTorn
<1>2. IntentTypeOK /\ NeverSilentlyTorn /\ [IntentNext]_<<volume, record>>
        => (IntentTypeOK /\ NeverSilentlyTorn)'
  BY DEF IntentTypeOK, NeverSilentlyTorn, IntentNext, Lock, Lose, Settle, Damage,
         Repair
<1> QED
  BY <1>1, <1>2, PTL DEF IntentSpec
=============================================================================
