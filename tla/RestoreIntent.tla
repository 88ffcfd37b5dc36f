---------------------------- MODULE RestoreIntent ----------------------------
(***************************************************************************)
(* What the restore engine promises about a volume it overwrites in place: *)
(* the volume is damaged only while a record on the medium admits it, and  *)
(* the record is settled only once the volume is whole.  The record may be *)
(* lost (a torn write, a power loss, an operator who drops it), but it is  *)
(* never replaced by one that says all is well.                            *)
(***************************************************************************)
VARIABLES
    volume,   \* "original", "torn" or "restored"
    record    \* "open", "locked" or "lost"

IntentTypeOK ==
    /\ volume \in {"original", "torn", "restored"}
    /\ record \in {"open", "locked", "lost"}

IntentInit ==
    /\ volume = "original"
    /\ record = "lost"

\* The record is made to say that a restore runs or has failed.
Lock ==
    /\ record' = "locked"
    /\ UNCHANGED volume

\* The record disappears, or can no longer be relied on.
Lose ==
    /\ record' = "lost"
    /\ UNCHANGED volume

\* The record is made to say that all is well.
Settle ==
    /\ volume # "torn"
    /\ record' = "open"
    /\ UNCHANGED volume

Damage ==
    /\ record = "locked"
    /\ volume' = "torn"
    /\ UNCHANGED record

Repair ==
    /\ record = "locked"
    /\ volume = "torn"
    /\ volume' = "restored"
    /\ UNCHANGED record

IntentNext == Lock \/ Lose \/ Settle \/ Damage \/ Repair

IntentSpec == IntentInit /\ [][IntentNext]_<<volume, record>>

\* The promise: a torn volume never has a record that says all is well.
NeverSilentlyTorn == volume = "torn" => record # "open"
=============================================================================
