-------------------------- MODULE RecoveryStateFile --------------------------
(***************************************************************************)
(* recovery_state.json on the RECOVERY_IMAGE volume: the record the        *)
(* restore engine, the rollback engine and the Recovery Runtime share      *)
(* (restore_engine/restore_state.py, rollback/failure_counter.py).         *)
(*                                                                         *)
(* A record is one json file.  It is rewritten in place: write_text        *)
(* truncates it and then writes it, so that it may be found truncated.     *)
(* The fields kept are the ones some branch of the code reads.             *)
(***************************************************************************)
EXTENDS Naturals

MAX_RESTORE_ATTEMPTS == 1

RecoveryStates ==
    [restore_in_progress : BOOLEAN,
     rollback_required   : BOOLEAN,
     restore_success     : BOOLEAN,
     failure_count       : 0..MAX_RESTORE_ATTEMPTS]

\* RecoveryState(): the dataclass defaults.
FreshState ==
    [restore_in_progress |-> FALSE,
     rollback_required   |-> FALSE,
     restore_success     |-> FALSE,
     failure_count       |-> 0]

(***************************************************************************)
(* The file: whole, or not (missing, truncated, not json).                 *)
(***************************************************************************)
StateFiles == [whole : BOOLEAN, state : RecoveryStates]

Unreadable == [whole |-> FALSE, state |-> FreshState]

Stored(state) == [whole |-> TRUE, state |-> state]

\* load_recovery_state: whatever cannot be read is read as the defaults.
Load(file) == IF file.whole THEN file.state ELSE FreshState

-----------------------------------------------------------------------------
(***************************************************************************)
(* The read-modify-write helpers: the state each of them saves.  A         *)
(* definition introduced as a mutation is used by no behaviour: it is a    *)
(* plausible slip in the definition that follows it, and shows that the    *)
(* properties would notice it.                                             *)
(***************************************************************************)
\* Mutation: the success of an earlier restore is kept.
MarkStartedKeepingSuccess(state) ==
    [state EXCEPT !.restore_in_progress = TRUE,
                  !.rollback_required   = FALSE]

MarkStarted(state) ==
    [state EXCEPT !.restore_in_progress = TRUE,
                  !.rollback_required   = FALSE,
                  !.restore_success     = FALSE]

MarkSuccess(state) ==
    [state EXCEPT !.restore_in_progress = FALSE,
                  !.rollback_required   = FALSE,
                  !.restore_success     = TRUE]

\* Mutation: a failure does not ask for a rollback.
MarkFailedUnlocked(state) ==
    [state EXCEPT !.restore_in_progress = FALSE,
                  !.restore_success     = FALSE]

MarkFailed(state) ==
    [state EXCEPT !.restore_in_progress = FALSE,
                  !.rollback_required   = TRUE,
                  !.restore_success     = FALSE]

\* Mutation: no cap on the counter.
CountFailureUncapped(state) == [state EXCEPT !.failure_count = @ + 1]

\* The tail of record_restore_failure_state, after its mark_restore_failed.
CountFailure(state) ==
    [state EXCEPT !.failure_count =
        IF @ + 1 > MAX_RESTORE_ATTEMPTS THEN MAX_RESTORE_ATTEMPTS ELSE @ + 1]

\* clear_restore_failure_lock: the counters stay.
ClearLock(state) ==
    [state EXCEPT !.restore_in_progress = FALSE,
                  !.rollback_required   = FALSE,
                  !.restore_success     = FALSE]

\* What the menu policy refuses a restore for.
Locked(state) == state.rollback_required \/ state.restore_in_progress
=============================================================================
