--------------------------- MODULE BackupContract ---------------------------
(***************************************************************************)
(* What the backup engine promises to whoever restores: a volume has at    *)
(* most one accepted backup, only the run at work can make one, and once   *)
(* there it stays until an operator erases it, its own run takes it back,  *)
(* or, on a volume that is never synced, a power loss tears it.            *)
(***************************************************************************)
CONSTANTS
    Runs,        \* identities of backup runs
    NoRun,       \* no run
    Fragile      \* a power loss may tear what was written

VARIABLES
    accepted,    \* the run whose backup is accepted, or NoRun
    worker,      \* the run at work, or NoRun
    begun        \* the runs there have been

contractVars == <<accepted, worker, begun>>

ContractTypeOK ==
    /\ begun \subseteq Runs
    /\ {accepted, worker} \subseteq begun \cup {NoRun}

ContractInit ==
    /\ accepted = NoRun
    /\ worker = NoRun
    /\ begun = {}

Begin ==
    /\ worker = NoRun
    /\ \E r \in Runs \ begun : worker' = r /\ begun' = begun \cup {r}
    /\ UNCHANGED accepted

Publish ==
    /\ worker # NoRun /\ accepted = NoRun
    /\ accepted' = worker
    /\ UNCHANGED <<worker, begun>>

\* Reporting its success fails, and the run ends as a failed one.
TakeBack ==
    /\ worker # NoRun /\ accepted = worker
    /\ accepted' = NoRun
    /\ worker' \in {worker, NoRun}
    /\ UNCHANGED begun

\* The run completes, fails, is refused or dies.
Finish ==
    /\ worker' = NoRun
    /\ UNCHANGED <<accepted, begun>>

EraseAccepted ==
    /\ worker = NoRun
    /\ accepted' = NoRun
    /\ UNCHANGED <<worker, begun>>

Tear ==
    /\ Fragile
    /\ accepted' = NoRun
    /\ worker' = NoRun
    /\ UNCHANGED begun

ContractNext == Begin \/ Publish \/ TakeBack \/ Finish \/ EraseAccepted \/ Tear

ContractSpec == ContractInit /\ [][ContractNext]_contractVars

\* The promise: one accepted backup is never replaced by another at once, and
\* a run at work touches no backup but its own, power losses apart.
AcceptedIsSpared ==
    [][/\ accepted # NoRun => accepted' \in {accepted, NoRun}
       /\ accepted # NoRun /\ accepted' = NoRun /\ worker # NoRun /\ ~Fragile
            => accepted = worker]_contractVars
=============================================================================
