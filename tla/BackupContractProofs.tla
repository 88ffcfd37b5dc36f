------------------------ MODULE BackupContractProofs ------------------------
(***************************************************************************)
(* The contract of the backup engine keeps its promise.                    *)
(***************************************************************************)
EXTENDS BackupContract, TLAPS

\* No accepted backup is replaced at once by another, and no run at work costs
\* a backup but its own, as long as no power loss tears files.
THEOREM ContractPromise == ContractSpec => AcceptedIsSpared
<1>1. [ContractNext]_contractVars
        => [/\ accepted # NoRun => accepted' \in {accepted, NoRun}
            /\ accepted # NoRun /\ accepted' = NoRun /\ worker # NoRun /\ ~Fragile
                 => accepted = worker]_contractVars
  BY DEF contractVars, ContractNext, Begin, Publish, TakeBack, Finish,
     EraseAccepted, Tear
<1> QED
  BY <1>1, PTL DEF ContractSpec, AcceptedIsSpared

\* The run at work and the accepted one have begun.
THEOREM ContractTypes == ContractSpec => []ContractTypeOK
<1>1. ContractInit => ContractTypeOK
  BY DEF ContractInit, ContractTypeOK
<1>2. ContractTypeOK /\ [ContractNext]_contractVars => ContractTypeOK'
  BY DEF contractVars, ContractTypeOK, ContractNext, Begin, Publish, TakeBack,
     Finish, EraseAccepted, Tear
<1> QED
  BY <1>1, <1>2, PTL DEF ContractSpec
=============================================================================
