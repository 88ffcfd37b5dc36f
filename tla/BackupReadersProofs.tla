------------------------ MODULE BackupReadersProofs ------------------------
(***************************************************************************)
(* Theorems about the readers of a volume without scars: they agree, what  *)
(* they offer can be restored, and the engine implements BackupContract.   *)
(*                                                                         *)
(* All of it rests on one invariant: a volume without scars and without    *)
(* the marker is either empty or sealed, that is, every file of it was     *)
(* written whole by one run whose manifest has the hashes of its images.   *)
(***************************************************************************)
EXTENDS BackupEngineProofs

Kept == Images \cup MetaFiles

Empty == \A f \in Kept : ~Exists(f)

SealedBy(r) ==
    /\ \A f \in Kept : disk[f] = Whole(r)
    /\ SoundManifest(r)

\* A volume on which the readers may be asked.
Readable == ~scarred /\ ~Incomplete

Sealed == Readable => Empty \/ \E r \in Runs : SealedBy(r)

\* Once its check has passed, a run finds no seal but its own.
OwnSeal ==
    Readable /\ pc \in BackupSteps \ {"plan", "check"} => Empty \/ SealedBy(run)

\* What is written of the manifests, digests and sidecars is of this run.
Written ==
    /\ pc \in {"publish", "write"} => \A f \in MetaFiles \ left : disk[f] = Whole(run)
    /\ pc \in {"verify", "clear"} => \A f \in MetaFiles : disk[f] = Whole(run)

\* An erasure leaves no file behind which it will not come across.
InErasure ==
    /\ pc \in EraseSteps => scarred
    /\ pc = "erase" =>
          \A f \in Files : Exists(f) => \E e \in left : f \in EntryFiles[e]
    /\ pc = "remove" =>
          \A f \in Files : Exists(f) => \E e \in left \cup {entry} : f \in EntryFiles[e]

RunOnlyInBackup == pc \in {"idle"} \cup EraseSteps => run = NoRun

SealInv ==
    PublishInv /\ Sealed /\ OwnSeal /\ Written /\ InErasure /\ RunOnlyInBackup

\* A volume that no reader may be asked about, with the loop at hand in order.
LEMMA SealClosed ==
    ASSUME PublishInv', ~Readable', Written', InErasure', RunOnlyInBackup'
    PROVE  SealInv'
  BY DEF SealInv, Sealed, OwnSeal

\* While the marker covers the volume only the loops have to be looked at.
LEMMA SealCovered ==
    ASSUME PublishInv', Written', pc' \in WritingSteps \cup {"unlink"}
    PROVE  SealInv'
<1>1. ~Readable'
  BY DEF PublishInv, Covered, Readable
<1>2. InErasure' /\ RunOnlyInBackup'
  BY DEF InErasure, RunOnlyInBackup, EraseSteps, WritingSteps
<1> QED
  BY <1>1, <1>2, SealClosed

\* A step of a backup outside its loops, which leaves the files alone.
LEMMA SealStays ==
    ASSUME SealInv, PublishInv', UNCHANGED <<disk, hashes, run, scarred>>,
           \/ pc' = "check"
           \/ pc \in BackupSteps \ {"plan", "check"}
           \/ Readable => Empty,
           pc' \in {"check", "mark", "report", "invalidate", "mark_failed"}
    PROVE  SealInv'
<1>1. Sealed'
  BY DEF SealInv, Sealed, Readable, Incomplete, Exists, Empty, SealedBy,
     SoundManifest
<1>2. OwnSeal'
  BY DEF SealInv, OwnSeal, Readable, Incomplete, Exists, Empty, SealedBy,
     SoundManifest
<1>3. Written' /\ InErasure' /\ RunOnlyInBackup'
  BY DEF Written, InErasure, RunOnlyInBackup, EraseSteps
<1> QED
  BY <1>1, <1>2, <1>3 DEF SealInv

\* A job ends, and leaves the files alone.
LEMMA SealEnds ==
    ASSUME SealInv, PublishInv', UNCHANGED <<disk, hashes, scarred>>,
           pc' = "idle", run' = NoRun
    PROVE  SealInv'
<1>1. Sealed'
  BY DEF SealInv, Sealed, Readable, Incomplete, Exists, Empty, SealedBy,
     SoundManifest
<1>2. OwnSeal'
  BY DEF OwnSeal, BackupSteps, WritingSteps
<1>3. Written' /\ InErasure' /\ RunOnlyInBackup'
  BY DEF Written, InErasure, RunOnlyInBackup, EraseSteps
<1> QED
  BY <1>1, <1>2, <1>3 DEF SealInv

\* A sealed volume satisfies every reader.
LEMMA SealSatisfies ==
    ASSUME TypeInv, Readable, NEW r \in Runs, SealedBy(r)
    PROVE  /\ Loaded = Whole(r) /\ Loaded.by = r
           /\ QuickAccepts /\ FullAccepts /\ HasValidBackup
           /\ ~HasValidBackupDenied
<1>1. /\ \A f \in Kept : disk[f] = Whole(r) /\ Exists(f) /\ disk[f].state = "whole"
      /\ Whole(r).state = "whole" /\ Whole(r).by = r
  BY DEF SealedBy, Exists, Whole
<1>2. Loaded = Whole(r) /\ LoadedDigest = Whole(r)
  BY <1>1 DEF Loaded, LoadedDigest, Kept, MetaFiles, ManifestCopies,
     ManifestDigests
<1>3. HashesMatch(r)
  BY <1>1 DEF SealedBy, SoundManifest, HashesMatch, Kept
<1>4. QuickAccepts /\ FullAccepts
  BY <1>1, <1>2, <1>3 DEF QuickAccepts, FullAccepts, Readable
<1>5. HasValidBackup /\ ~HasValidBackupDenied
  BY <1>1, <1>2 DEF HasValidBackup, HasValidBackupDenied, Readable, Kept,
     MetaFiles, ManifestDigests
<1> QED
  BY <1>1, <1>2, <1>4, <1>5

\* What the check lets pass is no backup.
LEMMA DeniedEmpty ==
    ASSUME SealInv, HasValidBackupDenied \/ HasValidBackupRaises
    PROVE  Readable => Empty
<1> SUFFICES ASSUME Readable, NEW r \in Runs, SealedBy(r)
             PROVE  FALSE
  BY DEF SealInv, Sealed
<1>1. HasValidBackup /\ ~HasValidBackupDenied
  BY SealSatisfies DEF SealInv, PublishInv
<1> QED
  BY <1>1 DEF HasValidBackup, HasValidBackupRaises, LoadRaises

\* An empty one satisfies none.
LEMMA EmptyRefuses ==
    ASSUME Empty
    PROVE  ~QuickAccepts /\ ~FullAccepts /\ ~HasValidBackup
<1>1. ~Exists("canonical") /\ ~Exists("metadata") /\ ~Exists("legacy")
  BY DEF Empty, Kept, MetaFiles, ManifestCopies
<1>2. Loaded.state = "absent"
  BY <1>1 DEF Loaded, Exists
<1> QED
  BY <1>2 DEF QuickAccepts, FullAccepts, HasValidBackup

-----------------------------------------------------------------------------
LEMMA SealInit == Init => SealInv
<1> SUFFICES ASSUME Init PROVE SealInv
  OBVIOUS
<1>1. PublishInv
  BY PublishInit
<1>2. Empty
  BY FileKinds DEF Init, Empty, Kept, Exists, NoFile
<1> QED
  BY <1>1, <1>2 DEF Init, SealInv, Sealed, OwnSeal, Written, InErasure,
     RunOnlyInBackup, EraseSteps

\* Every file of the volume is in one of its entries.
LEMMA EntriesCover == \A f \in Files : \E e \in Entries : f \in EntryFiles[e]
  BY DEF Files, Images, MetaFiles, ManifestCopies, ManifestDigests, Sidecars,
     Entries, EntryFiles

LEMMA SealBackupStep ==
    ASSUME SealInv, PublishInv', Backup
    PROVE  SealInv'
<1>0. PublishInv /\ TypeInv /\ TypeOK /\ Control
  BY DEF SealInv, PublishInv, TypeInv
<1> USE <1>0
<1>1. CASE Plan
  <2>1. CASE Ended
    BY <1>1, <2>1, SealEnds DEF Plan, Ended, diskUnchanged
  <2>2. CASE pc' = "check" /\ sameLoop
    BY <1>1, <2>2, SealStays DEF Plan, diskUnchanged, sameLoop
  <2> QED
    BY <1>1, <2>1, <2>2 DEF Plan
<1>2. CASE Check
  <2>1. CASE Ended
    BY <1>2, <2>1, SealEnds DEF Check, Ended, diskUnchanged
  <2>2. CASE HasValidBackupDenied /\ pc' = "mark" /\ sameLoop
    BY <1>2, <2>2, SealStays, DeniedEmpty DEF Check, diskUnchanged, sameLoop
  <2> QED
    BY <1>2, <2>1, <2>2 DEF Check
<1>3. CASE MarkIncomplete
  BY <1>3, SealCovered DEF MarkIncomplete, Goto, Written, WritingSteps
<1>4. CASE DumpImages
  BY <1>4, SealCovered DEF DumpImages, Open, Fill, LoopDone, Goto, Written,
     WritingSteps
<1>5. CASE ListMissingArtifacts
  <2>1. CASE pc' = "hash"
    BY <1>5, <2>1, SealCovered DEF Written, WritingSteps
  <2>2. CASE pc' = "invalidate"
    BY <1>5, <2>2, SealStays DEF ListMissingArtifacts, Goto, diskUnchanged,
       sameLoop, BackupSteps, WritingSteps
  <2> QED
    BY <1>5, <2>1, <2>2 DEF ListMissingArtifacts, Goto
<1>6. CASE HashImages
  BY <1>6, SealCovered DEF HashImages, Goto, StartLoop, Written, WritingSteps
<1>7. CASE WriteManifestFiles
  <2>1. CASE Open("publish", "write")
    <3>1. PICK f \in left : Put(f, Torn(run))
      BY <2>1 DEF Open
    <3>2. /\ \A g \in Files \ {f} : disk'[g] = disk[g]
          /\ pc = "publish" /\ pc' = "write"
          /\ UNCHANGED <<run, left>>
      BY <2>1, <3>1 DEF Open, Put, Goto, sameLoop, TypeOK
    <3>3. Written'
      BY <3>2, FileKinds DEF SealInv, Written
    <3> QED
      BY <3>2, <3>3, SealCovered DEF WritingSteps
  <2>2. CASE Fill("write", "publish")
    <3>1. PICK f \in left : Put(f, Whole(run)) /\ left' = left \ {f}
      BY <2>2 DEF Fill
    <3>2. /\ disk'[f] = Whole(run)
          /\ \A g \in Files \ {f} : disk'[g] = disk[g]
          /\ pc = "write" /\ pc' = "publish"
          /\ UNCHANGED run
      BY <2>2, <3>1, FileKinds DEF Fill, Put, Goto, TypeOK, Control
    <3>3. Written'
      BY <3>1, <3>2, FileKinds DEF SealInv, Written
    <3> QED
      BY <3>2, <3>3, SealCovered DEF WritingSteps
  <2>3. CASE LoopDone("publish", "verify")
    <3>1. Written'
      BY <2>3 DEF LoopDone, Goto, diskUnchanged, sameLoop, SealInv, Written
    <3> QED
      BY <2>3, <3>1, SealCovered DEF LoopDone, Goto, WritingSteps
  <2> QED
    BY <1>7, <2>1, <2>2, <2>3 DEF WriteManifestFiles
<1>8. CASE FinalizeValidation
  <2>1. CASE pc' = "clear"
    <3>1. Written'
      BY <1>8, <2>1 DEF FinalizeValidation, diskUnchanged, sameLoop, SealInv,
         Written
    <3> QED
      BY <2>1, <3>1, SealCovered DEF WritingSteps
  <2>2. CASE pc' = "invalidate"
    BY <1>8, <2>2, SealStays DEF FinalizeValidation, diskUnchanged, sameLoop,
       BackupSteps, WritingSteps
  <2> QED
    BY <1>8, <2>1, <2>2 DEF FinalizeValidation
<1>9. CASE ClearIncomplete
  <2>1. /\ \A f \in Kept : disk'[f] = disk[f]
        /\ pc = "clear" /\ pc' = "report"
        /\ UNCHANGED <<run, hashes>>
        /\ run \in Runs
    BY <1>9, FileKinds DEF ClearIncomplete, Goto, Remove, sameLoop, TypeOK,
       Control, Kept, BackupSteps, WritingSteps
  <2>2. SealedBy(run)
    BY <2>1 DEF SealedBy, Kept, SealInv, Written, PublishInv, Dumped,
       ManifestsSound
  <2>3. SealedBy(run)'
    BY <2>1, <2>2 DEF SealedBy, SoundManifest
  <2>4. Sealed' /\ OwnSeal'
    BY <2>1, <2>3 DEF Sealed, OwnSeal
  <2>5. Written' /\ InErasure' /\ RunOnlyInBackup'
    BY <2>1 DEF Written, InErasure, RunOnlyInBackup, EraseSteps
  <2> QED
    BY <2>4, <2>5 DEF SealInv
<1>10. CASE Completed
  BY <1>10, SealEnds DEF Completed, Ended, diskUnchanged
<1>11. CASE StageRaises
  BY <1>11, SealStays, DeniedEmpty DEF StageRaises, diskUnchanged
<1>12. CASE Invalidate
  <2>1. CASE pc' = "unlink"
    BY <2>1, SealCovered DEF Written, WritingSteps
  <2>2. CASE LoopDone("unlink", "mark_failed")
    BY <2>2, SealStays DEF LoopDone, Goto, diskUnchanged, sameLoop,
       BackupSteps, WritingSteps
  <2> QED
    BY <1>12, <2>1, <2>2 DEF Invalidate, Goto
<1>13. CASE MarkFailed
  <2>1. CASE Put("marker", Whole(run))
    <3>1. ~Readable'
      BY <2>1, FileKinds DEF Put, Readable, Incomplete, Exists, Whole, TypeOK
    <3>2. Written' /\ InErasure' /\ RunOnlyInBackup'
      BY <1>13 DEF MarkFailed, Ended, Written, InErasure, RunOnlyInBackup,
         EraseSteps
    <3> QED
      BY <3>1, <3>2, SealClosed
  <2>2. CASE UNCHANGED disk
    BY <1>13, <2>2, SealEnds DEF MarkFailed, Ended
  <2> QED
    BY <1>13, <2>1, <2>2 DEF MarkFailed
<1> QED
  BY <1>1, <1>2, <1>3, <1>4, <1>5, <1>6, <1>7, <1>8, <1>9, <1>10, <1>11, <1>12,
     <1>13 DEF Backup

LEMMA SealEraseStep ==
    ASSUME SealInv, PublishInv', Erase
    PROVE  SealInv'
<1>0. PublishInv /\ TypeInv /\ TypeOK /\ Control
  BY DEF SealInv, PublishInv, TypeInv
<1> USE <1>0
<1>1. pc \in EraseSteps /\ scarred /\ run = NoRun
  BY DEF Erase, EraseEntry, EraseFile, EntryErased, EraseDone, EraseRaises,
     Goto, EraseSteps, SealInv, InErasure, RunOnlyInBackup
<1>2. CASE EraseEntry
  <2>1. PICK e \in left : entry' = e /\ left' = left \ {e}
    BY <1>2 DEF EraseEntry
  <2>2. pc = "erase" /\ pc' = "remove" /\ UNCHANGED <<disk, run, scarred>>
    BY <1>2 DEF EraseEntry, Goto, diskUnchanged
  <2>3. InErasure'
    BY <1>1, <2>1, <2>2 DEF SealInv, InErasure, Exists
  <2>4. ~Readable' /\ Written' /\ RunOnlyInBackup'
    BY <1>1, <2>2 DEF Readable, Written, RunOnlyInBackup
  <2> QED
    BY <2>3, <2>4, SealClosed
<1>3. CASE EraseFile
  <2>1. PICK f \in EntryFiles[entry] : Remove(f)
    BY <1>3 DEF EraseFile
  <2>2. pc = "remove" /\ UNCHANGED <<pc, left, entry, run, scarred>>
    BY <1>3 DEF EraseFile, jobVars
  <2>3. \A g \in Files : disk'[g] = disk[g] \/ disk'[g] = NoFile
    BY <2>1 DEF Remove, TypeOK
  <2>4. InErasure'
    BY <1>1, <2>2, <2>3 DEF SealInv, InErasure, Exists, NoFile
  <2>5. ~Readable' /\ Written' /\ RunOnlyInBackup'
    BY <1>1, <2>2 DEF Readable, Written, RunOnlyInBackup
  <2> QED
    BY <2>4, <2>5, SealClosed
<1>4. CASE EntryErased
  <2>1. /\ pc = "remove" /\ pc' = "erase"
        /\ UNCHANGED <<disk, left, run, scarred>>
        /\ \A f \in EntryFiles[entry] : ~Exists(f)
    BY <1>4 DEF EntryErased, Goto, diskUnchanged
  <2>2. InErasure'
    BY <1>1, <2>1 DEF SealInv, InErasure, Exists
  <2>3. ~Readable' /\ Written' /\ RunOnlyInBackup'
    BY <1>1, <2>1 DEF Readable, Written, RunOnlyInBackup
  <2> QED
    BY <2>2, <2>3, SealClosed
<1>5. CASE EraseDone
  <2>1. Empty'
    BY <1>5, FileKinds DEF EraseDone, diskUnchanged, SealInv, InErasure, Empty,
       Kept, Exists
  <2>2. Sealed' /\ OwnSeal'
    BY <2>1 DEF Sealed, OwnSeal
  <2>3. Written' /\ InErasure' /\ RunOnlyInBackup'
    BY <1>5 DEF EraseDone, Ended, Written, InErasure, RunOnlyInBackup, EraseSteps
  <2> QED
    BY <2>2, <2>3 DEF SealInv
<1>6. CASE EraseRaises
  BY <1>6, SealEnds DEF EraseRaises, Ended, diskUnchanged
<1> QED
  BY <1>2, <1>3, <1>4, <1>5, <1>6 DEF Erase

LEMMA SealStep ==
    ASSUME SealInv, [Next]_vars
    PROVE  SealInv'
<1>0. PublishInv' /\ PublishInv /\ TypeInv /\ TypeOK /\ Control
  BY PublishStep DEF SealInv, PublishInv, TypeInv
<1> USE <1>0
<1>1. CASE Backup
  BY <1>1, SealBackupStep
<1>2. CASE Erase
  BY <1>2, SealEraseStep
<1>3. CASE StartBackup
  <2>1. pc' = "plan" /\ UNCHANGED <<disk, hashes, scarred>>
    BY <1>3 DEF StartBackup, Goto, diskUnchanged
  <2>2. Sealed' /\ OwnSeal'
    BY <2>1 DEF SealInv, Sealed, OwnSeal, Readable, Incomplete, Exists, Empty,
       SealedBy, SoundManifest
  <2>3. Written' /\ InErasure' /\ RunOnlyInBackup'
    BY <2>1 DEF Written, InErasure, RunOnlyInBackup, EraseSteps
  <2> QED
    BY <2>2, <2>3 DEF SealInv
<1>4. ASSUME NEW kind \in {"delete", "reset"}, StartErase(kind)
      PROVE  SealInv'
  <2>1. /\ pc = "idle" /\ pc' = "erase" /\ scarred'
        /\ left' = {e \in Entries : \E f \in EntryFiles[e] : Exists(f)}
        /\ UNCHANGED <<disk, run>>
    BY <1>4 DEF StartErase, Goto, diskUnchanged
  <2>2. InErasure'
    BY <2>1, EntriesCover DEF InErasure, Exists
  <2>3. ~Readable' /\ Written' /\ RunOnlyInBackup'
    BY <2>1 DEF Readable, Written, RunOnlyInBackup, SealInv
  <2> QED
    BY <2>2, <2>3, SealClosed
<1>5. CASE Format
  <2>1. pc = "idle" /\ pc' = "idle" /\ run' = run /\ Empty'
    BY <1>5, FileKinds DEF Format, jobVars, Empty, Kept, Exists, NoFile
  <2>2. Sealed' /\ OwnSeal' /\ Written' /\ InErasure' /\ RunOnlyInBackup'
    BY <2>1 DEF SealInv, Sealed, OwnSeal, Written, InErasure, RunOnlyInBackup,
       EraseSteps
  <2> QED
    BY <2>2 DEF SealInv
<1>6. CASE Killed
  BY <1>6, SealEnds DEF Killed, Ended, diskUnchanged
<1>7. CASE PowerLoss
  <2>1. PICK lost \in SUBSET dirty :
          /\ disk' = [f \in Files |-> IF f \in lost THEN Wreck ELSE disk[f]]
          /\ scarred' = (scarred \/ lost # {})
    BY <1>7 DEF PowerLoss
  <2>2. pc' = "idle" /\ run' = NoRun /\ UNCHANGED hashes
    BY <1>7 DEF PowerLoss, Ended
  <2>3. CASE lost = {}
    <3>1. UNCHANGED <<disk, scarred>>
      BY <2>1, <2>3 DEF TypeOK
    <3> QED
      BY <2>2, <3>1, SealEnds
  <2>4. CASE lost # {}
    <3>1. ~Readable' /\ Written' /\ InErasure' /\ RunOnlyInBackup'
      BY <2>1, <2>2, <2>4 DEF Readable, Written, InErasure, RunOnlyInBackup,
         EraseSteps
    <3> QED
      BY <3>1, SealClosed
  <2> QED
    BY <2>3, <2>4
<1>8. CASE UNCHANGED vars
  BY <1>8 DEF vars, jobVars, SealInv, Sealed, OwnSeal, Written, InErasure,
     RunOnlyInBackup, Readable, Incomplete, Exists, Empty, SealedBy,
     SoundManifest
<1> QED
  BY <1>1, <1>2, <1>3, <1>4, <1>5, <1>6, <1>7, <1>8 DEF Next, Launch

LEMMA SealInvariance == Spec => []SealInv
<1>1. SealInv /\ [Next]_vars => SealInv'
  BY SealStep
<1> QED
  BY SealInit, <1>1, PTL DEF Spec

\* What the quick validation offers on a volume without scars the full
\* validation accepts, whatever failed and killed runs have left there.
THEOREM OfferedSound == Spec => []OfferedIsRestorable
<1>1. SealInv => OfferedIsRestorable
  <2> SUFFICES ASSUME SealInv, QuickAccepts, ~scarred
               PROVE  FullAccepts
    BY DEF OfferedIsRestorable
  <2>1. Readable /\ TypeInv
    BY DEF QuickAccepts, Readable, SealInv, PublishInv
  <2>2. PICK r \in Runs : SealedBy(r)
    BY <2>1, EmptyRefuses DEF SealInv, Sealed
  <2> QED
    BY <2>1, <2>2, SealSatisfies
<1> QED
  BY SealInvariance, <1>1, PTL

\* The planner and the quick validation agree on a volume without scars, though
\* they look at different files.
THEOREM ReadersConcur == Spec => []ReadersAgree
<1>1. SealInv => ReadersAgree
  <2> SUFFICES ASSUME SealInv, ~scarred
               PROVE  QuickAccepts <=> HasValidBackup
    BY DEF ReadersAgree
  <2>1. CASE Incomplete
    BY <2>1 DEF QuickAccepts, HasValidBackup
  <2>2. CASE Empty
    BY <2>2, EmptyRefuses
  <2>3. CASE \E r \in Runs : Readable /\ SealedBy(r)
    BY <2>3, SealSatisfies DEF SealInv, PublishInv
  <2> QED
    BY <2>1, <2>2, <2>3 DEF SealInv, Sealed, Readable
<1> QED
  BY SealInvariance, <1>1, PTL

-----------------------------------------------------------------------------
(***************************************************************************)
(* The engine implements BackupContract.                                   *)
(***************************************************************************)

\* Nothing is accepted on a volume no reader may be asked about.
LEMMA AcceptedNone == ~Readable => acceptedRun = NoRun
  BY DEF acceptedRun, Readable, FullAccepts, QuickAccepts

LEMMA AcceptedNoneNext ==
    ASSUME ~Readable' \/ Empty'
    PROVE  acceptedRun' = NoRun
<1>1. CASE ~Readable'
  BY <1>1 DEF acceptedRun, Readable, FullAccepts, QuickAccepts
<1>2. CASE Empty'
  <2>1. ~Exists("canonical")' /\ ~Exists("metadata")' /\ ~Exists("legacy")'
    BY <1>2 DEF Empty, Kept, MetaFiles, ManifestCopies
  <2>2. Loaded'.state = "absent"
    BY <2>1 DEF Loaded, Exists
  <2> QED
    BY <2>2 DEF acceptedRun, FullAccepts, QuickAccepts
<1> QED
  BY <1>1, <1>2

\* Past its check a run meets no accepted backup but its own.
LEMMA AcceptedOwn ==
    ASSUME SealInv, pc \in BackupSteps \ {"plan", "check"}
    PROVE  acceptedRun \in {NoRun, run}
<1>1. CASE Readable
  <2>1. run \in Runs /\ TypeInv
    BY DEF SealInv, PublishInv, TypeInv, Control
  <2>2. CASE Empty
    BY <2>2, EmptyRefuses DEF acceptedRun
  <2>3. CASE SealedBy(run)
    BY <1>1, <2>1, <2>3, SealSatisfies DEF acceptedRun, Readable
  <2> QED
    BY <1>1, <2>2, <2>3 DEF SealInv, OwnSeal
<1> QED
  BY <1>1, AcceptedNone

LEMMA AcceptedStable ==
    ASSUME UNCHANGED <<disk, hashes, scarred>>
    PROVE  UNCHANGED acceptedRun
  BY DEF acceptedRun, FullAccepts, QuickAccepts, HashesMatch, Loaded,
     LoadedDigest, Incomplete, Exists

LEMMA ContractBackupStep ==
    ASSUME SealInv, SealInv', Backup
    PROVE  [Contract!ContractNext]_<<acceptedRun, run, Runs \ unused>>
<1>0. /\ PublishInv /\ PublishInv' /\ TypeInv /\ TypeOK /\ Control
      /\ unused' = unused
  BY DEF SealInv, PublishInv, TypeInv, Backup, Plan, Check, MarkIncomplete,
     DumpImages, Open, Fill, LoopDone, ListMissingArtifacts, HashImages,
     WriteManifestFiles, FinalizeValidation, ClearIncomplete, Completed,
     StageRaises, Invalidate, MarkFailed
<1> USE <1>0
<1>1. pc \in BackupSteps
  BY DEF Backup, Plan, Check, MarkIncomplete, DumpImages, Open, Fill, LoopDone,
     ListMissingArtifacts, HashImages, WriteManifestFiles, FinalizeValidation,
     ClearIncomplete, Completed, StageRaises, Invalidate, MarkFailed, Goto,
     BackupSteps, WritingSteps
<1>2. run \in Runs /\ run # NoRun
  BY <1>1, RunsAssumption DEF Control
<1>3. CASE UNCHANGED acceptedRun /\ run' \in {run, NoRun}
  BY <1>3 DEF Contract!ContractNext, Contract!Finish
<1>4. CASE pc \notin {"plan", "check"} /\ acceptedRun' = NoRun /\ run' \in {run, NoRun}
  BY <1>1, <1>2, <1>3, <1>4, AcceptedOwn DEF Contract!ContractNext,
     Contract!TakeBack
<1>5. CASE Plan \/ Check \/ ListMissingArtifacts \/ FinalizeValidation
           \/ Completed \/ StageRaises
  BY <1>3, <1>5, AcceptedStable DEF Plan, Check, ListMissingArtifacts,
     FinalizeValidation, Completed, StageRaises, Ended, diskUnchanged, sameLoop
<1>6. CASE pc' \in WritingSteps \cup {"unlink"}
  <2>1. acceptedRun' = NoRun
    BY <1>6, AcceptedNoneNext DEF PublishInv, Covered, Readable
  <2>2. run' \in {run, NoRun}
    BY DEF Backup, Plan, Check, MarkIncomplete, DumpImages, Open, Fill,
       LoopDone, ListMissingArtifacts, HashImages, WriteManifestFiles,
       FinalizeValidation, ClearIncomplete, Completed, StageRaises, Invalidate,
       MarkFailed, Ended, sameLoop, StartLoop
  <2>3. CASE pc \in {"plan", "check"}
    BY <1>5, <2>3 DEF Backup, MarkIncomplete, DumpImages, Open, Fill,
       LoopDone, HashImages, WriteManifestFiles, ClearIncomplete, Invalidate,
       MarkFailed, Goto
  <2> QED
    BY <1>4, <2>1, <2>2, <2>3
<1>7. CASE ClearIncomplete
  <2>1. acceptedRun = NoRun
    BY <1>7, AcceptedNone DEF ClearIncomplete, Goto, PublishInv, Covered,
       Readable, WritingSteps
  <2>2. pc' = "report" /\ run' = run
    BY <1>7 DEF ClearIncomplete, Goto, sameLoop
  <2>3. acceptedRun' \in {NoRun, run}
    <3>1. CASE ~Readable' \/ Empty'
      BY <3>1, AcceptedNoneNext
    <3>2. CASE SealedBy(run)'
      <4>1. disk'["canonical"] = Whole(run)
        BY <2>2, <3>2 DEF SealedBy, Kept, MetaFiles, ManifestCopies
      <4>2. Loaded'.by = run
        BY <4>1 DEF Loaded, Exists, Whole
      <4> QED
        BY <4>2 DEF acceptedRun
    <3> QED
      BY <2>2, <3>1, <3>2 DEF SealInv, OwnSeal, BackupSteps
  <2> QED
    BY <1>2, <2>1, <2>2, <2>3 DEF Contract!ContractNext, Contract!Publish
<1>8. CASE LoopDone("unlink", "mark_failed")
  BY <1>3, <1>8, AcceptedStable DEF LoopDone, diskUnchanged, sameLoop
<1>9. CASE MarkFailed
  <2>1. pc \notin {"plan", "check"} /\ run' = NoRun
    BY <1>9 DEF MarkFailed, Ended
  <2>2. CASE UNCHANGED disk
    BY <1>3, <1>9, <2>1, <2>2, AcceptedStable DEF MarkFailed
  <2>3. CASE Put("marker", Whole(run))
    <3>1. ~Readable'
      BY <2>3, FileKinds DEF Put, Readable, Incomplete, Exists, Whole, TypeOK
    <3> QED
      BY <1>4, <2>1, <3>1, AcceptedNoneNext
  <2> QED
    BY <1>9, <2>2, <2>3 DEF MarkFailed
<1>10. CASE MarkIncomplete \/ DumpImages \/ HashImages \/ WriteManifestFiles
            \/ Invalidate
  BY <1>6, <1>8, <1>10 DEF MarkIncomplete, DumpImages, Open, Fill, LoopDone,
     HashImages, WriteManifestFiles, Invalidate, Goto, WritingSteps
<1> QED
  BY <1>5, <1>7, <1>9, <1>10 DEF Backup

LEMMA ContractStep ==
    ASSUME SealInv, SealInv', [Next]_vars
    PROVE  [Contract!ContractNext]_<<acceptedRun, run, Runs \ unused>>
<1>0. PublishInv /\ PublishInv' /\ TypeInv /\ TypeOK /\ Control
  BY DEF SealInv, PublishInv, TypeInv
<1> USE <1>0
<1>1. CASE Backup
  BY <1>1, ContractBackupStep
<1>2. CASE Erase
  <2>1. scarred /\ run = NoRun /\ run' = NoRun /\ unused' = unused
    BY <1>2 DEF Erase, EraseEntry, EraseFile, EntryErased, EraseDone,
       EraseRaises, Goto, Ended, jobVars, EraseSteps, SealInv, InErasure,
       RunOnlyInBackup
  <2>2. acceptedRun = NoRun
    BY <2>1, AcceptedNone DEF Readable
  <2>3. CASE EraseDone
    <3>1. Empty'
      BY <2>3, FileKinds DEF EraseDone, diskUnchanged, SealInv, InErasure,
         Empty, Kept, Exists
    <3> QED
      BY <2>1, <2>2, <3>1, AcceptedNoneNext
  <2>4. CASE scarred'
    BY <2>1, <2>2, <2>4, AcceptedNoneNext DEF Readable
  <2> QED
    BY <1>2, <2>1, <2>3, <2>4 DEF Erase, EraseEntry, EraseFile, EntryErased,
       EraseRaises
<1>3. CASE StartBackup
  <2>1. UNCHANGED acceptedRun
    BY <1>3, AcceptedStable DEF StartBackup, diskUnchanged
  <2>2. run = NoRun /\ run' \in unused /\ unused' = unused \ {run'}
    BY <1>3 DEF StartBackup, Goto, SealInv, RunOnlyInBackup
  <2>3. /\ run' \in Runs \ (Runs \ unused)
        /\ Runs \ unused' = (Runs \ unused) \cup {run'}
    BY <2>2 DEF TypeOK
  <2> QED
    BY <2>1, <2>2, <2>3 DEF Contract!ContractNext, Contract!Begin
<1>4. ASSUME NEW kind \in {"delete", "reset"}, StartErase(kind)
      PROVE  Contract!EraseAccepted
  BY <1>4, AcceptedNoneNext DEF StartErase, Goto, Readable, SealInv,
     RunOnlyInBackup, Contract!EraseAccepted
<1>5. CASE Format
  <2>1. pc = "idle" /\ UNCHANGED <<run, unused>> /\ Empty'
    BY <1>5, FileKinds DEF Format, jobVars, Empty, Kept, Exists, NoFile
  <2> QED
    BY <2>1, AcceptedNoneNext DEF SealInv, RunOnlyInBackup,
       Contract!ContractNext, Contract!EraseAccepted
<1>6. CASE Killed
  BY <1>6, AcceptedStable DEF Killed, Ended, diskUnchanged,
     Contract!ContractNext, Contract!Finish
<1>7. CASE PowerLoss
  <2>1. PICK lost \in SUBSET dirty :
          /\ disk' = [f \in Files |-> IF f \in lost THEN Wreck ELSE disk[f]]
          /\ scarred' = (scarred \/ lost # {})
    BY <1>7 DEF PowerLoss
  <2>2. /\ run' = NoRun /\ UNCHANGED <<hashes, unused>>
        /\ "power" \in CrashKinds
    BY <1>7 DEF PowerLoss, Ended
  <2>3. CASE lost = {}
    <3>1. UNCHANGED <<disk, scarred>>
      BY <2>1, <2>3 DEF TypeOK
    <3> QED
      BY <2>2, <3>1, AcceptedStable DEF Contract!ContractNext, Contract!Finish
  <2>4. CASE lost # {}
    <3>1. acceptedRun' = NoRun
      BY <2>1, <2>4, AcceptedNoneNext DEF Readable
    <3> QED
      BY <2>2, <3>1 DEF Contract!ContractNext, Contract!Tear
  <2> QED
    BY <2>3, <2>4
<1>8. CASE UNCHANGED vars
  BY <1>8, AcceptedStable DEF vars, jobVars
<1> QED
  BY <1>1, <1>2, <1>3, <1>4, <1>5, <1>6, <1>7, <1>8 DEF Next, Launch,
     Contract!ContractNext

\* The backup engine implements the contract, for any number of runs, with every
\* erasure and every way to crash: only the run at work makes a backup
\* acceptable, and none but its own is taken back.
THEOREM ImplementsTheContract == Spec => ImplementsContract
<1>1. Init => Contract!ContractInit
  BY SealInit, EmptyRefuses, FileKinds DEF Init, Contract!ContractInit,
     acceptedRun, Empty, Kept, Exists, NoFile
<1>2. SealInv /\ SealInv' /\ [Next]_vars
        => [Contract!ContractNext]_<<acceptedRun, run, Runs \ unused>>
  BY ContractStep
<1> QED
  BY <1>1, <1>2, SealInvariance, PTL
  DEF Spec, ImplementsContract, Contract!ContractSpec, Contract!contractVars
=============================================================================
