------------------------- MODULE BackupEngineProofs -------------------------
(***************************************************************************)
(* What BackupEngine guarantees for every set of runs, every choice of     *)
(* erasures and every kind of crash.                                       *)
(***************************************************************************)
EXTENDS BackupEngine, TLAPS

-----------------------------------------------------------------------------
(***************************************************************************)
(* The operators on files and loops.                                       *)
(***************************************************************************)

\* The contents a step can give to a file are contents.
LEMMA ContentTypes ==
    /\ NoFile \in Contents
    /\ Wreck \in Contents
    /\ \A r \in Runs \cup {NoRun} : Torn(r) \in Contents /\ Whole(r) \in Contents
  BY DEF NoFile, Wreck, Torn, Whole, Contents

\* The kinds of files do not overlap, and entries hold files only.
LEMMA FileKinds ==
    /\ Images \subseteq Files
    /\ MetaFiles \subseteq Files
    /\ ManifestCopies \subseteq MetaFiles
    /\ "marker" \in Files
    /\ Images \cap MetaFiles = {}
    /\ "marker" \notin Images \cup MetaFiles
    /\ \A e \in Entries : EntryFiles[e] \subseteq Files
<1>1. \A e \in Entries : EntryFiles[e] \subseteq Files
  BY DEF Entries, EntryFiles, Files, MetaFiles, Images, ManifestCopies,
         ManifestDigests, Sidecars
<1> QED
  BY <1>1 DEF Files, MetaFiles, Images, ManifestCopies, ManifestDigests, Sidecars

\* What is taken out of a loop was in it.
LEMMA TurnIn ==
    ASSUME NEW order, NEW files, NEW f, Turn(order, files, f)
    PROVE  f \in files
  BY DEF Turn

-----------------------------------------------------------------------------
(***************************************************************************)
(* Types, and what each step knows of its job.                             *)
(***************************************************************************)

\* Who runs at which step, and what its loop ranges over.
Control ==
    /\ pc = "idle" => job = "none"
    /\ pc \in BackupSteps => job = "backup" /\ run \in Runs
    /\ pc \in EraseSteps => job \in {"delete", "reset"} /\ left \subseteq Entries
    /\ pc = "remove" => entry \in Entries
    /\ pc \in {"dump", "fill"} => left \subseteq Images
    /\ pc \in {"publish", "write", "unlink"} => left \subseteq MetaFiles

TypeInv == TypeOK /\ Control

LEMMA TypeInit == Init => TypeInv
  BY ContentTypes DEF Init, TypeInv, TypeOK, Control, BackupSteps, EraseSteps,
     WritingSteps

LEMMA TypeStep ==
    ASSUME TypeInv, [Next]_vars
    PROVE  TypeInv'
<1> USE DEF TypeInv, TypeOK, Control
<1>1. CASE StartBackup
  BY <1>1 DEF StartBackup, Goto, diskUnchanged, BackupSteps, EraseSteps,
     WritingSteps
<1>2. CASE Plan
  BY <1>2 DEF Plan, Ended, sameLoop, diskUnchanged, BackupSteps, EraseSteps,
     WritingSteps
<1>3. CASE Check
  BY <1>3 DEF Check, Ended, sameLoop, diskUnchanged, BackupSteps, EraseSteps,
     WritingSteps
<1>4. CASE MarkIncomplete
  BY <1>4, ContentTypes, FileKinds DEF MarkIncomplete, Goto, Put, StartLoop,
     BackupSteps, EraseSteps, WritingSteps
<1>5. CASE DumpImages
  <2>1. CASE Open("dump", "fill")
    BY <2>1, ContentTypes, FileKinds, TurnIn DEF Open, Goto, Put, sameLoop,
       BackupSteps, EraseSteps, WritingSteps
  <2>2. CASE Fill("fill", "dump")
    BY <2>2, ContentTypes, FileKinds, TurnIn DEF Fill, Goto, Put,
       BackupSteps, EraseSteps, WritingSteps
  <2>3. CASE LoopDone("dump", "missing")
    BY <2>3 DEF LoopDone, Goto, diskUnchanged, sameLoop, BackupSteps,
       EraseSteps, WritingSteps
  <2> QED
    BY <1>5, <2>1, <2>2, <2>3 DEF DumpImages
<1>6. CASE ListMissingArtifacts
  BY <1>6 DEF ListMissingArtifacts, Goto, diskUnchanged, sameLoop, BackupSteps,
     EraseSteps, WritingSteps
<1>7. CASE HashImages
  <2>1. [i \in Images |-> disk[i]] \in [Images -> Contents]
    BY FileKinds
  <2> QED
    BY <1>7, <2>1, FileKinds DEF HashImages, Goto, StartLoop, BackupSteps,
       EraseSteps, WritingSteps
<1>8. CASE WriteManifestFiles
  <2>1. CASE Open("publish", "write")
    BY <2>1, ContentTypes, FileKinds, TurnIn DEF Open, Goto, Put, sameLoop,
       BackupSteps, EraseSteps, WritingSteps
  <2>2. CASE Fill("write", "publish")
    BY <2>2, ContentTypes, FileKinds, TurnIn DEF Fill, Goto, Put,
       BackupSteps, EraseSteps, WritingSteps
  <2>3. CASE LoopDone("publish", "verify")
    BY <2>3 DEF LoopDone, Goto, diskUnchanged, sameLoop, BackupSteps,
       EraseSteps, WritingSteps
  <2> QED
    BY <1>8, <2>1, <2>2, <2>3 DEF WriteManifestFiles
<1>9. CASE FinalizeValidation
  BY <1>9 DEF FinalizeValidation, diskUnchanged, sameLoop, BackupSteps,
     EraseSteps, WritingSteps
<1>10. CASE ClearIncomplete
  BY <1>10, ContentTypes, FileKinds DEF ClearIncomplete, Goto, Remove, sameLoop,
     BackupSteps, EraseSteps, WritingSteps
<1>11. CASE Completed
  BY <1>11 DEF Completed, Ended, diskUnchanged, BackupSteps, EraseSteps,
     WritingSteps
<1>12. CASE StageRaises
  BY <1>12 DEF StageRaises, diskUnchanged, BackupSteps, EraseSteps, WritingSteps
<1>13. CASE Invalidate
  <2>1. CASE Goto("invalidate", "unlink") /\ Put("marker", Whole(run))
             /\ StartLoop(MetaFiles) /\ UNCHANGED <<hashes, unused, scarred>>
    BY <2>1, ContentTypes, FileKinds DEF Goto, Put, StartLoop, BackupSteps,
       EraseSteps, WritingSteps
  <2>2. CASE /\ pc = "unlink"
             /\ \E f \in left :
                   /\ Turn(UnlinkOrder, left, f)
                   /\ Remove(f)
                   /\ left' = left \ {f}
             /\ UNCHANGED <<hashes, pc, job, run, entry, unused, scarred>>
    BY <2>2, ContentTypes, FileKinds DEF Remove, BackupSteps, EraseSteps,
       WritingSteps
  <2>3. CASE LoopDone("unlink", "mark_failed")
    BY <2>3 DEF LoopDone, Goto, diskUnchanged, sameLoop, BackupSteps,
       EraseSteps, WritingSteps
  <2> QED
    BY <1>13, <2>1, <2>2, <2>3 DEF Invalidate
<1>14. CASE MarkFailed
  BY <1>14, ContentTypes, FileKinds DEF MarkFailed, Put, Ended, BackupSteps,
     EraseSteps, WritingSteps
<1>15. CASE Erase
  <2>1. CASE EraseEntry
    BY <2>1 DEF EraseEntry, Goto, diskUnchanged, BackupSteps, EraseSteps,
       WritingSteps
  <2>2. CASE EraseFile
    BY <2>2, ContentTypes, FileKinds DEF EraseFile, Remove, jobVars,
       BackupSteps, EraseSteps, WritingSteps
  <2>3. CASE EntryErased
    BY <2>3 DEF EntryErased, Goto, diskUnchanged, BackupSteps, EraseSteps,
       WritingSteps
  <2>4. CASE EraseDone
    BY <2>4 DEF EraseDone, Ended, diskUnchanged, BackupSteps, EraseSteps,
       WritingSteps
  <2>5. CASE EraseRaises
    BY <2>5 DEF EraseRaises, Ended, diskUnchanged, BackupSteps, EraseSteps,
       WritingSteps
  <2> QED
    BY <1>15, <2>1, <2>2, <2>3, <2>4, <2>5 DEF Erase
<1>16. ASSUME NEW kind \in {"delete", "reset"}, StartErase(kind)
       PROVE  TypeInv'
  BY <1>16 DEF StartErase, Goto, diskUnchanged, BackupSteps, EraseSteps,
     WritingSteps
<1>17. CASE Format
  BY <1>17, ContentTypes DEF Format, jobVars
<1>18. CASE Killed
  BY <1>18 DEF Killed, Ended, diskUnchanged, BackupSteps, EraseSteps,
     WritingSteps
<1>19. CASE PowerLoss
  <2>1. disk' \in [Files -> Contents] /\ scarred' \in BOOLEAN
    BY <1>19, ContentTypes DEF PowerLoss
  <2> QED
    BY <1>19, <2>1 DEF PowerLoss, Ended, BackupSteps, EraseSteps, WritingSteps
<1>20. CASE UNCHANGED vars
  BY <1>20 DEF vars, jobVars
<1> QED
  BY <1>1, <1>2, <1>3, <1>4, <1>5, <1>6, <1>7, <1>8, <1>9, <1>10, <1>11, <1>12,
     <1>13, <1>14, <1>15, <1>16, <1>17, <1>18, <1>19, <1>20
  DEF Next, Backup, Launch

\* The type invariant of the backup pipeline holds for any number of runs.
THEOREM TypeCorrect == Spec => []TypeOK
<1>1. TypeInv /\ [Next]_vars => TypeInv'
  BY TypeStep
<1>2. TypeInv => TypeOK
  BY DEF TypeInv
<1> QED
  BY TypeInit, <1>1, <1>2, PTL DEF Spec
-----------------------------------------------------------------------------
(***************************************************************************)
(* The marker, the images and the manifests.                               *)
(***************************************************************************)

\* The marker also stands while a failed finalize unlinks the manifests.
Covered == pc \in WritingSteps \cup {"unlink"} => Incomplete

\* What the running backup has dumped so far is whole and its own.
Dumped ==
    /\ pc \in {"dump", "fill"}
          => \A i \in Images \ left : disk[i] = Whole(run)
    /\ pc \in {"missing", "hash", "publish", "write", "verify", "clear"}
          => \A i \in Images : disk[i] = Whole(run)

\* r's manifest is the manifest of three whole images of r.
SoundManifest(r) == \A i \in Images : hashes[r][i] = Whole(r)

\* A manifest that can be read is sound, as is the one being written.
ManifestsSound ==
    /\ pc \in {"publish", "write", "verify", "clear"} => SoundManifest(run)
    /\ \A f \in ManifestCopies :
          disk[f].state = "whole"
             => disk[f].by \in Runs /\ SoundManifest(disk[f].by)

PublishInv == TypeInv /\ Covered /\ Dumped /\ ManifestsSound

\* A step that leaves the disk alone, or takes files away, or wrecks them, and
\* ends the job keeps the invariant.
LEMMA PublishEnds ==
    ASSUME PublishInv, TypeInv', pc' \in {"idle", "mark_failed", "erase",
                                         "remove", "plan", "check", "mark",
                                         "report", "invalidate"},
           UNCHANGED hashes,
           \A f \in ManifestCopies :
               disk'[f] = disk[f] \/ disk'[f].state # "whole"
    PROVE  PublishInv'
<1>1. Covered' /\ Dumped'
  BY DEF Covered, Dumped, WritingSteps
<1>2. ManifestsSound'
  BY DEF PublishInv, ManifestsSound, SoundManifest
<1> QED
  BY <1>1, <1>2 DEF PublishInv

LEMMA PublishInit == Init => PublishInv
<1> SUFFICES ASSUME Init PROVE PublishInv
  OBVIOUS
<1>1. TypeInv
  BY TypeInit
<1>2. Covered /\ Dumped
  BY DEF Init, Covered, Dumped, WritingSteps
<1>3. ManifestsSound
  BY FileKinds DEF Init, ManifestsSound, NoFile
<1> QED
  BY <1>1, <1>2, <1>3 DEF PublishInv

LEMMA PublishStep ==
    ASSUME PublishInv, [Next]_vars
    PROVE  PublishInv'
<1>0. TypeInv' /\ TypeInv /\ TypeOK /\ Control
  BY TypeStep DEF PublishInv, TypeInv
<1> USE <1>0
<1>1. CASE StartBackup \/ Plan \/ Check \/ Completed
  BY <1>1, PublishEnds DEF StartBackup, Plan, Check, Completed, Goto, Ended,
     diskUnchanged
<1>2. CASE MarkIncomplete
  <2>1. disk'["marker"] = Whole(run) /\ \A f \in MetaFiles : disk'[f] = disk[f]
    BY <1>2, FileKinds DEF MarkIncomplete, Put, TypeOK
  <2>2. Covered' /\ Dumped'
    BY <1>2, <2>1 DEF MarkIncomplete, Goto, StartLoop, Covered, Dumped,
       Incomplete, Exists, Whole
  <2>3. ManifestsSound'
    BY <1>2, <2>1, FileKinds DEF MarkIncomplete, Goto, PublishInv,
       ManifestsSound, SoundManifest
  <2> QED
    BY <2>2, <2>3 DEF PublishInv
<1>3. CASE DumpImages
  <2>1. CASE Open("dump", "fill")
    <3>1. PICK f \in left : Put(f, Torn(run))
      BY <2>1 DEF Open
    <3>2. /\ \A g \in Files \ {f} : disk'[g] = disk[g]
          /\ f \in Images
          /\ pc = "dump" /\ pc' = "fill"
          /\ UNCHANGED <<hashes, run, left>>
      BY <2>1, <3>1 DEF Open, Put, Goto, sameLoop, TypeOK, Control
    <3>3. Covered'
      BY <3>2, FileKinds DEF PublishInv, Covered, Incomplete, Exists,
         WritingSteps
    <3>4. Dumped'
      BY <3>2, FileKinds DEF PublishInv, Dumped
    <3>5. ManifestsSound'
      BY <3>2, FileKinds DEF PublishInv, ManifestsSound, SoundManifest
    <3> QED
      BY <3>3, <3>4, <3>5 DEF PublishInv
  <2>2. CASE Fill("fill", "dump")
    <3>1. PICK f \in left : Put(f, Whole(run)) /\ left' = left \ {f}
      BY <2>2 DEF Fill
    <3>2. /\ disk'[f] = Whole(run)
          /\ \A g \in Files \ {f} : disk'[g] = disk[g]
          /\ f \in Images
          /\ pc = "fill" /\ pc' = "dump"
          /\ UNCHANGED <<hashes, run>>
      BY <2>2, <3>1, FileKinds DEF Fill, Put, Goto, TypeOK, Control
    <3>3. Covered'
      BY <3>2, FileKinds DEF PublishInv, Covered, Incomplete, Exists,
         WritingSteps
    <3>4. Dumped'
      BY <3>1, <3>2, FileKinds DEF PublishInv, Dumped
    <3>5. ManifestsSound'
      BY <3>2, FileKinds DEF PublishInv, ManifestsSound, SoundManifest
    <3> QED
      BY <3>3, <3>4, <3>5 DEF PublishInv
  <2>3. CASE LoopDone("dump", "missing")
    BY <2>3 DEF LoopDone, Goto, diskUnchanged, sameLoop, PublishInv, Covered,
       Dumped, ManifestsSound, SoundManifest, Incomplete, Exists, WritingSteps
  <2> QED
    BY <1>3, <2>1, <2>2, <2>3 DEF DumpImages
<1>4. CASE ListMissingArtifacts
  BY <1>4 DEF ListMissingArtifacts, Goto, diskUnchanged, sameLoop, PublishInv,
     Covered, Dumped, ManifestsSound, SoundManifest, Incomplete, Exists,
     WritingSteps
<1>5. CASE HashImages
  <2>1. /\ pc = "hash" /\ pc' = "publish"
        /\ UNCHANGED <<disk, run>>
        /\ run \in Runs
        /\ \A r \in Runs \ {run} : hashes'[r] = hashes[r]
        /\ \A i \in Images : hashes'[run][i] = disk[i]
    BY <1>5 DEF HashImages, Goto, StartLoop, TypeOK, Control, BackupSteps,
       WritingSteps
  <2>2. Covered' /\ Dumped'
    BY <2>1 DEF PublishInv, Covered, Dumped, Incomplete, Exists, WritingSteps
  <2>3. SoundManifest(run)'
    BY <2>1 DEF PublishInv, Dumped, SoundManifest
  <2>4. ManifestsSound'
    BY <2>1, <2>3 DEF PublishInv, ManifestsSound, SoundManifest
  <2> QED
    BY <2>2, <2>4 DEF PublishInv
<1>6. CASE WriteManifestFiles
  <2>1. CASE Open("publish", "write")
    <3>1. PICK f \in left : Put(f, Torn(run))
      BY <2>1 DEF Open
    <3>2. /\ disk'[f] = Torn(run)
          /\ \A g \in Files \ {f} : disk'[g] = disk[g]
          /\ f \in MetaFiles
          /\ pc = "publish" /\ pc' = "write"
          /\ UNCHANGED <<hashes, run>>
      BY <2>1, <3>1, FileKinds DEF Open, Put, Goto, sameLoop, TypeOK, Control
    <3>3. Covered' /\ Dumped'
      BY <3>2, FileKinds DEF PublishInv, Covered, Dumped, Incomplete, Exists,
         WritingSteps
    <3>4. ManifestsSound'
      BY <3>2, FileKinds DEF PublishInv, ManifestsSound, SoundManifest, Torn
    <3> QED
      BY <3>3, <3>4 DEF PublishInv
  <2>2. CASE Fill("write", "publish")
    <3>1. PICK f \in left : Put(f, Whole(run))
      BY <2>2 DEF Fill
    <3>2. /\ disk'[f] = Whole(run)
          /\ \A g \in Files \ {f} : disk'[g] = disk[g]
          /\ f \in MetaFiles
          /\ pc = "write" /\ pc' = "publish"
          /\ run \in Runs
          /\ UNCHANGED <<hashes, run>>
      BY <2>2, <3>1, FileKinds DEF Fill, Put, Goto, TypeOK, Control,
         BackupSteps, WritingSteps
    <3>3. Covered' /\ Dumped'
      BY <3>2, FileKinds DEF PublishInv, Covered, Dumped, Incomplete, Exists,
         WritingSteps
    <3>4. ManifestsSound'
      BY <3>2, FileKinds DEF PublishInv, ManifestsSound, SoundManifest, Whole
    <3> QED
      BY <3>3, <3>4 DEF PublishInv
  <2>3. CASE LoopDone("publish", "verify")
    BY <2>3 DEF LoopDone, Goto, diskUnchanged, sameLoop, PublishInv, Covered,
       Dumped, ManifestsSound, SoundManifest, Incomplete, Exists, WritingSteps
  <2> QED
    BY <1>6, <2>1, <2>2, <2>3 DEF WriteManifestFiles
<1>7. CASE FinalizeValidation
  BY <1>7 DEF FinalizeValidation, diskUnchanged, sameLoop, PublishInv, Covered,
     Dumped, ManifestsSound, SoundManifest, Incomplete, Exists, WritingSteps
<1>8. CASE ClearIncomplete
  <2>1. /\ \A f \in ManifestCopies : disk'[f] = disk[f]
        /\ pc' = "report"
        /\ UNCHANGED hashes
    BY <1>8, FileKinds DEF ClearIncomplete, Goto, Remove, TypeOK
  <2> QED
    BY <2>1, PublishEnds
<1>9. CASE StageRaises
  BY <1>9, PublishEnds DEF StageRaises, diskUnchanged
<1>10. CASE Invalidate
  <2>1. CASE Goto("invalidate", "unlink") /\ Put("marker", Whole(run))
             /\ StartLoop(MetaFiles) /\ UNCHANGED <<hashes, unused, scarred>>
    <3>1. /\ disk'["marker"] = Whole(run)
          /\ \A f \in MetaFiles : disk'[f] = disk[f]
          /\ pc' = "unlink"
      BY <2>1, FileKinds DEF Goto, Put, TypeOK
    <3>2. Covered' /\ Dumped'
      BY <3>1 DEF Covered, Dumped, Incomplete, Exists, Whole
    <3>3. ManifestsSound'
      BY <2>1, <3>1, FileKinds DEF PublishInv, ManifestsSound, SoundManifest
    <3> QED
      BY <3>2, <3>3 DEF PublishInv
  <2>2. CASE /\ pc = "unlink"
             /\ \E f \in left :
                   /\ Turn(UnlinkOrder, left, f)
                   /\ Remove(f)
                   /\ left' = left \ {f}
             /\ UNCHANGED <<hashes, pc, job, run, entry, unused, scarred>>
    <3>1. PICK f \in left : Remove(f)
      BY <2>2
    <3>2. /\ disk'[f] = NoFile
          /\ \A g \in Files \ {f} : disk'[g] = disk[g]
          /\ f \in MetaFiles
      BY <2>2, <3>1, FileKinds DEF Remove, TypeOK, Control
    <3>3. Covered' /\ Dumped'
      BY <2>2, <3>2, FileKinds DEF PublishInv, Covered, Dumped, Incomplete,
         Exists, WritingSteps
    <3>4. ManifestsSound'
      BY <2>2, <3>2, FileKinds DEF PublishInv, ManifestsSound, SoundManifest,
         NoFile
    <3> QED
      BY <3>3, <3>4 DEF PublishInv
  <2>3. CASE LoopDone("unlink", "mark_failed")
    BY <2>3, PublishEnds DEF LoopDone, Goto, diskUnchanged
  <2> QED
    BY <1>10, <2>1, <2>2, <2>3 DEF Invalidate
<1>11. CASE MarkFailed
  <2>1. /\ \A f \in ManifestCopies : disk'[f] = disk[f]
        /\ pc' = "idle"
        /\ UNCHANGED hashes
    BY <1>11, FileKinds DEF MarkFailed, Put, Ended, TypeOK
  <2> QED
    BY <2>1, PublishEnds
<1>12. CASE Erase
  <2>1. CASE EraseFile
    <3>1. /\ \A f \in ManifestCopies :
                disk'[f] = disk[f] \/ disk'[f].state # "whole"
          /\ pc' = "remove"
          /\ UNCHANGED hashes
      BY <2>1, FileKinds DEF EraseFile, Remove, jobVars, NoFile, TypeOK
    <3> QED
      BY <3>1, PublishEnds
  <2> QED
    BY <1>12, <2>1, PublishEnds DEF Erase, EraseEntry, EntryErased, EraseDone,
       EraseRaises, Goto, Ended, diskUnchanged
<1>13. CASE StartErase("delete") \/ StartErase("reset")
  BY <1>13, PublishEnds DEF StartErase, Goto, diskUnchanged
<1>14. CASE Format
  BY <1>14, PublishEnds, FileKinds DEF Format, jobVars, NoFile
<1>15. CASE Killed
  BY <1>15, PublishEnds DEF Killed, Ended, diskUnchanged
<1>16. CASE PowerLoss
  <2>1. \A f \in ManifestCopies : disk'[f] = disk[f] \/ disk'[f].state # "whole"
    BY <1>16, FileKinds DEF PowerLoss, Wreck
  <2> QED
    BY <1>16, <2>1, PublishEnds DEF PowerLoss, Ended
<1>17. CASE UNCHANGED vars
  BY <1>17 DEF vars, jobVars, PublishInv, Covered, Dumped, ManifestsSound,
     SoundManifest, Incomplete, Exists
<1> QED
  BY <1>1, <1>2, <1>3, <1>4, <1>5, <1>6, <1>7, <1>8, <1>9, <1>10, <1>11, <1>12,
     <1>13, <1>14, <1>15, <1>16, <1>17
  DEF Next, Backup, Launch

LEMMA PublishInvariance == Spec => []PublishInv
<1>1. PublishInv /\ [Next]_vars => PublishInv'
  BY PublishStep
<1> QED
  BY PublishInit, <1>1, PTL DEF Spec

\* A volume the full validation accepts holds the images of one run, the run
\* of the manifest that was found: any number of runs, any erasures, crashes.
THEOREM AcceptedSound == Spec => []AcceptedIsOneRun
<1>1. PublishInv => AcceptedIsOneRun
  <2> SUFFICES ASSUME PublishInv, FullAccepts
               PROVE  \A i \in Images : disk[i] = Whole(Loaded.by)
    BY DEF AcceptedIsOneRun
  <2>1. PICK f \in ManifestCopies : Loaded = disk[f]
    BY DEF Loaded, ManifestCopies
  <2>2. disk[f].state = "whole"
    BY <2>1 DEF FullAccepts, QuickAccepts
  <2>3. SoundManifest(Loaded.by)
    BY <2>1, <2>2 DEF PublishInv, ManifestsSound
  <2> QED
    BY <2>3 DEF FullAccepts, HashesMatch, SoundManifest
<1> QED
  BY PublishInvariance, <1>1, PTL

\* The marker covers a backup from its first write to the end of its check.
THEOREM MarkerCovers == Spec => []MarkerCoversBackup
<1>1. PublishInv => MarkerCoversBackup
  BY DEF PublishInv, Covered, MarkerCoversBackup
<1> QED
  BY PublishInvariance, <1>1, PTL

\* A step that leaves files and hashes alone changes no reader's mind.
LEMMA ReadersStable ==
    ASSUME UNCHANGED <<disk, hashes>>
    PROVE  FullAccepts' <=> FullAccepts
  BY DEF FullAccepts, QuickAccepts, HashesMatch, Loaded, LoadedDigest,
     Incomplete, Exists

\* A power loss makes no backup acceptable: what it tears cannot be read, or
\* has not the content a manifest asks for.
LEMMA PowerLossAcceptsNothing ==
    ASSUME PublishInv, PublishInv', PowerLoss, FullAccepts'
    PROVE  FullAccepts
<1>1. PICK lost \in SUBSET dirty :
         disk' = [f \in Files |-> IF f \in lost THEN Wreck ELSE disk[f]]
  BY DEF PowerLoss
<1>2. \A f \in Files : disk'[f] = Wreck \/ disk'[f] = disk[f]
  BY <1>1
<1>3. UNCHANGED hashes
  BY DEF PowerLoss
<1>4. Wreck.state = "torn"
  BY DEF Wreck
<1>5. {"canonical", "metadata", "legacy", "digest", "legacy_digest", "marker"}
         \subseteq Files
  BY DEF Files, MetaFiles, ManifestCopies, ManifestDigests
<1>6. Loaded' = Loaded /\ Loaded.state = "whole"
  BY <1>2, <1>4, <1>5 DEF FullAccepts, QuickAccepts, Loaded, Exists
<1>7. LoadedDigest' = LoadedDigest
  <2>1. LoadedDigest'.state = "whole"
    BY <1>6 DEF FullAccepts, QuickAccepts
  <2> QED
    BY <2>1, <1>2, <1>4, <1>5 DEF LoadedDigest, Exists
<1>8. ~Incomplete
  BY <1>2, <1>4, <1>5 DEF FullAccepts, QuickAccepts, Incomplete, Exists
<1>9. HashesMatch(Loaded.by)
  <2>1. PICK f \in ManifestCopies : Loaded = disk[f]
    BY DEF Loaded, ManifestCopies
  <2>2. SoundManifest(Loaded.by)
    BY <2>1, <1>6 DEF PublishInv, ManifestsSound
  <2>3. \A i \in Images : disk'[i] = hashes[Loaded.by][i]
    BY <1>3, <1>6 DEF FullAccepts, HashesMatch
  <2>4. \A i \in Images : disk'[i] # Wreck
    BY <2>2, <2>3, <1>4 DEF SoundManifest, Whole
  <2> QED
    BY <2>3, <2>4, <1>2, FileKinds DEF HashesMatch
<1> QED
  BY <1>6, <1>7, <1>8, <1>9 DEF FullAccepts, QuickAccepts

\* A backup makes the volume acceptable by unmarking it after its check, with
\* its own images on it, and by no other step.
THEOREM PublishedLast == Spec => PublishedAtTheEnd
<1> DEFINE Step == job = "backup" /\ ~FullAccepts /\ FullAccepts'
                      => pc = "clear" /\ \A i \in Images : disk[i] = Whole(run)
<1>1. PublishInv /\ PublishInv' /\ [Next]_vars => Step
  <2> SUFFICES ASSUME PublishInv, PublishInv', [Next]_vars,
                      job = "backup", ~FullAccepts, FullAccepts'
               PROVE  pc = "clear" /\ \A i \in Images : disk[i] = Whole(run)
    OBVIOUS
  <2>1. ~Incomplete'
    BY DEF FullAccepts, QuickAccepts
  <2>2. pc' \notin WritingSteps \cup {"unlink"}
    BY <2>1 DEF PublishInv, Covered
  <2>3. ~UNCHANGED <<disk, hashes>>
    BY ReadersStable
  <2>4. pc \in BackupSteps
    BY DEF PublishInv, TypeInv, TypeOK, Control
  <2>5. CASE MarkFailed
    <3>1. Put("marker", Whole(run))
      BY <2>3, <2>5 DEF MarkFailed
    <3>2. disk'["marker"] = Whole(run)
      BY <3>1, FileKinds DEF Put, PublishInv, TypeInv, TypeOK
    <3> QED
      BY <2>1, <3>2 DEF Incomplete, Exists, Whole
  <2>6. CASE ClearIncomplete
    BY <2>6 DEF ClearIncomplete, Goto, PublishInv, Dumped
  <2>7. CASE PowerLoss
    BY <2>7, PowerLossAcceptsNothing
  <2>8. CASE UNCHANGED vars
    BY <2>3, <2>8 DEF vars
  <2>9. CASE MarkIncomplete \/ DumpImages \/ HashImages \/ WriteManifestFiles
                \/ Invalidate
    BY <2>2, <2>3, <2>9 DEF MarkIncomplete, DumpImages, HashImages,
       WriteManifestFiles, Invalidate, Open, Fill, LoopDone, Goto,
       diskUnchanged, WritingSteps
  <2>10. CASE Plan \/ Check \/ ListMissingArtifacts \/ FinalizeValidation
                 \/ Completed \/ StageRaises \/ Killed
    BY <2>3, <2>10 DEF Plan, Check, ListMissingArtifacts, FinalizeValidation,
       Completed, StageRaises, Killed, diskUnchanged
  <2>11. CASE Erase \/ Launch
    BY <2>4, <2>11 DEF Erase, EraseEntry, EraseFile, EntryErased, EraseDone,
       EraseRaises, Launch, StartBackup, StartErase, Format, Goto, BackupSteps,
       WritingSteps, EraseSteps
  <2> QED
    BY <2>5, <2>6, <2>7, <2>8, <2>9, <2>10, <2>11 DEF Next, Backup
<1>2. Spec => [][Step]_vars
  BY PublishInvariance, <1>1, PTL DEF Spec
<1> QED
  BY <1>2 DEF PublishedAtTheEnd
=============================================================================
