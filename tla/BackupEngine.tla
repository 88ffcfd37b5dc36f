---------------------------- MODULE BackupEngine ----------------------------
(***************************************************************************)
(* The backup pipeline of Recoverix, what it leaves on the RECOVERY_IMAGE  *)
(* volume, and what the rest of the product takes for a backup.            *)
(*                                                                         *)
(*   backup_engine/run_backup.py        the pipeline                       *)
(*   backup_engine/backup_finalize.py   the finalize transaction           *)
(*   backup_engine/backup_state.py      the incomplete_backup marker       *)
(*   backup_engine/backup_planner.py, backup_engine/manifest.py,           *)
(*   validation/image_validation.py     the readers of the volume          *)
(*   recovery_runtime/backup_admin.py   reset and deletion                 *)
(*                                                                         *)
(* One privileged job runs at a time.  Any stage of it may raise, it may   *)
(* be killed at any step, and the machine may lose power.                  *)
(*                                                                         *)
(* A definition introduced as a mutation is used by no behaviour: it is a  *)
(* plausible slip in the definition that follows it, and shows that the    *)
(* properties would notice it.                                             *)
(***************************************************************************)
EXTENDS Naturals, Sequences

CONSTANTS
    Runs,             \* the backup runs there may be, each with its identity
    NoRun,            \* no run at all
    Erasures,         \* the erasures operators start: "delete", "reset"
    CrashKinds        \* how a job may die: "kill", "power"

ASSUME RunsAssumption == NoRun \notin Runs

ASSUME ErasuresAssumption == Erasures \subseteq {"delete", "reset"}

ASSUME BackupCrashAssumption == CrashKinds \subseteq {"kill", "power"}

-----------------------------------------------------------------------------
(***************************************************************************)
(* The files of the volume.                                                *)
(***************************************************************************)
Images == {"windows", "efi", "gpt"}

\* manifests/, the root of the volume, and metadata/.
ManifestCopies == {"canonical", "legacy", "metadata"}

\* hashes/manifest.sha256 and recovery-manifest.sha256 in the root.
ManifestDigests == {"digest", "legacy_digest"}

\* hashes/<artifact>.sha256
Sidecars == {"windows.sha256", "efi.sha256", "gpt.sha256"}

MetaFiles == ManifestCopies \cup ManifestDigests \cup Sidecars

\* "marker" is state/incomplete_backup.
Files == Images \cup MetaFiles \cup {"marker"}

\* The order of execute_backup_apply and write_canonical_manifest_files.
WriteOrder ==
    <<"windows", "efi", "gpt",
      "canonical", "legacy", "metadata", "digest", "legacy_digest",
      "gpt.sha256", "efi.sha256", "windows.sha256">>

\* The order of _invalidate_on_finalize_failure.
UnlinkOrder ==
    <<"canonical", "metadata", "legacy",
      "windows.sha256", "efi.sha256", "gpt.sha256", "digest", "legacy_digest">>

\* What shutil.rmtree or unlink of an entry of the volume's root removes.
EntryFiles ==
    [images          |-> {"windows", "efi"},
     metadata        |-> {"gpt", "metadata"},
     state           |-> {"marker"},
     manifests       |-> {"canonical"},
     hashes          |-> {"digest"} \cup Sidecars,
     legacy_manifest |-> {"legacy"},
     legacy_digest   |-> {"legacy_digest"}]

Entries == DOMAIN EntryFiles

\* The order of delete_backup_data.
DeleteOrder ==
    <<"images", "metadata", "state", "manifests", "hashes",
      "legacy_manifest", "legacy_digest">>

\* f's turn has come in a loop over an order, with left still to do.
Turn(order, left, f) ==
    /\ f \in left
    /\ \A i, j \in 1..Len(order) :
          i < j /\ order[i] \in left => order[j] # f

\* A file's content: the run that wrote it, and whether it wrote all of it.
\* The content a power loss makes of a file is nobody's.
Contents == [state : {"absent", "torn", "whole"}, by : Runs \cup {NoRun}]

NoFile == [state |-> "absent", by |-> NoRun]

Wreck == [state |-> "torn", by |-> NoRun]

Torn(r) == [state |-> "torn", by |-> r]

Whole(r) == [state |-> "whole", by |-> r]

-----------------------------------------------------------------------------
VARIABLES
    disk,         \* the files of the volume
    hashes,       \* the image contents whose hashes a run's manifest holds
    dirty,        \* files the kernel may not have written back
    \* -- the running job
    pc,           \* the step it is about to take
    job,          \* what was started
    run,          \* the identity of the running backup
    left,         \* what its current loop has still to do
    entry,        \* the entry of the volume it is removing
    \* -- bookkeeping
    unused,       \* the runs not started yet
    scarred       \* an erasure was cut short, or a power loss tore files

jobVars == <<pc, job, run, left, entry>>
vars == <<disk, hashes, dirty, jobVars, unused, scarred>>

\* The pipeline between its marking of the volume and its unmarking.
WritingSteps ==
    {"dump", "fill", "missing", "hash", "publish", "write", "verify", "clear"}

BackupSteps ==
    {"plan", "check", "mark", "report", "invalidate", "unlink", "mark_failed"}
        \cup WritingSteps

EraseSteps == {"erase", "remove"}

TypeOK ==
    /\ disk \in [Files -> Contents]
    /\ hashes \in [Runs -> [Images -> Contents]]
    /\ dirty \subseteq Files
    /\ pc \in {"idle"} \cup BackupSteps \cup EraseSteps
    /\ job \in {"none", "backup", "delete", "reset"}
    /\ run \in Runs \cup {NoRun}
    /\ left \subseteq Files \cup Entries
    /\ entry \in Entries \cup {"none"}
    /\ unused \subseteq Runs
    /\ scarred \in BOOLEAN

\* A RECOVERY_IMAGE volume as the installer leaves it.
Init ==
    /\ disk = [f \in Files |-> NoFile]
    /\ hashes = [r \in Runs |-> [i \in Images |-> NoFile]]
    /\ dirty = {}
    /\ pc = "idle"
    /\ job = "none"
    /\ run = NoRun
    /\ left = {}
    /\ entry = "none"
    /\ unused = Runs
    /\ scarred = FALSE

-----------------------------------------------------------------------------
(***************************************************************************)
(* The readers of the volume.                                              *)
(***************************************************************************)
Exists(f) == disk[f].state # "absent"

Incomplete == Exists("marker")

\* load_recovery_manifest reads the first copy that is there.
Loaded ==
    IF Exists("canonical") THEN disk["canonical"]
    ELSE IF Exists("metadata") THEN disk["metadata"]
    ELSE disk["legacy"]

\* json.loads of a truncated copy raises.
LoadRaises == Loaded.state = "torn"

\* load_manifest_hash reads the digest in the root first.
LoadedDigest ==
    IF Exists("legacy_digest") THEN disk["legacy_digest"] ELSE disk["digest"]

\* validate_restore without the image hashes, on the disk it was made of.
QuickAccepts ==
    /\ ~Incomplete
    /\ Loaded.state = "whole"
    /\ LoadedDigest = Loaded

\* The images are those whose hashes are in the manifest of run r.
HashesMatch(r) == \A i \in Images : disk[i] = hashes[r][i]

\* validate_restore in full.
FullAccepts == QuickAccepts /\ HashesMatch(Loaded.by)

\* Mutation: the planner does not look for the marker.
HasValidBackupUnmarked ==
    /\ Loaded.state = "whole"
    /\ \A f \in Images \cup Sidecars \cup {"digest"} : Exists(f)

\* has_valid_backup of the planner: True, False or an exception.
HasValidBackup ==
    /\ ~Incomplete
    /\ Loaded.state = "whole"
    /\ \A f \in Images \cup Sidecars \cup {"digest"} : Exists(f)

HasValidBackupRaises == ~Incomplete /\ LoadRaises

\* It also asks for a size above zero, which a torn image may not have.
HasValidBackupDenied ==
    /\ ~HasValidBackupRaises
    /\ ~HasValidBackup \/ \E i \in Images : disk[i].state = "torn"

\* validate_finalize_state inside the transaction, marker allowed.
FinalizeOk ==
    /\ \A f \in Images \cup Sidecars \cup {"digest"} : Exists(f)
    /\ \E f \in ManifestCopies : Exists(f)
    /\ HashesMatch(run)
    /\ disk["digest"] = Whole(run)

-----------------------------------------------------------------------------
(***************************************************************************)
(* Steps of a job.                                                         *)
(***************************************************************************)
Goto(step, next) == pc = step /\ pc' = next

Ended ==
    /\ pc' = "idle"
    /\ job' = "none"
    /\ run' = NoRun
    /\ left' = {}
    /\ entry' = "none"

\* f is written: the file is there, its data perhaps only in memory.
Put(f, content) ==
    /\ disk' = [disk EXCEPT ![f] = content]
    /\ dirty' = dirty \cup {f}

Remove(f) ==
    /\ disk' = [disk EXCEPT ![f] = NoFile]
    /\ dirty' = dirty \ {f}

diskUnchanged == UNCHANGED <<disk, hashes, dirty>>

\* A loop over files starts.
StartLoop(files) == left' = files /\ UNCHANGED <<job, run, entry>>

sameLoop == UNCHANGED <<job, run, left, entry>>

-----------------------------------------------------------------------------
(***************************************************************************)
(* execute_backup_apply.                                                   *)
(***************************************************************************)

\* The menu (after the volume was reset) or run_backup.py --apply --confirm.
StartBackup ==
    /\ Goto("idle", "plan")
    /\ job' = "backup"
    /\ run' \in unused
    /\ unused' = unused \ {run'}
    /\ diskUnchanged
    /\ UNCHANGED <<left, entry, scarred>>

\* plan_backup_run: BitLocker, the topology of the disk, an unreadable manifest
\* or a valid backup ends the run, the backup only on a volume that is mounted
\* already: on any other the run gets past its plan.
Plan ==
    /\ pc = "plan"
    /\ Ended \/ (pc' = "check" /\ sameLoop)
    /\ diskUnchanged
    /\ UNCHANGED <<unused, scarred>>

\* Mutation: the run relies on the plan for a backup that is there.
CheckUnblocked ==
    /\ Goto("check", "mark")
    /\ sameLoop
    /\ diskUnchanged
    /\ UNCHANGED <<unused, scarred>>

\* Inside the try, on the volume mounted by now: has_valid_backup, again or for
\* the first time.
Check ==
    /\ pc = "check"
    /\ \/ HasValidBackup /\ Ended
       \/ /\ HasValidBackupDenied
          /\ pc' = "mark"
          /\ sameLoop
    /\ diskUnchanged
    /\ UNCHANGED <<unused, scarred>>

\* Mutation: only a failure marks the volume.
MarkIncompleteLater ==
    /\ Goto("mark", "dump")
    /\ StartLoop(Images)
    /\ UNCHANGED <<disk, dirty, hashes, unused, scarred>>

MarkIncomplete ==
    /\ Goto("mark", "dump")
    /\ Put("marker", Whole(run))
    /\ StartLoop(Images)
    /\ UNCHANGED <<hashes, unused, scarred>>

\* partclone and sgdisk (or write_text) open the next file and truncate it.
Open(step, next) ==
    /\ Goto(step, next)
    /\ \E f \in left :
          /\ Turn(WriteOrder, left, f)
          /\ Put(f, Torn(run))
    /\ sameLoop
    /\ UNCHANGED <<hashes, unused, scarred>>

\* They have written all of it; an image is then verified by its size.
Fill(step, next) ==
    /\ Goto(step, next)
    /\ \E f \in left :
          /\ Turn(WriteOrder, left, f)
          /\ Put(f, Whole(run))
          /\ left' = left \ {f}
    /\ UNCHANGED <<hashes, job, run, entry, unused, scarred>>

\* A loop is over.
LoopDone(step, next) ==
    /\ Goto(step, next)
    /\ left = {}
    /\ diskUnchanged
    /\ sameLoop
    /\ UNCHANGED <<unused, scarred>>

\* Mutation: the exit status of partclone and sgdisk is not looked at.
DumpImagesUnchecked ==
    \/ Open("dump", "fill")
    \/ Fill("fill", "dump")
    \/ /\ Goto("fill", "dump")
       /\ \E f \in left : Turn(WriteOrder, left, f) /\ left' = left \ {f}
       /\ diskUnchanged
       /\ UNCHANGED <<job, run, entry, unused, scarred>>
    \/ LoopDone("dump", "missing")

\* Windows, EFI, GPT.
DumpImages ==
    Open("dump", "fill") \/ Fill("fill", "dump") \/ LoopDone("dump", "missing")

-----------------------------------------------------------------------------
(***************************************************************************)
(* run_backup_finalize_transaction.                                        *)
(***************************************************************************)
ListMissingArtifacts ==
    /\ Goto("missing",
            IF \A i \in Images : Exists(i) THEN "hash" ELSE "invalidate")
    /\ diskUnchanged
    /\ sameLoop
    /\ UNCHANGED <<unused, scarred>>

\* Mutation: every file of the volume is hashed.
HashAllFiles ==
    /\ Goto("hash", "publish")
    /\ hashes' = [hashes EXCEPT ![run] = disk]
    /\ StartLoop(MetaFiles)
    /\ UNCHANGED <<disk, dirty, unused, scarred>>

\* sha256_files; build_canonical_manifest_v1 puts the hashes in the manifest.
HashImages ==
    /\ Goto("hash", "publish")
    /\ hashes' = [hashes EXCEPT ![run] = [i \in Images |-> disk[i]]]
    /\ StartLoop(MetaFiles)
    /\ UNCHANGED <<disk, dirty, unused, scarred>>

\* Mutation: writing the manifest files unmarks the volume.
WriteManifestFilesUnmarking ==
    \/ Open("publish", "write")
    \/ Fill("write", "publish")
    \/ /\ Goto("publish", "verify")
       /\ left = {}
       /\ Remove("marker")
       /\ sameLoop
       /\ UNCHANGED <<hashes, unused, scarred>>

\* write_canonical_manifest_files.
WriteManifestFiles ==
    \/ Open("publish", "write")
    \/ Fill("write", "publish")
    \/ LoopDone("publish", "verify")

\* The validation reads everything again; it may also find a bad block.
FinalizeValidation ==
    /\ pc = "verify"
    /\ pc' \in IF FinalizeOk THEN {"clear", "invalidate"} ELSE {"invalidate"}
    /\ diskUnchanged
    /\ sameLoop
    /\ UNCHANGED <<unused, scarred>>

ClearIncomplete ==
    /\ Goto("clear", "report")
    /\ Remove("marker")
    /\ sameLoop
    /\ UNCHANGED <<hashes, unused, scarred>>

\* The last progress messages, then status COMPLETED.
Completed ==
    /\ pc = "report"
    /\ Ended
    /\ diskUnchanged
    /\ UNCHANGED <<unused, scarred>>

-----------------------------------------------------------------------------
(***************************************************************************)
(* Failures of a backup.                                                   *)
(***************************************************************************)

\* An OSError of the hashing or the writing is answered by an invalidation,
\* any other exception by the except clause of execute_backup_apply.  A valid
\* backup is met at the check only if the plan did not have the volume mounted:
\* what raises there is the mount, and the except clause marks the bare
\* directory DEFAULT_EXPECTED_MOUNT.
StageRaises ==
    /\ pc \in BackupSteps \ {"plan", "mark_failed"}
    /\ pc = "check" => HasValidBackupDenied \/ HasValidBackupRaises
    /\ \/ pc' = "mark_failed"
       \/ pc \in {"hash", "publish", "write"} /\ pc' = "invalidate"
    /\ left' = {}
    /\ diskUnchanged
    /\ UNCHANGED <<job, run, entry, unused, scarred>>

\* _invalidate_on_finalize_failure: the marker first, then the manifests and
\* the hashes are unlinked, then the transaction raises.
Invalidate ==
    \/ /\ Goto("invalidate", "unlink")
       /\ Put("marker", Whole(run))
       /\ StartLoop(MetaFiles)
       /\ UNCHANGED <<hashes, unused, scarred>>
    \/ /\ pc = "unlink"
       /\ \E f \in left :
             /\ Turn(UnlinkOrder, left, f)
             /\ Remove(f)
             /\ left' = left \ {f}
       /\ UNCHANGED <<hashes, pc, job, run, entry, unused, scarred>>
    \/ LoopDone("unlink", "mark_failed")

\* The except clause marks the volume, if it can, and returns FAILED.
MarkFailed ==
    /\ pc = "mark_failed"
    /\ \/ Put("marker", Whole(run))
       \/ UNCHANGED <<disk, dirty>>
    /\ Ended
    /\ UNCHANGED <<hashes, unused, scarred>>

-----------------------------------------------------------------------------
(***************************************************************************)
(* Deletion and reset.                                                     *)
(***************************************************************************)

\* delete_backup_data, or _reset_recovery_image_in_place when the volume is
\* busy.  Neither looks at what it removes.  Entries without a file make no
\* difference.
StartErase(kind) ==
    /\ kind \in Erasures
    /\ Goto("idle", "erase")
    /\ job' = kind
    /\ left' = {e \in Entries : \E f \in EntryFiles[e] : Exists(f)}
    /\ scarred' = TRUE
    /\ diskUnchanged
    /\ UNCHANGED <<run, entry, unused>>

\* A deletion has its order; a reset takes root.iterdir() as it comes.
EraseEntry ==
    /\ Goto("erase", "remove")
    /\ \E e \in left :
          /\ job = "delete" => Turn(DeleteOrder, left, e)
          /\ entry' = e
          /\ left' = left \ {e}
    /\ diskUnchanged
    /\ UNCHANGED <<job, run, unused, scarred>>

\* rmtree removes the files of a directory in no particular order.
EraseFile ==
    /\ pc = "remove"
    /\ \E f \in EntryFiles[entry] : Exists(f) /\ Remove(f)
    /\ UNCHANGED <<hashes, jobVars, unused, scarred>>

EntryErased ==
    /\ Goto("remove", "erase")
    /\ \A f \in EntryFiles[entry] : ~Exists(f)
    /\ entry' = "none"
    /\ diskUnchanged
    /\ UNCHANGED <<job, run, left, unused, scarred>>

EraseDone ==
    /\ pc = "erase"
    /\ left = {}
    /\ scarred' = FALSE
    /\ Ended
    /\ diskUnchanged
    /\ UNCHANGED unused

EraseRaises ==
    /\ pc \in EraseSteps
    /\ Ended
    /\ diskUnchanged
    /\ UNCHANGED <<unused, scarred>>

\* reset_recovery_image_for_backup of a volume that can be unmounted: mkfs.
Format ==
    /\ pc = "idle"
    /\ disk' = [f \in Files |-> NoFile]
    /\ dirty' = {}
    /\ scarred' = FALSE
    /\ UNCHANGED <<hashes, jobVars, unused>>

-----------------------------------------------------------------------------
(***************************************************************************)
(* The environment.                                                        *)
(***************************************************************************)
Killed ==
    /\ "kill" \in CrashKinds
    /\ pc # "idle"
    /\ Ended
    /\ diskUnchanged
    /\ UNCHANGED <<unused, scarred>>

\* Nothing in the code syncs: any file written since the machine came up may
\* be found without its data.  The journal keeps the order of creations and
\* removals; losing its tail is losing power a little earlier.
PowerLoss ==
    /\ "power" \in CrashKinds
    /\ \E lost \in SUBSET dirty :
          /\ disk' = [f \in Files |-> IF f \in lost THEN Wreck ELSE disk[f]]
          /\ scarred' = (scarred \/ lost # {})
    /\ dirty' = {}
    /\ Ended
    /\ UNCHANGED <<hashes, unused>>

-----------------------------------------------------------------------------
Backup ==
    \/ Plan \/ Check \/ MarkIncomplete
    \/ DumpImages
    \/ ListMissingArtifacts \/ HashImages \/ WriteManifestFiles
    \/ FinalizeValidation \/ ClearIncomplete \/ Completed
    \/ StageRaises \/ Invalidate \/ MarkFailed

Erase == EraseEntry \/ EraseFile \/ EntryErased \/ EraseDone \/ EraseRaises

Launch == StartBackup \/ StartErase("delete") \/ StartErase("reset") \/ Format

Next == Backup \/ Erase \/ Launch \/ Killed \/ PowerLoss

Spec == Init /\ [][Next]_vars

-----------------------------------------------------------------------------
(***************************************************************************)
(* Properties.                                                             *)
(***************************************************************************)

\* What the full validation accepts is one backup: three whole images, all of
\* the run whose manifest was found; whatever killed runs, cut erasures and
\* power losses have left on the volume.
AcceptedIsOneRun ==
    FullAccepts => \A i \in Images : disk[i] = Whole(Loaded.by)

\* From its marking to its unmarking of the volume a backup is covered by the
\* marker: no step, exception or leftover takes it away in between.
MarkerCoversBackup == pc \in WritingSteps => Incomplete

\* What the menu offers on the quick validation, which reads no image, the full
\* validation accepts, as long as no erasure was cut short and no power loss
\* tore a file: a failed or killed run leaves nothing that passes for a backup.
OfferedIsRestorable == QuickAccepts /\ ~scarred => FullAccepts

\* The quick validation behind the menu and has_valid_backup, which look at
\* different files, agree unless files were torn or half erased: what is offered
\* for a restore blocks a new backup, and what blocks one is offered.
ReadersAgree == ~scarred => (QuickAccepts <=> HasValidBackup)

\* The accepted backup of a volume, as long as no erasure was begun and no power
\* loss tore a file; the run at work; the runs there have been.
acceptedRun == IF FullAccepts /\ ~scarred THEN Loaded.by ELSE NoRun

Contract ==
    INSTANCE BackupContract WITH
        accepted <- acceptedRun, worker <- run, begun <- Runs \ unused,
        Fragile <- "power" \in CrashKinds

\* The engine implements BackupContract: whatever a run starts over and whichever
\* of its stages raises, it makes no backup of another run unacceptable, and no
\* backup becomes acceptable but that of the run at work.
ImplementsContract == Contract!ContractSpec

\* A backup becomes acceptable at one step only, the removal of the marker
\* after the finalize validation, and with the images of its own run.
PublishedAtTheEnd ==
    [][job = "backup" /\ ~FullAccepts /\ FullAccepts'
          => pc = "clear" /\ \A i \in Images : disk[i] = Whole(run)]_vars

-----------------------------------------------------------------------------
\* The Recovery Runtime refreshes its menu with has_valid_backup:
\* "Exceptions must not crash the runtime", and a refresh that raises at every
\* turn leaves neither menu nor boot.
RefreshNeverRaises == pc = "idle" => ~HasValidBackupRaises
=============================================================================
