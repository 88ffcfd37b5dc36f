# Recoverix in TLA+

TLA+ specifications, TLC model-checking runs and TLAPS proofs for Recoverix
(`src/recovery-platform`), a Windows backup and recovery product: a Linux
runtime that boots from a recovery partition, images the Windows partition, the
EFI system partition (ESP) and the partition table onto a RECOVERY_IMAGE
volume, and restores them.

What it is worth verifying about such a program is what a crash leaves behind:
Windows is overwritten in place, backups are replaced in place, nothing is
transactional, and the next boot decides from a few files what it may do. The
modules here model those files, everything that writes them and everything that
reads them, the interface between them and the user, the discovery that decides
which disk they are about, and the firmware's boot list, which three programs
rewrite beside each other.

Contents: [1 Inventory](#1-inventory), [2 Modules](#2-modules),
[3 Correspondence](#3-correspondence-with-the-code), [4 Runs](#4-runs),
[5 Bounds and fairness](#5-bounds-and-fairness), [6 Proofs](#6-proofs),
[7 Findings](#7-findings), [8 Not modelled](#8-not-modelled),
[9 Plan](#9-plan).

## 1 Inventory

All paths are below `src/recovery-platform/` unless they say otherwise.

| Component | State it keeps | Operations | Hard behaviour | What makes it correct |
|---|---|---|---|---|
| **Restore engine** `restore_engine/` | `state/recovery_state.json` (in progress, rollback required, success, counters), `pre_restore/efi`, `pre_restore/gpt_live.bin`, the Windows partition, `EFI/RecoveryBoot` | `authorize_restore_execution`, `RestoreExecutor.execute` (nine stages, `_fail`, `finally`) | a crash anywhere; record rewritten in place; failure path that saves three times and may itself raise; snapshot over the rest of an older one | the record admits a half-written Windows; it is written before the first byte; RecoveryBoot comes back as it was |
| **Rollback engine** `rollback/` | the counters of the same record, `EFI/RecoveryBoot`, `bootmgfw.efi`, the partition table | `record_restore_failure_state`, `rollback_efi`, `rollback_gpt` | rollback from a partial snapshot | retries are bounded; only what was saved is put back |
| **Backup engine** `backup_engine/run_backup.py`, `backup_finalize.py`, `backup_state.py` | three images, three copies of the manifest, two digests, three hash sidecars, the `incomplete_backup` marker | `plan_backup_run`, `execute_backup_apply`, `run_backup_finalize_transaction`, `_invalidate_on_finalize_failure` | killed between any two of eleven files, over an older run's files; failure of the invalidation itself; unsynced files | an accepted backup is one whole run; an unfinished one is never accepted |
| **Readers of a backup** `backup_engine/backup_planner.py`, `manifest.py`, `validation/image_validation.py` | none | `has_valid_backup`, `load_recovery_manifest`, `load_manifest_hash`, `validate_restore(_quick)` | several readers over different files of one volume | they agree, on what is complete only |
| **Privileged helper** `recovery_runtime/backup_admin.py` | the RECOVERY_IMAGE volume | backup, reset (mkfs or in place), delete, restore, clear lock, in a transient systemd unit | outlives its client; erasures cut short; no lock between helpers | an erasure never makes an old backup acceptable again |
| **Recovery runtime** `recovery_runtime/` `menu.py`, `runtime_context.py`, `actions.py`, `state.py`, `admin_bridge.py` | cached menu policy, session | refresh, confirmations, `run_*_action`, the helper's stdout protocol, local deletion without a helper | cached answers that go stale; lost or mixed output lines | a locked record stops a restore; no success is told that is none |
| **GTK front end** `recovery_runtime/gtk_ui/` | busy flag, open dialog, last look at the volume | handlers, two-page dialogs, worker threads and their callbacks, restart by systemd | the volume moves on between the look, the dialogs and the job; the window dies and its job goes on | one job at a time; a reset never meets a valid backup; the buttons come back |
| **Discovery** `recovery_runtime/discover.py`, `mounts.py`, `partition_manager/discovery.py` | none | `lsblk`, `blkid`, labels, mounts | called again at every stage, while disks come and go | never a foreign disk |
| **Partition planning** `partition_manager/windows_extend.py`, `provisioning_planner.py` | the partition table | plan and apply an extension | stale table, kernel behind the table | an image fits the partition it is announced to fit |
| **Boot order planner** `boot_manager/` | none | `plan_bootorder_recovery` over firmware entries | stale firmware view | never drops an entry |
| **Windows agent** `windows_agent/`, **native writer** `native/nvram_writer/` | `BootOrder`, `Boot####`, `BootNext` | monitor task, operator task, `run_repair` | read, plan and write are apart; firmware, Windows or another system in between; stop between two variables; number allocation | Windows stays listed; no duplicate entries; converges |
| **Early boot** `scripts/runtime_image/initramfs-hooks/` | overlay mounts | mount chain | failing mount | read-only image under a writable layer |
| **Installer, deployment, maintenance, status application, audit tools** | the host's | long scripts | - | - |

How they interact. The menu (or GTK, or a command line entry) starts one job;
the privileged ones run in the helper and print JSON lines. Backup and restore
never call each other: they meet on the RECOVERY_IMAGE volume. The backup engine
writes images, manifests, digests and the marker; the planner and the validators
read them and the menu offers what they allow. The restore engine writes
`recovery_state.json` and `pre_restore/`; the menu policy reads the former, the
rollback the latter. Deletion and reset drop all of it. The interface never sees
these files but through a refresh: what it offers, asks and announces rests on a
look taken earlier. Which partitions all of this is about is not stored
anywhere: every plan, gate and execution discovers them again. The boot chain
(planner, agent, native writer, installer) lives in the firmware's variables;
the recovery system touches them at one point, when it sets `BootNext` to reboot
into Windows.

The hazards, each at its line and with the properties that cover it or the
reason none does, are in `PROJECT.json`.

## 2 Modules

| Module | What it is |
|---|---|
| `RecoveryStateFile` | `recovery_state.json`: its fields, the file that may be truncated, the read-modify-write helpers |
| `RestoreEngine` | `RestoreExecutor.execute` stage by stage, the failure path, its callers, the operator actions on the record, kills and power losses |
| `RestoreIntent` | abstract: a volume overwritten in place under a record that admits it |
| `RestoreEngineProofs`, `RestoreIntentProofs` | theorems |
| `MCRestoreEngine` | instances for TLC |
| `BackupEngine` | the backup pipeline and its finalize transaction, the readers, deletion and reset, kills and power losses |
| `BackupContract` | abstract: a volume with at most one accepted backup, which only the run that made it takes back |
| `BackupEngineProofs`, `BackupReadersProofs`, `BackupContractProofs` | theorems |
| `MCBackupEngine` | instances for TLC |
| `RecoverySession` | window or text menu, their dialogs and worker, and the helpers they start, over the RECOVERY_IMAGE volume; an interface that dies leaves its helper at work |
| `Admission` | which disk and which size: discovery, plan, safety gate and execution context of a restore, the partition preparation, the admission of a backup |
| `BootChain` | the boot list of the firmware, the monitor task, the operator's task, the installer, the native writer, and the recovery system's `BootNext` |
| `RecoverySessionProofs`, `AdmissionProofs`, `BootChainProofs` | theorems |
| `MCRecoverySession`, `MCAdmission`, `MCBootChain` | instances for TLC |

`RestoreEngine` extends `RecoveryStateFile` and instantiates `RestoreIntent`
under the refinement mapping `volume <- windows, record <- recordView`. The
record is seen as *locked* when it can be read and locks; *lost* when it cannot
be read, or an operator dropped it, or a power loss took it back; *open*
otherwise. The abstract protocol never lets a torn volume have an open record.

`BackupEngine` instantiates `BackupContract` with `accepted <- acceptedRun` (the run
of the backup the full validation accepts on a volume without scars),
`worker <- run`, `begun <- Runs \ unused`, and with power losses where the instance
has them.

Some definitions are introduced by a comment as a *mutation*. No behaviour uses
them: each is a plausible slip in the definition that follows it, and TLC finds
the named property violated once it takes that definition's place.

## 3 Correspondence with the code

`PROJECT.json` maps every definition to its lines.

**The record.** `save_recovery_state` is `write_text` on the file itself, so
every save is two steps: `Truncate` (the record was loaded, changed in memory,
the file opened) and `Write`. `Load` reads whatever cannot be parsed as the
defaults, as `load_recovery_state` does. There are two copies of the file:
`stateFile`, which the running kernel shows, and `durable`, on the medium.
`WriteBack` may bring the second up to the first at any time, nothing in the code
forces it, and a power loss finds `durable`, or a file without its data. The
model keeps the fields some branch reads (`restore_in_progress`,
`rollback_required`, `restore_success`, the failure count); phases, times and
messages are left out.

**The restore.** One value of `pc` per step of `execute`; stages of several
writes (the EFI snapshot, the GPT dump, partclone, the copy back) are split at
each file, and a file under way is `"torn"`. `StageRaises` takes any step of the
try block to the except clause; `RestoreFailed` is `_fail` with its three saves;
`FailRaises` an exception inside it, which leaves `execute` from the except
clause but is caught and handled once more if `_fail` was called by the
validation stage: `handling` tells the two apart. `Finally` ends the job. The
environment checks behind the authorization (root, platform, mounts, hashes,
BitLocker) are one nondeterministic outcome. `MenuRestore` tests `menu`, the
answer of the last `RefreshMenu`; `CliRestore` tests nothing.

**The operator.** Clearing the lock, deleting the backup, formatting the volume
and the EFI rollback are jobs of their own, each with its steps and its failure.
Dropping a record is remembered in `released` (a history variable) until a
locking record is written again; `rewound` does the same for records a power
loss took back. No action reads either.

**The backup.** A file of the volume is absent, torn or whole, and belongs to
the run that wrote it; contents are abstracted to that, since a digest or a
hash of a content matches that content only. The plan of a run passes over a
volume that is not mounted (`run_backup.py:660`), so `Plan` blocks nothing by
itself and `Check`, the look of the apply after its own mount, is the guard; it
blocks on a valid backup, and a manifest it cannot parse ends the run.
`hashes[r]` is what the manifest of
run `r` says of the images. `WriteOrder`, `UnlinkOrder` and `DeleteOrder` are
the orders of the code; the in-place reset goes through `iterdir`, in any order.
Every write is `Open` (truncates) and `Fill`. `Loaded`, `LoadedDigest`,
`QuickAccepts`, `FullAccepts` and `HasValidBackup` are the readers, as state
functions of the volume, with the search order of each. The loops of Windows,
EFI and GPT dumps and of the metadata files share these two actions.

**Failures of a backup.** An exception in any stage goes to the except clause
(`MarkFailed`, which may itself fail); one in hashing or writing goes through
`Invalidate` first, which re-marks the volume and removes the metadata files one
by one and may be stopped at each. `Completed` comes after the marker was
removed: an exception in the last progress message marks the finished backup
incomplete again, as in the code.

**The environment.** `Killed` ends a job at any step; the files stay as the
kernel has them. `PowerLoss` in `BackupEngine` may take the data of any subset
of the files written since the machine came up (`dirty`; nothing is synced)
while the names stay: a journalling file system keeps creations and removals in
order, and losing the tail of its journal is losing power a little earlier. In
`RestoreEngine` a power loss affects the record only; the next restore takes its
snapshots again. Between jobs Windows runs, and may lose its boot manager
(`BootmgfwLost`), which is what the EFI rollback is for.

**One job.** `RestoreEngine` and `BackupEngine` run one privileged job at a time
and take it to its files. `RecoverySession` is about the rest: nothing in the
helper excludes a second one, and its transient unit survives the interface.

**The session.** `client` is the process that shows the interface; `Die`
(systemd starts the window again) leaves the job of the old one running as an
orphan, which ends at its next line of progress (`Heard`) or goes on to its end.
Jobs are the commands of `backup_admin.main` with steps as coarse as other jobs
can tell apart: `files` stands for the images, `listed` for manifests and
hashes. `mount` is the one mount everybody remounts: `RemountRo` of one job
takes the volume from under the other, whose next step raises. A click is `Open`
(the handler's own refresh included, where it has one), then the pages of the
dialog, then `Accept`; `Answer` takes the helper's last line, which a heartbeat
in the same line may destroy (`Payload`), and chains the next command as the
window's workers do; `Complete` is the callback that refreshes and makes the
buttons sensitive again. `local_delete` is the deletion without a helper, with
its staging directory and its rollback.

**The reboot.** `systemctl reboot` is started and not waited for: the request
(`RequestReboot`, `rebooting = "asked"`), the exit of the helper (`RebootExits`)
and systemd's queueing of the shutdown (`ShutdownQueued`, `"queued"`) come in any
order. Once it is queued systemd starts no new unit (`Refused`) and no new window,
and stops the units one by one (`Stopped`), so that the interface may be told of
a failure of the very helper that asked, before `Shutdown` ends the rest.

**The disks.** `Admission` keeps four sizes: the NTFS, the partition in the
table, the partition as the kernel shows it, and the one in the manifest
(`image.source`). A plugged disk has any of the volumes the discovery looks for
and comes first or last in `lsblk`. `Plan`, `Authorized` and `Resolve` discover
again, each with the checks of its own file; `TakePlan`, `Authorize`, `Resolve`
and `StartWrite` are separate steps. An extension changes the table first and
the kernel when it takes it, or at the next restart. A copy of the disk has
other identifiers (`CopyDisk`): what then matches the manifest is the size only.
The space estimate of a backup is the list of its probes, each of which may not
answer.

**The boot list.** `nv` and `order` are the variables of the firmware; a run of
a program is `job[a]`: what it probed, what it read, where it is. The Python
programs write a whole list through `bcdedit` (`Bcdedit`), the native writer its
two entries and then the list (`EnsureRecovery`, `EnsureDirect`, `WriteOrder`),
each of which may be refused or be the last before a power loss. When no number
is free, creating an entry fails (`FreeId`); where the code would name 0xffff,
the firmware, whose store is full long before, refuses the variable. `Outside` is
everybody else: an order moved, an entry of ours forgotten, a system added.
`locked` says that BitLocker encrypts the volume; the probe may fail, and answers
"OFF" for any text of `manage-bde` that is not the English one, so that the model
contains repairs of encrypted machines that an English Windows would block.

## 4 Runs

| Run | Instance | Shows |
|---|---|---|
| `restore_engine` | two RecoveryBoot files, menu, kills, fairness | `DamageIsRecorded`, `SuccessMeansRestored`, `RecoveryBootPutBack`, `IntentBeforeDamage`; the engine implements `RestoreIntent`; `MenuRespectsLock`; `JobsEnd` |
| `restore_power` | one RecoveryBoot file, command line, kills and power losses | `DamageIsRecorded`, `SuccessMeansRestored` and the refinement when the record that comes back after a reboot is older than the one written, or empty |
| `backup_engine` | two runs, deletions, resets, kills | `AcceptedIsOneRun`, `MarkerCoversBackup`, `OfferedIsRestorable`, `ReadersAgree`, `PublishedAtTheEnd`; the engine implements `BackupContract` |
| `backup_power` | one run, deletions, kills and power losses | what torn files cannot do: the full validation still accepts whole images only |
| `recovery_session` | window or menu with all operations, dies once, helpers that fail anywhere, fairness | `NoFalseSuccess`, `ResetSparesBackup`, `OfferedIsWhole`, `RestoreReadsWholeImage`, `OneJobPerInterface`, `RebootCutsNoJob`, `BusyEnds` |
| `boot_chain` | eight numbers, two changes, failures or power losses, fairness | `WindowsStaysListed`, `NoSecondEntry`, `BitLockerHonoured`, `NoKnownEntryLost`, `SaidRepairedIsRepaired`, `RebootReachesWindows`, `MonitorRepairs` |
| `admission` | two jobs at a time, four units of space, three plugged disks, three changes | `FileSystemFits`, `PreparedIsEnough`, `StaysOnHomeDisk` |
| `power_loss_unrecorded`, `recovery_boot_not_from_backup`, `restore_over_lock`, `refresh_raises`, `monitor_ignores_bitlocker` | smallest instances | the findings of section 7, each a property the code does not have |

What the properties say in short:

- `DamageIsRecorded`: while Windows is half written, a readable record locks,
  unless an operator dropped it or a power loss took it back. The case it is for
  is a chain: a restore that tore Windows and failed, then one whose
  `mark_restore_started` clears `rollback_required` and that fails or dies early.
- `RecoveryBootPutBack`: the snapshot equals the ESP file by file, whatever an
  interrupted older run left in either, and RecoveryBoot equals the snapshot
  after the copy back.
- `AcceptedIsOneRun`: whatever killed runs, cut erasures, in-place resets and
  power losses left on the volume, what the full validation accepts is three
  whole images of the run whose manifest was found.
- `OfferedIsRestorable`: the menu offers a restore on a validation that reads
  no image; what it offers the full validation accepts. Volumes with an erasure
  cut short or torn files are excluded (`scarred`), because there it is not so:
  deletion removes the images first and the manifests last.
- `ReadersAgree`: the planner, which blocks a new backup over a valid one, and the
  quick validation behind the restore entry look at different files and still
  agree, with the same exception.
- `MenuRespectsLock`: the cached answer never lets a restore past a locked record,
  though the action does not test again after its own refresh.
- `ImplementsContract`: whatever a run starts over and whichever stage raises, it
  costs no accepted backup of another run (it may take back its own when the
  last progress message raises), and nothing becomes accepted but the work of
  the run that is running.
- `ResetSparesBackup`: between the look, two pages of a dialog and the reset, a
  valid backup appears only if the job of a dead interface made it; its restores
  and unlocks do not count as such an excuse.
- `OfferedIsWhole`: with jobs of two interfaces remounting, erasing and writing
  one volume, a backup without marker is whole. It is about machines with the
  helper: the local deletion puts back from `.delete_staging` whatever was copied
  so far, and does leave half a backup when the copying failed.
- `RestoreReadsWholeImage`: the executor checks no hashes, and still never reads
  an image that another job tore or removed after the authorization.
- `NoFalseSuccess`: a success about to be shown is one. The window takes a
  backup for done only after its own full validation, a restore and a deletion
  after a payload that says so.
- `RebootCutsNoJob` is about the text menu: from the request to the shutdown the
  only job it can have at work is the helper that made the request. Either that
  helper exits and the menu leaves its loop, or systemd stops it first, the menu
  says failed and stays, and its next job is refused. The window makes its buttons sensitive again before systemd ends it,
  so that a job can be started and cut; what that leaves behind is among the
  behaviours the others are checked on.
- `WindowsStaysListed`, `NoKnownEntryLost`: all three programs write whole lists
  from an earlier reading; Windows is in every one of them, and what such a list
  loses can only have been added after the reading.
- `NoSecondEntry`: a writer stopped before `BootOrder` leaves an entry nothing
  lists; the next one finds it. Two writers at once may create two, which is
  excluded (`overlapped`).
- `MonitorRepairs`, `SaidRepairedIsRepaired`: once nobody else changes the list a
  due monitor run without BitLocker brings it into the intended order, and a run
  nobody raced that says so left it there.
- `RebootReachesWindows`: what "reboot to Windows" announces holds at the next
  start, also if the power goes first.
- `StaysOnHomeDisk`: no disk plugged in between two discoveries is read or
  overwritten, not even when the machine's own Windows is encrypted and the
  plugged disk holds the only NTFS.
- `FileSystemFits`, `PreparedIsEnough`: a restored NTFS fits the partition in the
  table and in the kernel, beside an extension that changes the former first;
  COMPLETED and PENDING_REBOOT of a preparation mean what they say while image
  and partition stay.

## 5 Bounds and fairness

- *RecoveryBoot*: the code names two files (`shimx64.efi`, `grubx64.efi`), and
  so does the main instance, without symmetry since it checks liveness. One is
  enough for the power losses, which concern the record; that instance uses the
  command line, which tests nothing and so starts restores from more records
  than the menu would.
- *Runs*: two backup runs are what a mixture needs: leftovers of one under the
  other. The theorems cover any number.
- *Erasures*: the two-run instance has deletions, in their order, and in-place
  resets, which take the entries of the volume in any order; the power instance
  has deletions, where torn files and the fixed order meet.
- *Power losses and kills* are not bounded, nor are the number of restores or of
  operator actions. The failure count is capped by the code itself
  (`MAX_RESTORE_ATTEMPTS`).
- *Sessions*: `Starts = 2`, so that one orphan can meet one interface; a third
  would need the window to die twice within one job. (The theorems cover any
  number of deaths.) Reboots are not bounded. The operations are all the
  privileged ones that write the volume; preparing a partition is in
  `Admission`.
- *Boot list*: eight numbers hold the entries the model creates and leave free
  ones. `Budget = 2` counts changes from outside, refusals, power losses and the
  starts of the operator's task together: two suffice for a change between
  reading and writing with a cut run after it; the violation run needs none. The
  theorems cover any numbers and any budget.
- *Disks*: two slots, since the checks of one job race the writes of another,
  not of two. Sizes are units: partition up to `Room = 4`, so that an image may
  be smaller, equal, larger than the partition and too large for the room;
  `Margin = 1` and `Tolerance = 1` are the smallest that differ from none.
  `Budget = 3` covers two changes and a restart. Slots are symmetric; the run
  checks no liveness. The theorems cover any number of jobs, all sizes, margins
  and tolerances, and any budget.
- *Deadlock* is checked in every run: an idle machine can always start
  something.

Fairness, each where a liveness property needs it:

- `RestoreEngine!FairSpec` adds `WF_vars(JobStep)`: a command that a job runs
  returns or fails, and the interpreter goes on, so a job that can step
  eventually does. It serves `JobsEnd`.
- `RecoverySession!FairSpec` adds weak fairness of the jobs and of the worker:
  the kernel runs both, and the reader sees the end of the output. It serves
  `BusyEnds`. No user ever has to click.
- `BootChain!FairSpec` adds weak fairness of the scheduled task's start, of each
  program's steps, of the installer's last one and of switching on a machine
  that is off: Windows runs a task due at startup (`task_scheduler.py`). It
  serves `MonitorRepairs`. Nothing is assumed of the operator, of the
  installer's start or of the outside.

No fairness is assumed of operators, of write-back or of crashes. `BackupEngine`
is checked for safety only: its loops end by their shape, so that a liveness
property would say nothing more than that its commands return. `Admission` too:
none of its jobs waits for another.

## 6 Proofs

Assumptions on the constants: `RecoveryBoot` is finite and does not contain
`Bootmgfw`; `NoRun` is no run; callers, crash kinds, erasures, interfaces and
operations are among those named; an interface starts at least once (`Starts`);
the numbers of boot entries are finitely many naturals, 0 and 1 among them, and
`NoId` is none of them; sizes, `Room` and `Margin` are positive (the margin is
10 MiB in the code), budgets are naturals.

| Theorem | States |
|---|---|
| `RestoreEngineProofs!TypeCorrect` | `Spec => []TypeOK` |
| `RestoreEngineProofs!DamageRecorded` | `Spec => []DamageIsRecorded` |
| `RestoreEngineProofs!SuccessTrue` | `Spec => []SuccessMeansRestored` |
| `RestoreEngineProofs!PutBackExact` | `Spec => []RecoveryBootPutBack` |
| `RestoreEngineProofs!IntentFirst` | `Spec => IntentBeforeDamage` |
| `RestoreEngineProofs!Implements` | `Spec => ImplementsIntent` |
| `RestoreEngineProofs!MenuGate` | `Spec => MenuRespectsLock`, when the menu is the only caller |
| `RestoreIntentProofs!IntentPromise` | the abstract protocol keeps its promise |
| `BackupEngineProofs!TypeCorrect` | `Spec => []TypeOK` |
| `BackupEngineProofs!AcceptedSound` | `Spec => []AcceptedIsOneRun` |
| `BackupEngineProofs!MarkerCovers` | `Spec => []MarkerCoversBackup` |
| `BackupEngineProofs!PublishedLast` | `Spec => PublishedAtTheEnd` |
| `BackupReadersProofs!OfferedSound` | `Spec => []OfferedIsRestorable` |
| `BackupReadersProofs!ReadersConcur` | `Spec => []ReadersAgree` |
| `BackupReadersProofs!ImplementsTheContract` | `Spec => ImplementsContract` |
| `BackupContractProofs!ContractPromise`, `ContractTypes` | the contract keeps its promise |
| `RecoverySessionProofs!SessionTypes` | `Spec => []TypeOK` |
| `RecoverySessionProofs!SuccessIsReal` | `Spec => []NoFalseSuccess` |
| `RecoverySessionProofs!ResetMeetsNoBackup` | `Spec => []ResetSparesBackup` |
| `RecoverySessionProofs!OfferedBackupIsWhole` | `Spec => []OfferedIsWhole` |
| `RecoverySessionProofs!MenuLeavesForReboot` | `Spec => []RebootCutsNoJob` |
| `RecoverySessionProofs!RestoreReadsWhole` | `Spec => RestoreReadsWholeImage` |
| `RecoverySessionProofs!OneJobAtATime` | `Spec => OneJobPerInterface` |
| `AdmissionProofs!AdmissionTypes` | `Spec => []TypeOK` |
| `AdmissionProofs!WindowsFitsItsPartition` | `Spec => []FileSystemFits` |
| `AdmissionProofs!PreparationKeepsItsWord` | `Spec => []PreparedIsEnough` |
| `AdmissionProofs!PartcloneStaysHome` | `Spec => StaysOnHomeDisk` |
| `BootChainProofs!BootTypes` | `Spec => []TypeOK` |
| `BootChainProofs!WindowsStaysBootable` | `Spec => []WindowsStaysListed` |
| `BootChainProofs!NoEntryTwice` | `Spec => []NoSecondEntry` |
| `BootChainProofs!BitLockerIsHonoured` | `Spec => []BitLockerHonoured` |
| `BootChainProofs!KnownEntriesStay` | `Spec => NoKnownEntryLost` |
| `BootChainProofs!SaidIsSo` | `Spec => SaidRepairedIsRepaired` |
| `BootChainProofs!PromisedWindowsBoots` | `Spec => RebootReachesWindows` |

*The record.* `DamageIsRecorded` is not inductive: between the truncation and
the write of a save the file says nothing, and what the next write will say is in
`buffer`. `StepRecords` ties the two to the step: what the buffer holds at each
write step, and that from the written start to the first save of the success
the record on the volume is one of a restore in progress. `RecordInv` is
`StepRecords /\ DamageIsRecorded /\ SuccessMeansRestored`. Most actions keep what
it reads (`RecordKept`), so the proof works on those that do not.

*The snapshot.* `CopyInv` says of the two copy loops that a file no longer in
`todo` is equal on both sides, that the complete snapshot is the ESP, and that
the GPT dump is whole before the record is written. `IntentFirst` and
`PutBackExact` follow from it together with `RecordInv`.

*The refinement.* With `TypeOK /\ RecordInv` at hand every step changes the
pair of `windows` and `recordView` as an action of `RestoreIntent` or leaves it
alone (`IntentStep`); only partclone writes Windows (`OnlyPartcloneWrites`).

*The menu.* `MenuInv`: an open cached answer, or a job at its authorization,
comes with a record that does not lock. It holds because a start makes the
cached answer stale, whatever the job does to the record later.

*The backup.* `PublishInv` is `TypeInv /\ Covered /\ Dumped /\ ManifestsSound`:
the marker stands from the marking to the unmarking and during the
invalidation; an image no longer in the dump loop is a whole one of this run,
and stays so until the volume is unmarked; and a whole manifest of run `r` found on
the volume has hashes of whole images of `r` only. The last is why a
mixture is never accepted: hashes of a run match the images of that run alone.
`PublishedLast` adds that nothing but the removal of the marker makes a volume
acceptable: a power loss only takes contents away (`PowerLossAcceptsNothing`).

*The readers.* Their agreement is not inductive either: it has to be known what
a run that has not published yet, and an erasure that goes on, leave behind.
`SealInv` adds to `PublishInv` that a volume without scars and without marker is
empty or *sealed* (every file whole and of one run, whose manifest has the
hashes of the images); that past its check a run meets no seal but its own
(`OwnSeal`); that the metadata written so far is its own (`Written`); and that
an erasure under way will come across every file there is (`InErasure`), so that
it ends with an empty volume. A sealed volume satisfies every reader
(`SealSatisfies`), an empty one none (`EmptyRefuses`), from which both
properties follow. For the contract, `OwnSeal` is what forbids a run to take
back another's backup.

*The session.* Any number of dead interfaces may have left jobs behind, of any
command, at any step. `SessionInv` says how little that matters. `Linked` ties
worker, dialog and busy flag to the one job of the running interface. `Volume`
is why an offered backup is whole, and needs no marker: images are torn only by
a backup, a backup follows a reset that has removed the lists, and only the
running interface's backup gets as far as writing lists; jobs left behind end at
their next progress line and otherwise only remove. `JobReached` says what each
step of the running job may rely on (after the reset no files and no lists,
before the publication whole images, after it a verified backup) unless an
orphan has `Meddled`; `Looked` the same of the dialogs. `RestoreReadsWhole`
needs the restore of a machine without helper to be alone on the volume
(`Commanded`): there is no other writer. `Leaving` is the argument for
`RebootCutsNoJob`: as long as the shutdown is only asked for, the text menu waits
for the helper, holds its success or has left its loop, and none of these starts
a job; once it is queued, a start is refused.

*The disks.* A size is compared at one step and relied on at a later one, while
an extension moves the table and then the kernel. `FileSystemFits` alone is not
inductive. `GoodJob` adds that a goal once set covers both the image and the
NTFS: neither outgrows the goal, because a backup gives the image the size of
the NTFS and a restore gives the NTFS that of the image. With `TableFollows` (an
image that fits the kernel's partition fits the table's: a smaller table was
written by a preparation that knew the image) an authorization by the kernel's
size holds for the table too. `PromiseHolds` is the promise freed of the image's
being published. That partclone stays on the machine's disk follows from
`LayoutIsHome`: the ESP of the machine is always a candidate, so a discovery
that ends with one ESP and one Windows, on one disk, has found the machine's
own.

*The boot list.* `BootInv` is `TypeOK /\ WindowsStaysListed /\ GoodRuns /\
PromiseStands /\ Single`. `GoodRun` is what a program still knows when it writes
what it read earlier: the number it holds for Windows is the Windows entry,
since nobody removes that, and its own numbers are numbers of the machine.
`Single` is the argument against a second entry: while no two writers overlap
there is one, and it looked at all entries before it creates one. The theorems
on whole lists rest on lemmas about the two list operators, proved for every
sequence: what a list keeps of its places is a sequence of them, in their order,
without any other (`Kept`), and putting entries in front loses none
(`TargetOrder`, `WriterOrder`).

The invariants were checked on the instances of section 4 before they were
proved; `SessionInv` also with three starts.

*Only model-checked:* `JobsEnd`, `BusyEnds` and `MonitorRepairs`, which are
liveness under fairness and out of the prover's reach. The properties of section
7 have counterexamples instead.

## 7 Findings

1. *A power loss may leave no record.* `docs/FAILURE_RECOVERY.md:30` promises that
   a power-off or a kernel panic during a restore is always recorded in the
   state file and the counter. The record is never synced, and
   a truncated one reads as the defaults (`restore_state.py:66-70`, `:85`).
   `PowerLossIsRecorded` is violated.
2. *RecoveryBoot is restored from the live ESP.* `restore_planner.py:625` plans
   "restore RecoveryBoot shimx64/grubx64 from backup assets if missing". The
   executor copies back what it had just saved from the ESP, so that a missing
   file stays missing. `CompletedRestoreHasRecoveryBoot` is violated.
3. *The command line ignores the lock.* `recovery_runtime/state.py:116` says
   "rollback required before another restore"; `run_restore.py` never reads the
   record. `NoRestoreOverLock` is violated.
4. *A torn manifest ends the runtime.* `has_valid_backup` catches
   `FileNotFoundError` only, so that a manifest torn by a power loss right
   after the marker was removed raises out of every refresh, while
   `menu.py:291` says "Exceptions must not crash the runtime".
   `RefreshNeverRaises` is violated.
5. *The monitor task ignores BitLocker.* `docs/BITLOCKER_POLICY.md:16` lists repairs
   of `BootOrder` by the Windows agent as blocked. Where the native
   writer is installed, `install_recoveryboot_monitor.ps1:18-23` registers it as
   the monitor task, in place of the agent, and it asks nobody.
   `BitLockerBlocksRepair` is violated.

## 8 Not modelled

- The used-block domain map, file permissions, progress figures, logs, phases and
  messages: no branch of the modelled readers depends on them.
- Names of older manifest layouts. Parsing of `lsblk`, `blkid`, `sfdisk`,
  `bcdedit` and `manage-bde` output: what it yields is modelled, wrong text is not,
  but for the BitLocker answers.
- `record_recoveryboot_failure`, `mark_last_successful_boot` and the Windows-first
  policy over firmware entries: nothing outside `rollback/` and the tests calls
  them, so that the policy is never in force. `rollback_gpt` neither.
- The clock of `is_interrupted_restore`: it decides which of two flags is set, and
  `runtime_context.py:394-402` locks the menu on either of them.
- Boot entries numbered 256 and above, which the writer does not look for outside
  `BootOrder`; entry descriptions; `bcdedit` failures are one outcome.
- Bytes and sectors: sizes are in units, rounding to sectors and the guess of a
  last usable sector are left out. `bootmgfw.efi` and ESP checks of the safety
  gate belong to `RestoreEngine`. `read_bitlocker_state` answers "UNKNOWN" on Linux,
  whatever the disk, so that the gate refuses no restore for it.
- Telemetry and drift history of the agent: they change no list.
- Installers (but for the boot list), provisioning, GRUB generation, deployment
  and audit tools, early boot, the status application and the text of menus and
  messages: scripts without concurrent actors, packaging and display.

## 9 Plan

The order follows what a fault costs: first what destroys data, then what locks
a user out, then what merely irritates.

1. *Done.* `RecoveryStateFile`, `RestoreEngine`, `RestoreIntent`, `BackupEngine`,
   with their instances and proofs.
2. *Done.* `RecoverySession` (interfaces and orphaned helpers over one volume, the
   change of an image between authorization and execution, the helper's protocol),
   `Admission` (disks, sizes, the extension), `BootChain` (firmware variables).
3. *Done.* `BackupContract` and its refinement, the agreement of the readers.
4. *Done.* Proofs of the safety of `RecoverySession`, `Admission` and `BootChain`.
5. Next: deeper statements over the same invariants. For the boot list, that
   a repair which is refused or cut leaves a list that still boots what it
   booted before; for the session, an abstract view of the volume (none,
   offered, under work) that the session implements, to be laid beside
   `BackupContract`; for `RestoreEngine`, the bound on retries across power
   losses.
