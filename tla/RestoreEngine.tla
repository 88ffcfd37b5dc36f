---------------------------- MODULE RestoreEngine ----------------------------
(***************************************************************************)
(* The restore pipeline of Recoverix, the record it keeps of itself and    *)
(* the operator actions on that record.                                    *)
(*                                                                         *)
(*   restore_engine/restore_executor.py   the pipeline, stage by stage     *)
(*   restore_engine/restore_state.py      the record (RecoveryStateFile)   *)
(*   rollback/failure_counter.py          the failure path                 *)
(*   rollback/efi_rollback.py             the EFI rollback                 *)
(*   recovery_runtime/actions.py,                                          *)
(*   recovery_runtime/backup_admin.py     who starts what, and the lock    *)
(*                                                                         *)
(* One privileged job runs at a time.  It may die at any step (the helper  *)
(* is killed, the machine loses power) and any stage of it may raise.      *)
(* Mutations are explained in RecoveryStateFile.                           *)
(***************************************************************************)
EXTENDS RecoveryStateFile, FiniteSets

CONSTANTS
    Bootmgfw,         \* bootmgfw.efi, the Windows Boot Manager
    RecoveryBoot,     \* the files of EFI/RecoveryBoot
    Callers,          \* who may start a restore: "menu", "cli"
    CrashKinds        \* how a job may die: "kill", "power"

ASSUME RecoveryBootAssumption ==
    /\ IsFiniteSet(RecoveryBoot)
    /\ Bootmgfw \notin RecoveryBoot

ASSUME CallersAssumption == Callers \subseteq {"menu", "cli"}

ASSUME CrashKindsAssumption == CrashKinds \subseteq {"kill", "power"}

EfiFiles == {Bootmgfw} \cup RecoveryBoot

\* A file, a dump or a snapshot: absent, partly written, or whole.
Content == {"absent", "torn", "whole"}

Snapshots == [recoveryboot : BOOLEAN, files : [EfiFiles -> Content]]

\* pre_restore/efi was never made, or is gone.
NoSnapshot == [recoveryboot |-> FALSE, files |-> [f \in EfiFiles |-> "absent"]]

-----------------------------------------------------------------------------
VARIABLES
    \* -- the disk
    stateFile,    \* recovery_state.json as the running kernel sees it
    durable,      \* recovery_state.json as it is on the medium
    windows,      \* the Windows partition
    esp,          \* the files on the EFI system partition
    snapshot,     \* pre_restore/efi: its files, and whether it has a RecoveryBoot
    gptSnapshot,  \* pre_restore/gpt_live.bin
    \* -- the running job
    pc,           \* the step it is about to take
    job,          \* what was started
    buffer,       \* the RecoveryState object it is about to write
    todo,         \* files the current copy loop has still to copy
    handling,     \* the except clause of execute() has been entered
    \* -- the menu of the Recovery Runtime
    menu,         \* restore_executable as of the last refresh
    \* -- history, read by no action
    released,     \* an operator dropped the record
    rewound       \* a power loss dropped a record that had been written

diskVars == <<stateFile, durable, windows, esp, snapshot, gptSnapshot>>
jobVars == <<pc, job, buffer, todo, handling>>
history == <<released, rewound>>
vars == <<diskVars, jobVars, menu, history>>

Jobs == {"none", "restore", "clear", "delete", "format", "rollback"}

\* The steps of execute() that stand inside its try block.
TryStages ==
    {"validate", "drop_snapshot", "backup_efi", "backup_gpt", "dump_gpt",
     "mark_started", "write_started", "unmount_windows", "partclone_start",
     "partclone_run", "mount_efi", "drop_recoveryboot", "copy_recoveryboot",
     "verify_bootmgr", "repair_bootorder", "mark_success", "write_success",
     "log_integrity"}

\* _fail: mark_restore_failed, then record_restore_failure_state, which calls
\* mark_restore_failed again and then counts; every one of them saves.
FailSteps ==
    {"mark_failed", "write_failed", "record_failed", "write_recorded",
     "count_failure", "write_count"}

OperatorSteps ==
    {"clear", "write_clear", "delete_state", "write_deleted", "format",
     "write_formatted", "rollback_bootmgfw"}

Steps ==
    {"idle", "authorize", "finally"}
        \cup TryStages \cup FailSteps \cup OperatorSteps

TypeOK ==
    /\ stateFile \in StateFiles
    /\ durable \in StateFiles
    /\ windows \in {"original", "torn", "restored"}
    /\ esp \in [EfiFiles -> Content]
    /\ snapshot \in Snapshots
    /\ gptSnapshot \in Content
    /\ pc \in Steps
    /\ job \in Jobs
    /\ buffer \in RecoveryStates
    /\ todo \subseteq EfiFiles
    /\ handling \in BOOLEAN
    /\ menu \in {"stale", "open", "locked"}
    /\ released \in BOOLEAN
    /\ rewound \in BOOLEAN

\* A machine with the product installed and no restore attempted yet.
Init ==
    /\ stateFile = Unreadable
    /\ durable = Unreadable
    /\ windows = "original"
    /\ esp = [f \in EfiFiles |-> "whole"]
    /\ snapshot = NoSnapshot
    /\ gptSnapshot = "absent"
    /\ pc = "idle"
    /\ job = "none"
    /\ buffer = FreshState
    /\ todo = {}
    /\ handling = FALSE
    /\ menu = "stale"
    /\ released = FALSE
    /\ rewound = FALSE

-----------------------------------------------------------------------------
(***************************************************************************)
(* save_recovery_state in two steps.  The record is loaded, changed in     *)
(* memory, and write_text opens the file, which truncates it; then the     *)
(* text is written.                                                        *)
(***************************************************************************)
Truncate(step, next, state) ==
    /\ pc = step
    /\ pc' = next
    /\ buffer' = state
    /\ stateFile' = Unreadable
    /\ UNCHANGED history

\* A record that locks is in force again, whatever was dropped before it.
Write(step, next) ==
    /\ pc = step
    /\ pc' = next
    /\ stateFile' = Stored(buffer)
    /\ buffer' = FreshState
    /\ released' = (released /\ ~Locked(buffer))
    /\ rewound' = (rewound /\ ~Locked(buffer))

\* A step of the job that touches none of the disk.
Pass(step, next) ==
    /\ pc = step
    /\ pc' = next
    /\ UNCHANGED <<diskVars, job, buffer, todo, handling, menu, history>>

\* The job ends.
Ended ==
    /\ pc' = "idle"
    /\ job' = "none"
    /\ buffer' = FreshState
    /\ todo' = {}
    /\ handling' = FALSE

-----------------------------------------------------------------------------
(***************************************************************************)
(* The menu, and who starts a restore.                                     *)
(***************************************************************************)

\* The menu loop refreshes its context before it waits for a key: restore is
\* offered unless the persisted record is locked (or validation fails).
RefreshMenu ==
    /\ "menu" \in Callers
    /\ pc = "idle"
    /\ menu = "stale"
    /\ menu' \in IF Locked(Load(stateFile)) THEN {"locked"}
                                            ELSE {"open", "locked"}
    /\ UNCHANGED <<diskVars, jobVars, history>>

\* Mutation: the menu is not refreshed after an action.
MenuRestoreKeepingContext ==
    /\ "menu" \in Callers
    /\ pc = "idle"
    /\ menu = "open"
    /\ pc' = "authorize"
    /\ job' = "restore"
    /\ UNCHANGED <<diskVars, buffer, todo, handling, menu, history>>

\* run_restore_action tests the cached restore_executable; its own refresh
\* is not tested again.
MenuRestore ==
    /\ "menu" \in Callers
    /\ pc = "idle"
    /\ menu = "open"
    /\ menu' = "stale"
    /\ pc' = "authorize"
    /\ job' = "restore"
    /\ UNCHANGED <<diskVars, buffer, todo, handling, history>>

\* run_restore.py --apply --confirm --phrase reads no record.
CliRestore ==
    /\ "cli" \in Callers
    /\ pc = "idle"
    /\ pc' = "authorize"
    /\ job' = "restore"
    /\ UNCHANGED <<diskVars, buffer, todo, handling, menu, history>>

\* authorize_restore_execution and build_execution_context raise before the
\* pipeline starts, or the executor is built and run.
Authorize ==
    \/ Pass("authorize", "validate")
    \/ /\ pc = "authorize"
       /\ Ended
       /\ UNCHANGED <<diskVars, menu, history>>

-----------------------------------------------------------------------------
(***************************************************************************)
(* RestoreExecutor.execute, stage by stage.                                *)
(***************************************************************************)

\* validate_restore rejects: execute returns _fail(...) from inside its try.
Validate ==
    \/ Pass("validate", "drop_snapshot")
    \/ Pass("validate", "mark_failed")

\* shutil.rmtree of the previous pre_restore/efi, in no order, then mkdir.
DropSnapshot ==
    /\ pc = "drop_snapshot"
    /\ \/ \E f \in EfiFiles :
             /\ snapshot.files[f] # "absent"
             /\ snapshot' = [snapshot EXCEPT !.files[f] = "absent"]
             /\ UNCHANGED <<pc, todo>>
       \/ /\ snapshot.recoveryboot
          /\ \A f \in RecoveryBoot : snapshot.files[f] = "absent"
          /\ snapshot' = [snapshot EXCEPT !.recoveryboot = FALSE]
          /\ UNCHANGED <<pc, todo>>
       \/ /\ snapshot = NoSnapshot
          /\ pc' = "backup_efi"
          /\ todo' = EfiFiles
          /\ UNCHANGED snapshot
    /\ UNCHANGED <<stateFile, durable, windows, esp, gptSnapshot, job, buffer,
                   handling, menu, history>>

\* Mutation: a copy that fails half-way is passed over.
BackupEfiFileUnchecked(f) ==
    /\ pc = "backup_efi"
    /\ f \in todo
    /\ snapshot' = [recoveryboot |-> snapshot.recoveryboot \/ f \in RecoveryBoot,
                    files |-> [snapshot.files EXCEPT ![f] =
                                  IF esp[f] = "absent" THEN @ ELSE "torn"]]
    /\ todo' = todo \ {f}
    /\ UNCHANGED <<stateFile, durable, windows, esp, gptSnapshot, pc, job,
                   buffer, handling, menu, history>>

\* The copy loop over EFI_SURVIVABILITY_FILES, bootmgfw.efi first.  The parent
\* directory is made for every file, the file is copied only if it is there.
BackupEfiFile(f) ==
    /\ pc = "backup_efi"
    /\ f \in todo
    /\ f # Bootmgfw => Bootmgfw \notin todo
    /\ snapshot' = [recoveryboot |-> snapshot.recoveryboot \/ f \in RecoveryBoot,
                    files |->
                        [snapshot.files EXCEPT ![f] =
                            IF @ = "absent" /\ esp[f] # "absent" THEN "torn"
                                                                 ELSE esp[f]]]
    /\ todo' = IF snapshot.files[f] = "absent" /\ esp[f] # "absent"
               THEN todo
               ELSE todo \ {f}
    /\ UNCHANGED <<stateFile, durable, windows, esp, gptSnapshot, pc, job,
                   buffer, handling, menu, history>>

\* bootmgfw.efi must have been there, else the stage raises.
BackupEfiDone ==
    /\ todo = {}
    /\ esp[Bootmgfw] # "absent"
    /\ Pass("backup_efi", "backup_gpt")

\* Mutation: the exit of sgdisk is not waited for.
BackupGptUnawaited ==
    /\ \/ /\ pc = "backup_gpt"
          /\ pc' = "mark_started"
          /\ gptSnapshot' = "torn"
       \/ /\ pc = "dump_gpt"
          /\ pc' = "mark_started"
          /\ gptSnapshot' = "whole"
    /\ UNCHANGED <<stateFile, durable, windows, esp, snapshot, job, buffer,
                   todo, handling, menu, history>>

\* sgdisk --backup: it creates the file, then fills it.
BackupGpt ==
    /\ \/ /\ pc = "backup_gpt"
          /\ pc' = "dump_gpt"
          /\ gptSnapshot' = "torn"
       \/ /\ pc = "dump_gpt"
          /\ pc' = "mark_started"
          /\ gptSnapshot' = "whole"
    /\ UNCHANGED <<stateFile, durable, windows, esp, snapshot, job, buffer,
                   todo, handling, menu, history>>

\* Mutation: the record is opened and not written before the next stage.
RestoreStartedUnwritten ==
    /\ Truncate("mark_started", "unmount_windows", MarkStarted(Load(stateFile)))
    /\ UNCHANGED <<durable, windows, esp, snapshot, gptSnapshot, job, todo,
                   handling, menu>>

RestoreStarted ==
    /\ \/ Truncate("mark_started", "write_started", MarkStarted(Load(stateFile)))
       \/ Write("write_started", "unmount_windows")
    /\ UNCHANGED <<durable, windows, esp, snapshot, gptSnapshot, job, todo,
                   handling, menu>>

EnsureWindowsUnmounted == Pass("unmount_windows", "partclone_start")

\* partclone.ntfs overwrites the partition in place.
PartcloneStart ==
    /\ pc = "partclone_start"
    /\ pc' = "partclone_run"
    /\ windows' = "torn"
    /\ UNCHANGED <<stateFile, durable, esp, snapshot, gptSnapshot, job, buffer,
                   todo, handling, menu, history>>

PartcloneEnd ==
    /\ pc = "partclone_run"
    /\ pc' = "mount_efi"
    /\ windows' = "restored"
    /\ UNCHANGED <<stateFile, durable, esp, snapshot, gptSnapshot, job, buffer,
                   todo, handling, menu, history>>

\* bootmgfw.efi and the snapshot of RecoveryBoot must be there.
RestoreRecoveryBoot ==
    /\ esp[Bootmgfw] # "absent"
    /\ snapshot.recoveryboot
    /\ Pass("mount_efi", "drop_recoveryboot")

\* shutil.rmtree of EFI/RecoveryBoot on the ESP, in no order.
DropRecoveryBoot ==
    /\ pc = "drop_recoveryboot"
    /\ \/ \E f \in RecoveryBoot :
             /\ esp[f] # "absent"
             /\ esp' = [esp EXCEPT ![f] = "absent"]
             /\ UNCHANGED <<pc, todo>>
       \/ /\ \A f \in RecoveryBoot : esp[f] = "absent"
          /\ pc' = "copy_recoveryboot"
          /\ todo' = {f \in RecoveryBoot : snapshot.files[f] # "absent"}
          /\ UNCHANGED esp
    /\ UNCHANGED <<stateFile, durable, windows, snapshot, gptSnapshot, job,
                   buffer, handling, menu, history>>

\* shutil.copytree of the snapshot, one file after the other.
CopyRecoveryBootFile(f) ==
    /\ pc = "copy_recoveryboot"
    /\ f \in todo
    /\ \A g \in todo \ {f} : esp[g] = "absent"
    /\ esp' = [esp EXCEPT ![f] = IF @ = "absent" THEN "torn"
                                                 ELSE snapshot.files[f]]
    /\ todo' = IF esp[f] = "absent" THEN todo ELSE todo \ {f}
    /\ UNCHANGED <<stateFile, durable, windows, snapshot, gptSnapshot, pc, job,
                   buffer, handling, menu, history>>

\* The same copy ends a restore stage or an EFI rollback.
CopyRecoveryBootDone ==
    /\ todo = {}
    /\ \/ /\ job = "restore"
          /\ Pass("copy_recoveryboot", "verify_bootmgr")
       \/ /\ job = "rollback"
          /\ pc = "copy_recoveryboot"
          /\ Ended
          /\ UNCHANGED <<diskVars, menu, history>>

VerifyWindowsBootManager ==
    /\ esp[Bootmgfw] # "absent"
    /\ Pass("verify_bootmgr", "repair_bootorder")

\* On Linux the BootOrder commands are only planned.
RepairBootorder == Pass("repair_bootorder", "mark_success")

RestoreSucceeded ==
    /\ \/ Truncate("mark_success", "write_success", MarkSuccess(Load(stateFile)))
       \/ Write("write_success", "log_integrity")
    /\ UNCHANGED <<durable, windows, esp, snapshot, gptSnapshot, job, todo,
                   handling, menu>>

\* _stage_log_integrity reads the manifest again.
LogIntegrity == Pass("log_integrity", "finally")

\* finally: _try_unmount_efi; then the result is returned.
Finally ==
    /\ pc = "finally"
    /\ Ended
    /\ UNCHANGED <<diskVars, menu, history>>

-----------------------------------------------------------------------------
(***************************************************************************)
(* Failures.                                                               *)
(***************************************************************************)

\* Any stage may raise; the except clause calls _fail.  A failed write leaves
\* the file truncated.
StageRaises ==
    /\ pc \in TryStages
    /\ job = "restore"
    /\ pc' = "mark_failed"
    /\ handling' = TRUE
    /\ todo' = {}
    /\ buffer' = FreshState
    /\ UNCHANGED <<diskVars, job, menu, history>>

RestoreFailed ==
    /\ \/ Truncate("mark_failed", "write_failed", MarkFailed(Load(stateFile)))
       \/ Write("write_failed", "record_failed")
       \/ Truncate("record_failed", "write_recorded", MarkFailed(Load(stateFile)))
       \/ Write("write_recorded", "count_failure")
       \/ Truncate("count_failure", "write_count", CountFailure(Load(stateFile)))
       \/ Write("write_count", "finally")
    /\ UNCHANGED <<durable, windows, esp, snapshot, gptSnapshot, job, todo,
                   handling, menu>>

\* Mutation: recording the failure is tried until it works.
FailRaisesRetrying ==
    /\ pc \in FailSteps
    /\ pc' = "mark_failed"
    /\ handling' = TRUE
    /\ buffer' = FreshState
    /\ UNCHANGED <<diskVars, job, todo, menu, history>>

\* _fail itself raises: out of execute() if it was called by the except
\* clause, into the except clause if it was called by the validation stage.
FailRaises ==
    /\ pc \in FailSteps
    /\ pc' = IF handling THEN "finally" ELSE "mark_failed"
    /\ handling' = TRUE
    /\ buffer' = FreshState
    /\ UNCHANGED <<diskVars, job, todo, menu, history>>

-----------------------------------------------------------------------------
(***************************************************************************)
(* Operator actions on the record, each of them one privileged job.        *)
(***************************************************************************)
Start(kind, step) ==
    /\ pc = "idle"
    /\ pc' = step
    /\ job' = kind
    /\ menu' = "stale"
    /\ UNCHANGED <<diskVars, buffer, todo, handling, history>>

\* The record is replaced on an operator's word: first the old one goes.
Drop(step, next, state) ==
    /\ pc = step
    /\ pc' = next
    /\ buffer' = state
    /\ stateFile' = Unreadable
    /\ released' = TRUE
    /\ UNCHANGED <<durable, windows, esp, job, todo, handling, menu, rewound>>

Replace(step) ==
    /\ pc = step
    /\ Ended
    /\ stateFile' = Stored(buffer)
    /\ UNCHANGED <<durable, windows, esp, snapshot, gptSnapshot, menu, history>>

\* The administrator's "Clear Restore Failure Lock".
ClearRestoreFailureLock ==
    \/ /\ Drop("clear", "write_clear", ClearLock(Load(stateFile)))
       /\ UNCHANGED <<snapshot, gptSnapshot>>
    \/ Replace("write_clear")

\* delete_backup_data removes state/ with the rest and saves a new record.
DeleteBackup ==
    \/ /\ Drop("delete_state", "write_deleted", FreshState)
       /\ UNCHANGED <<snapshot, gptSnapshot>>
    \/ Replace("write_deleted")

\* reset_recovery_image_for_backup: the volume is formatted before a backup,
\* the pre-restore snapshots with it.
FormatRecoveryImage ==
    \/ /\ Drop("format", "write_formatted", FreshState)
       /\ snapshot' = NoSnapshot
       /\ gptSnapshot' = "absent"
    \/ Replace("write_formatted")

\* rollback_efi: a bootmgfw.efi that is missing is copied back from the
\* snapshot; one that is there is left alone.
RollbackBootmgfw ==
    /\ pc = "rollback_bootmgfw"
    /\ \/ /\ todo = {}
          /\ esp[Bootmgfw] = "absent"
          /\ snapshot.files[Bootmgfw] # "absent"
          /\ esp' = [esp EXCEPT ![Bootmgfw] = "torn"]
          /\ todo' = {Bootmgfw}
       \/ /\ todo = {Bootmgfw}
          /\ esp' = [esp EXCEPT ![Bootmgfw] = snapshot.files[Bootmgfw]]
          /\ todo' = {}
    /\ UNCHANGED <<stateFile, durable, windows, snapshot, gptSnapshot, pc, job,
                   buffer, handling, menu, history>>

\* Then RecoveryBoot is replaced, if the snapshot has one.
RollbackRecoveryBoot ==
    /\ pc = "rollback_bootmgfw"
    /\ todo = {}
    /\ esp[Bootmgfw] # "absent" \/ snapshot.files[Bootmgfw] = "absent"
    /\ IF snapshot.recoveryboot
       THEN /\ pc' = "drop_recoveryboot"
            /\ UNCHANGED <<job, buffer, todo, handling>>
       ELSE Ended
    /\ UNCHANGED <<diskVars, menu, history>>

\* An operator job raises: its helper reports the error and ends.
OperatorJobRaises ==
    /\ job \in {"clear", "delete", "format", "rollback"}
    /\ Ended
    /\ UNCHANGED <<diskVars, menu, history>>

-----------------------------------------------------------------------------
(***************************************************************************)
(* The environment.                                                        *)
(***************************************************************************)

\* Nothing in the code syncs the record: the kernel writes it back later.
\* Only a power loss can tell.
WriteBack ==
    /\ "power" \in CrashKinds
    /\ durable # stateFile
    /\ durable' = stateFile
    /\ UNCHANGED <<stateFile, windows, esp, snapshot, gptSnapshot, jobVars,
                   menu, history>>

\* Windows runs between the jobs, and its boot manager may get lost.
BootmgfwLost ==
    /\ pc = "idle"
    /\ esp[Bootmgfw] # "absent"
    /\ esp' = [esp EXCEPT ![Bootmgfw] = "absent"]
    /\ UNCHANGED <<stateFile, durable, windows, snapshot, gptSnapshot, jobVars,
                   menu, history>>

\* The process that runs the job dies; the kernel lives.
Killed ==
    /\ "kill" \in CrashKinds
    /\ pc # "idle"
    /\ Ended
    /\ UNCHANGED <<diskVars, menu, history>>

\* The machine goes down: the record is what the medium holds, or a file
\* whose data had not arrived.  The runtime starts again.
PowerLoss ==
    /\ "power" \in CrashKinds
    /\ stateFile' \in IF durable = stateFile THEN {stateFile}
                                             ELSE {durable, Unreadable}
    /\ durable' = stateFile'
    /\ rewound' = (rewound \/ stateFile' # stateFile)
    /\ Ended
    /\ menu' = "stale"
    /\ UNCHANGED <<windows, esp, snapshot, gptSnapshot, released>>

-----------------------------------------------------------------------------
\* The running job makes its next step, or the step raises.
Restore ==
    \/ Authorize \/ Validate
    \/ DropSnapshot
    \/ \E f \in EfiFiles : BackupEfiFile(f)
    \/ BackupEfiDone
    \/ BackupGpt
    \/ RestoreStarted
    \/ EnsureWindowsUnmounted \/ PartcloneStart \/ PartcloneEnd
    \/ RestoreRecoveryBoot \/ DropRecoveryBoot
    \/ \E f \in RecoveryBoot : CopyRecoveryBootFile(f)
    \/ CopyRecoveryBootDone
    \/ VerifyWindowsBootManager \/ RepairBootorder
    \/ RestoreSucceeded \/ LogIntegrity
    \/ RestoreFailed
    \/ Finally

Fault == StageRaises \/ FailRaises \/ OperatorJobRaises

OperatorJob ==
    \/ ClearRestoreFailureLock \/ DeleteBackup \/ FormatRecoveryImage
    \/ RollbackBootmgfw \/ RollbackRecoveryBoot

JobStep == Restore \/ OperatorJob \/ Fault

\* What an operator starts, from the menu or from the command line.
Launch ==
    \/ RefreshMenu \/ MenuRestore \/ CliRestore
    \/ Start("clear", "clear")
    \/ Start("delete", "delete_state")
    \/ Start("format", "format")
    \/ Start("rollback", "rollback_bootmgfw")

Environment == WriteBack \/ BootmgfwLost \/ Killed \/ PowerLoss

Next == JobStep \/ Launch \/ Environment

Spec == Init /\ [][Next]_vars

\* Commands return and the interpreter goes on: a job that can step does.
FairSpec == Spec /\ WF_vars(JobStep)

-----------------------------------------------------------------------------
(***************************************************************************)
(* Properties.                                                             *)
(***************************************************************************)

\* The steps that follow a complete EFI backup and leave the ESP alone.
BackedUp ==
    {"backup_gpt", "dump_gpt", "mark_started", "write_started",
     "unmount_windows", "partclone_start", "partclone_run", "mount_efi"}

\* The steps that follow the copy back.
PutBack ==
    {"verify_bootmgr", "repair_bootorder", "mark_success", "write_success",
     "log_integrity"}

\* Windows is written only under a record on the volume that says so and
\* with the material of a rollback in hand: execute() takes the EFI backup,
\* the GPT dump and mark_restore_started in this order, before partclone, and
\* no earlier run, crash or operator action leaves anything that passes for
\* them.
IntentBeforeDamage ==
    [][(windows' = "torn" /\ windows # "torn")
          => /\ stateFile.whole
             /\ stateFile.state.restore_in_progress
             /\ ~stateFile.state.restore_success
             /\ gptSnapshot = "whole"
             /\ snapshot.files = esp
             /\ esp[Bootmgfw] # "absent"]_vars

\* As long as Windows is half written, a readable record says so (restore in
\* progress, or rollback required), unless an operator dropped the record or
\* a power loss took back a write: across failures of any stage, failures of
\* _fail itself, killed helpers and later restores that fail early.
DamageIsRecorded ==
    windows = "torn" /\ stateFile.whole /\ ~released /\ ~rewound
        => Locked(stateFile.state)

\* A record that claims a successful restore is never left behind by a later
\* restore that has touched Windows.
SuccessMeansRestored ==
    stateFile.whole /\ stateFile.state.restore_success /\ ~rewound
        => windows = "restored"

\* From the end of the EFI backup on, the snapshot is the ESP file by file,
\* whatever an interrupted earlier run left in either; and once the copy back
\* is done RecoveryBoot is again what it was before the restore.
RecoveryBootPutBack ==
    /\ pc \in BackedUp => snapshot.files = esp
    /\ pc \in PutBack
          => \A f \in RecoveryBoot : esp[f] = snapshot.files[f]

\* The engine as the abstract protocol sees it: the record is lost while it
\* cannot be read, and after it was dropped or taken back.
recordView ==
    IF stateFile.whole /\ Locked(stateFile.state) THEN "locked"
    ELSE IF ~stateFile.whole \/ released \/ rewound THEN "lost"
    ELSE "open"

Intent == INSTANCE RestoreIntent WITH volume <- windows, record <- recordView

\* The engine implements the intent protocol step by step.
ImplementsIntent == Intent!IntentSpec

\* With the menu as the only caller no restore gets past its authorization
\* while the record is locked: not after a failed or killed restore, nor after
\* a reboot.  The authorization itself reads no record.
MenuRespectsLock ==
    [][pc = "authorize" /\ pc' = "validate" => ~Locked(Load(stateFile))]_vars

\* No job goes on for ever: a failed restore is not tried again by itself,
\* even when recording the failure fails.
JobsEnd == pc # "idle" ~> pc = "idle"

-----------------------------------------------------------------------------
(***************************************************************************)
(* What the documents promise and the code does not do.                    *)
(***************************************************************************)

\* docs/FAILURE_RECOVERY.md: a power-off in the middle of a restore is always
\* recorded in the state file.
PowerLossIsRecorded ==
    pc = "idle" /\ windows = "torn" /\ ~released => Locked(Load(stateFile))

\* The restore plan: RecoveryBoot is restored from backup assets if missing.
CompletedRestoreHasRecoveryBoot ==
    pc = "log_integrity" => \A f \in RecoveryBoot : esp[f] # "absent"

\* "rollback required before another restore".
NoRestoreOverLock ==
    [][pc = "authorize" /\ pc' = "validate"
          => ~Load(stateFile).rollback_required]_vars
=============================================================================
