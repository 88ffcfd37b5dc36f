--------------------------- MODULE RecoverySession ---------------------------
(***************************************************************************)
(* The user interface of the Recovery Runtime, the privileged helper it    *)
(* starts, and the RECOVERY_IMAGE volume the two look at and write.        *)
(*                                                                         *)
(*   recovery_runtime/gtk_ui/window.py        handlers, dialogs, worker    *)
(*   recovery_runtime/gtk_ui/image_status.py  what the GTK window sees     *)
(*   recovery_runtime/menu.py, actions.py     the text menu                *)
(*   recovery_runtime/admin_bridge.py         how a result travels back    *)
(*   recovery_runtime/backup_admin.py         the helper's commands        *)
(*                                                                         *)
(* The helper runs every command but check-restore in a transient systemd  *)
(* unit, takes no lock, and its unit survives the interface that asked for *)
(* it, until it next prints progress into the broken pipe.  The GTK        *)
(* interface is started again by systemd when it dies; the text menu is    *)
(* not.  What backup and restore do inside is the subject of BackupEngine  *)
(* and RestoreEngine; here their steps are as coarse as other jobs can     *)
(* tell.  Losses of power are theirs as well.                              *)
(***************************************************************************)
EXTENDS Naturals, FiniteSets

CONSTANTS
    Starts,    \* how often systemd starts the interface in one boot
    Kinds,     \* the interfaces looked at: "gtk", "tui"
    Ops        \* what the user may ask for

ASSUME StartsAssumption == Starts \in Nat \ {0}
ASSUME KindsAssumption == Kinds \subseteq {"gtk", "tui"}
ASSUME OpsAssumption ==
    Ops \subseteq {"backup", "restore", "delete", "clear", "reboot"}

\* The processes that show the interface, in the order they are started.
Clients == 1..Starts

VARIABLES
    \* -- the machine
    files,      \* the images on RECOVERY_IMAGE
    listed,     \* manifest and hash files, by the images they were made from
    marker,     \* state/incomplete_backup
    staged,     \* .delete_staging/images
    mount,      \* how RECOVERY_IMAGE is mounted
    windows,    \* the Windows partition
    rebooting,  \* systemctl reboot was called; systemd has queued the shutdown
    \* -- the jobs, at most one per client
    unit,       \* unit[c]: its command, the step it is at, its payload
    \* -- the interface
    kind,       \* which one this boot shows
    helper,     \* recoverix-backup-admin is installed
    client,     \* the running one; those before it are dead
    seen,       \* the volume as of its last refresh
    dialog,     \* the open confirmation dialog and its page
    busy,       \* its buttons are insensitive
    worker,     \* the operation and stage of its worker thread
    told        \* the last message about an operation

volumeVars == <<files, listed, marker, staged>>
machineVars == <<volumeVars, mount, windows, rebooting>>
fixedVars == <<kind, helper>>
uiVars == <<client, seen, dialog, busy, worker, told>>
vars == <<machineVars, unit, fixedVars, uiVars>>

Content == {"absent", "torn", "whole"}
Payloads == {"none", "COMPLETED", "FAILED", "BLOCKED"}
Views == {"unmounted", "none", "valid"}
Reboots == {"no", "asked", "queued"}
Commands ==
    {"reset", "backup", "check", "restore", "delete", "clear", "reboot",
     "local_delete"}

UnitSteps ==
    {"end", "umount", "mkfs", "mount", "erase",
     "plan", "remount", "mark", "copy", "copying", "finalize", "publish",
     "closeout", "mark_failed", "validate", "rw", "authorize", "write",
     "writing", "remove", "remove_state", "remove_lists", "save", "ro",
     "bootnext", "popen", "exit", "stage", "staging", "drop", "unstage", "rollback"}

NoUnit == [cmd |-> "none", step |-> "end", out |-> "none"]
NoDialog == [op |-> "none", page |-> 0]
NoWorker == [op |-> "none", stage |-> "none"]
Silence == [op |-> "none", ok |-> FALSE]

TypeOK ==
    /\ {files, listed, staged} \subseteq Content
    /\ {marker, helper, busy} \subseteq BOOLEAN
    /\ rebooting \in Reboots
    /\ mount \in {"none", "ro", "rw"}
    /\ windows \in {"original", "torn", "restored"}
    /\ unit \in [Clients -> [cmd : Commands \cup {"none"},
                             step : UnitSteps, out : Payloads]]
    /\ kind \in Kinds
    /\ client \in Clients
    /\ seen \in Views
    /\ dialog \in [op : Ops \cup {"none"}, page : 0..3]
    /\ worker \in [op : Ops \cup {"none"},
                   stage : Commands \cup {"none", "finalize", "ok", "failed"}]
    /\ told \in [op : Ops \cup {"none"}, ok : BOOLEAN]

-----------------------------------------------------------------------------
(***************************************************************************)
(* Who sees what of the volume.                                            *)
(***************************************************************************)

\* The window and the menu look for the files and the marker, not inside.
ValidBackup == files # "absent" /\ listed # "absent" /\ ~marker

\* The full validation compares the images with their hashes.
Verified == ValidBackup /\ files = listed

View(m) ==
    IF m = "none" THEN "unmounted" ELSE IF ValidBackup THEN "valid" ELSE "none"

\* The volume is mounted read-only when nobody has it mounted, which may fail:
\* the interface is not privileged.
EnsureMounted == mount' \in (IF mount = "none" THEN {"none", "ro"} ELSE {mount})

Refresh == EnsureMounted /\ seen' = View(mount')

Init ==
    /\ \/ files = "absent" /\ listed = "absent"
       \/ files = "whole" /\ listed = "whole"
    /\ marker = FALSE
    /\ staged = "absent"
    /\ kind \in Kinds
    /\ helper \in (IF kind = "gtk" THEN {TRUE} ELSE BOOLEAN)
    /\ mount \in (IF helper THEN {"ro"} ELSE {"ro", "rw"})
    /\ windows = "original"
    /\ rebooting = "no"
    /\ unit = [c \in Clients |-> NoUnit]
    /\ client = 1
    /\ seen = View(mount)
    /\ dialog = NoDialog
    /\ busy = FALSE
    /\ worker = NoWorker
    /\ told = Silence

-----------------------------------------------------------------------------
(***************************************************************************)
(* The jobs.  A step that finds the volume read-only or its files gone     *)
(* raises; so may every other step.                                        *)
(***************************************************************************)
At(c, cmd, step) == unit[c].cmd = cmd /\ unit[c].step = step
Goto(c, step) == unit' = [unit EXCEPT ![c].step = step]
Exit(c, out) == unit' = [unit EXCEPT ![c].step = "end", ![c].out = out]
Running(c) == unit[c].step # "end"
Orphan(c) == c # client /\ Running(c)

Writable == mount = "rw"

\* Printing progress raises BrokenPipeError once the reader is gone.
Heard(c) == c = client

\* A file of the volume is held open by another job.
HeldOpen(c) ==
    \E d \in Clients \ {c} : unit[d].step \in {"copying", "writing", "staging"}

\* What the helper remounted read-write it remounts read-only in the end.
Leave(c, out) ==
    unit' = [unit EXCEPT ![c].step = IF helper THEN "ro" ELSE "end",
                         ![c].out = out]

\* -- reset-recovery-image ---------------------------------------------------

\* umount, then umount -l; when neither helps, the files are erased in place.
ResetUnmount(c) ==
    /\ At(c, "reset", "umount")
    /\ \/ mount' = "none" /\ Goto(c, "mkfs")
       \/ mount # "none" /\ mount' = "rw" /\ Goto(c, "erase")
    /\ UNCHANGED <<volumeVars, windows, rebooting, uiVars>>

\* mkfs refuses a device in use: mounted again, or by files still open.
ResetMkfs(c) ==
    /\ At(c, "reset", "mkfs")
    /\ mount = "none" /\ ~HeldOpen(c)
    /\ files' = "absent" /\ listed' = "absent" /\ staged' = "absent"
    /\ marker' = FALSE
    /\ Goto(c, "mount")
    /\ UNCHANGED <<mount, windows, rebooting, uiVars>>

ResetMount(c) ==
    /\ At(c, "reset", "mount")
    /\ mount' = "rw"
    /\ Exit(c, "COMPLETED")
    /\ UNCHANGED <<volumeVars, windows, rebooting, uiVars>>

\* The entries go in the order the directory lists them.
ResetErase(c) ==
    /\ At(c, "reset", "erase")
    /\ Writable
    /\ \/ /\ files # "absent" /\ files' = "absent"
          /\ UNCHANGED <<listed, marker, staged, unit>>
       \/ /\ listed # "absent" /\ listed' = "absent"
          /\ UNCHANGED <<files, marker, staged, unit>>
       \/ /\ marker /\ marker' = FALSE
          /\ UNCHANGED <<files, listed, staged, unit>>
       \/ /\ staged # "absent" /\ staged' = "absent"
          /\ UNCHANGED <<files, listed, marker, unit>>
       \/ /\ {files, listed, staged} = {"absent"} /\ ~marker
          /\ Exit(c, "COMPLETED")
          /\ UNCHANGED volumeVars
    /\ UNCHANGED <<mount, windows, rebooting, uiVars>>

\* -- run-backup -------------------------------------------------------------

BackupPlan(c) ==
    /\ At(c, "backup", "plan")
    /\ IF mount # "none" /\ ValidBackup
       THEN Exit(c, "BLOCKED")
       ELSE Goto(c, "remount")
    /\ UNCHANGED <<machineVars, uiVars>>

\* The volume is remounted, and looked at again.
BackupRemount(c) ==
    /\ At(c, "backup", "remount")
    /\ Heard(c)
    /\ mount' = "rw"
    /\ IF ValidBackup THEN Exit(c, "BLOCKED") ELSE Goto(c, "mark")
    /\ UNCHANGED <<volumeVars, windows, rebooting, uiVars>>

BackupMark(c) ==
    /\ At(c, "backup", "mark")
    /\ Writable
    /\ marker' = TRUE
    /\ Goto(c, "copy")
    /\ UNCHANGED <<files, listed, staged, mount, windows, rebooting, uiVars>>

BackupCopy(c) ==
    /\ At(c, "backup", "copy")
    /\ Heard(c) /\ Writable
    /\ files' = "torn"
    /\ Goto(c, "copying")
    /\ UNCHANGED <<listed, marker, staged, mount, windows, rebooting, uiVars>>

\* Mutation: the exit status of partclone is not looked at.
BackupCopiedUnchecked(c) ==
    /\ At(c, "backup", "copying")
    /\ Heard(c) /\ Writable
    /\ Goto(c, "finalize")
    /\ UNCHANGED <<volumeVars, mount, windows, rebooting, uiVars>>

\* An orphan that still writes holds an image the reset has unlinked.
BackupCopied(c) ==
    /\ At(c, "backup", "copying")
    /\ Heard(c) /\ Writable
    /\ files # "absent"
    /\ files' = "whole"
    /\ Goto(c, "finalize")
    /\ UNCHANGED <<listed, marker, staged, mount, windows, rebooting, uiVars>>

\* Hashes and manifests of the images as they are.
BackupFinalize(c) ==
    /\ At(c, "backup", "finalize")
    /\ Heard(c) /\ Writable
    /\ files # "absent"
    /\ listed' = files
    /\ Goto(c, "publish")
    /\ UNCHANGED <<files, marker, staged, mount, windows, rebooting, uiVars>>

\* The images are hashed once more before the marker goes.
BackupPublish(c) ==
    /\ At(c, "backup", "publish")
    /\ Writable
    /\ files = listed
    /\ marker' = FALSE
    /\ Goto(c, "closeout")
    /\ UNCHANGED <<files, listed, staged, mount, windows, rebooting, uiVars>>

\* The last two lines of progress, inside the same try block.
BackupCloseout(c) ==
    /\ At(c, "backup", "closeout")
    /\ Heard(c)
    /\ Exit(c, "COMPLETED")
    /\ UNCHANGED <<machineVars, uiVars>>

\* The except clause puts the marker back, wherever it came from.
BackupMarkFailed(c) ==
    /\ At(c, "backup", "mark_failed")
    /\ marker' = (marker \/ Writable)
    /\ Exit(c, "FAILED")
    /\ UNCHANGED <<files, listed, staged, mount, windows, rebooting, uiVars>>

\* -- check-restore ----------------------------------------------------------

\* Allowed is COMPLETED here, refused BLOCKED; the fast validation does not
\* hash the images.
CheckRestore(c) ==
    /\ At(c, "check", "validate")
    /\ Exit(c, IF mount # "none" /\ ValidBackup THEN "COMPLETED" ELSE "BLOCKED")
    /\ UNCHANGED <<machineVars, uiVars>>

\* -- the jobs between two remounts ------------------------------------------

FirstStep ==
    [restore |-> "authorize", delete |-> "remove", clear |-> "save"]

RemountRw(c) ==
    /\ unit[c].step = "rw"
    /\ mount # "none"
    /\ mount' = "rw"
    /\ Goto(c, FirstStep[unit[c].cmd])
    /\ UNCHANGED <<volumeVars, windows, rebooting, uiVars>>

\* Refused while a file is open for writing; the failure is swallowed.
RemountRo(c) ==
    /\ unit[c].step = "ro"
    /\ mount' \in (IF mount = "none" \/ HeldOpen(c) THEN {mount} ELSE {"ro", mount})
    /\ Goto(c, "end")
    /\ UNCHANGED <<volumeVars, windows, rebooting, uiVars>>

\* -- run-restore ------------------------------------------------------------

\* The full validation, hashes included.
RestoreAuthorize(c) ==
    /\ At(c, "restore", "authorize")
    /\ IF mount # "none" /\ Verified THEN Goto(c, "write") ELSE Leave(c, "FAILED")
    /\ UNCHANGED <<machineVars, uiVars>>

\* Mutation: prevalidated means that the executor does not validate.
RestoreWritePrevalidated(c) ==
    /\ At(c, "restore", "write")
    /\ Heard(c) /\ Writable
    /\ windows' = "torn"
    /\ unit' = [unit EXCEPT ![c].step = "writing",
                            ![c].out = IF files = "whole" THEN "COMPLETED" ELSE "FAILED"]
    /\ UNCHANGED <<volumeVars, mount, rebooting, uiVars>>

\* The executor validates again, without hashes; partclone opens the image.
RestoreWrite(c) ==
    /\ At(c, "restore", "write")
    /\ Heard(c) /\ Writable
    /\ ValidBackup
    /\ windows' = "torn"
    /\ unit' = [unit EXCEPT ![c].step = "writing",
                            ![c].out = IF files = "whole" THEN "COMPLETED" ELSE "FAILED"]
    /\ UNCHANGED <<volumeVars, mount, rebooting, uiVars>>

\* partclone reads the image it opened to its end, removed or not.
RestoreWritten(c) ==
    /\ At(c, "restore", "writing")
    /\ Heard(c)
    /\ windows' = IF unit[c].out = "COMPLETED" THEN "restored" ELSE "torn"
    /\ Leave(c, unit[c].out)
    /\ UNCHANGED <<volumeVars, mount, rebooting, uiVars>>

\* -- delete-backup, clear-restore-failure-lock ------------------------------

DeleteImages(c) ==
    /\ At(c, "delete", "remove")
    /\ Writable
    /\ files' = "absent"
    /\ Goto(c, "remove_state")
    /\ UNCHANGED <<listed, marker, staged, mount, windows, rebooting, uiVars>>

DeleteState(c) ==
    /\ At(c, "delete", "remove_state")
    /\ Writable
    /\ marker' = FALSE
    /\ Goto(c, "remove_lists")
    /\ UNCHANGED <<files, listed, staged, mount, windows, rebooting, uiVars>>

DeleteLists(c) ==
    /\ At(c, "delete", "remove_lists")
    /\ Writable
    /\ listed' = "absent"
    /\ Leave(c, "COMPLETED")
    /\ UNCHANGED <<files, marker, staged, mount, windows, rebooting, uiVars>>

\* The record itself is in RecoveryStateFile.
ClearLock(c) ==
    /\ At(c, "clear", "save")
    /\ Writable
    /\ Leave(c, "COMPLETED")
    /\ UNCHANGED <<machineVars, uiVars>>

\* -- reboot-windows, reboot-pc ----------------------------------------------

SetBootNext(c) ==
    /\ At(c, "reboot", "bootnext")
    /\ Goto(c, "popen")
    /\ UNCHANGED <<machineVars, uiVars>>

\* systemctl reboot is started and not waited for.
RequestReboot(c) ==
    /\ At(c, "reboot", "popen")
    /\ rebooting' = IF rebooting = "no" THEN "asked" ELSE rebooting
    /\ Goto(c, "exit")
    /\ UNCHANGED <<volumeVars, mount, windows, uiVars>>

RebootExits(c) ==
    /\ At(c, "reboot", "exit")
    /\ Exit(c, "COMPLETED")
    /\ UNCHANGED <<machineVars, uiVars>>

\* -- the text menu's own delete, without the helper --------------------------

LocalStage(c) ==
    /\ At(c, "local_delete", "stage")
    /\ Writable
    /\ staged' = "torn"
    /\ Goto(c, "staging")
    /\ UNCHANGED <<files, listed, marker, mount, windows, rebooting, uiVars>>

LocalStaged(c) ==
    /\ At(c, "local_delete", "staging")
    /\ staged' = files
    /\ Goto(c, "drop")
    /\ UNCHANGED <<files, listed, marker, mount, windows, rebooting, uiVars>>

\* Manifests and hash files are not among the targets.
LocalDrop(c) ==
    /\ At(c, "local_delete", "drop")
    /\ files' = "absent" /\ marker' = FALSE
    /\ Goto(c, "unstage")
    /\ UNCHANGED <<listed, staged, mount, windows, rebooting, uiVars>>

LocalUnstage(c) ==
    /\ At(c, "local_delete", "unstage")
    /\ staged' = "absent"
    /\ Exit(c, "COMPLETED")
    /\ UNCHANGED <<files, listed, marker, mount, windows, rebooting, uiVars>>

\* What was staged so far replaces the images.
LocalRollback(c) ==
    /\ At(c, "local_delete", "rollback")
    /\ files' = IF staged = "absent" THEN files ELSE staged
    /\ Exit(c, "FAILED")
    /\ UNCHANGED <<listed, marker, staged, mount, windows, rebooting, uiVars>>

\* -- a step fails -----------------------------------------------------------

Handler(c) ==
    LET j == unit[c] IN
    CASE j.cmd = "backup" /\ j.step \notin {"plan", "remount", "mark_failed"} ->
           "mark_failed"
      [] j.cmd = "local_delete" /\ j.step # "rollback" -> "rollback"
      [] j.cmd \in {"restore", "delete", "clear"} /\ j.step # "rw" /\ helper -> "ro"
      [] OTHER -> "end"

JobRaises(c) ==
    /\ unit[c].step \notin {"end", "ro", "exit"}
    /\ unit' = [unit EXCEPT ![c].step = Handler(c), ![c].out = "FAILED"]
    /\ UNCHANGED <<machineVars, uiVars>>

Job(c) ==
    /\ \/ ResetUnmount(c) \/ ResetMkfs(c) \/ ResetMount(c) \/ ResetErase(c)
       \/ BackupPlan(c) \/ BackupRemount(c) \/ BackupMark(c) \/ BackupCopy(c)
       \/ BackupCopied(c) \/ BackupFinalize(c) \/ BackupPublish(c)
       \/ BackupCloseout(c) \/ BackupMarkFailed(c)
       \/ CheckRestore(c) \/ RemountRw(c) \/ RemountRo(c)
       \/ RestoreAuthorize(c) \/ RestoreWrite(c) \/ RestoreWritten(c)
       \/ DeleteImages(c) \/ DeleteState(c) \/ DeleteLists(c) \/ ClearLock(c)
       \/ SetBootNext(c) \/ RequestReboot(c) \/ RebootExits(c)
       \/ LocalStage(c) \/ LocalStaged(c) \/ LocalDrop(c) \/ LocalUnstage(c)
       \/ LocalRollback(c)
       \/ JobRaises(c)
    /\ UNCHANGED fixedVars

-----------------------------------------------------------------------------
(***************************************************************************)
(* The interface.                                                          *)
(***************************************************************************)

\* Mutation: the text menu goes on after a reboot was accepted.
NeverLeavesLoop == FALSE

\* The text menu leaves its loop when a reboot was accepted.
LeftLoop == kind = "tui" /\ told = [op |-> "reboot", ok |-> TRUE]

\* Mutation: the buttons stay sensitive while a worker runs.
IdleWhenNoDialog == dialog = NoDialog /\ ~LeftLoop

Idle == ~busy /\ dialog = NoDialog /\ ~LeftLoop

\* Mutation: a valid backup does not forbid another one.
ExecutableAnyway(op) ==
    op \in {"restore", "delete"} => seen = "valid"

\* The menu's policy, as of the last refresh.
Executable(op) ==
    CASE op = "backup" -> seen = "none"
      [] op \in {"restore", "delete"} -> seen = "valid"
      [] op = "clear" -> seen # "unmounted"
      [] OTHER -> helper

\* The window's buttons, as of the last refresh.  The backup button is
\* sensitive while nobody could look at the volume.
Sensitive(op) ==
    CASE op = "backup" -> seen # "valid"
      [] op \in {"restore", "delete"} -> seen = "valid"
      [] OTHER -> TRUE

Ask(op) == op \in Ops /\ dialog' = [op |-> op, page |-> 1]

\* A handler of the window looks at the volume before it asks.
LookAgain(op, wanted) ==
    /\ Sensitive(op)
    /\ Refresh
    /\ IF seen' = wanted THEN Ask(op) ELSE UNCHANGED dialog

ClickBackup == LookAgain("backup", "none")
ClickRestore == LookAgain("restore", "valid")
ClickDelete == LookAgain("delete", "valid")
ClickReboot == Ask("reboot") /\ UNCHANGED <<mount, seen>>
ClickClear == Ask("clear") /\ UNCHANGED <<mount, seen>>

\* The menu asks at once; only restore refreshes first, and asks all the same.
ChooseBackup == Executable("backup") /\ Ask("backup") /\ UNCHANGED <<mount, seen>>
ChooseRestore == Executable("restore") /\ Ask("restore") /\ Refresh
ChooseDelete == Executable("delete") /\ Ask("delete") /\ UNCHANGED <<mount, seen>>
ChooseReboot == Executable("reboot") /\ Ask("reboot") /\ UNCHANGED <<mount, seen>>
ChooseClear == Executable("clear") /\ Ask("clear") /\ UNCHANGED <<mount, seen>>

Open ==
    /\ Idle
    /\ \/ /\ kind = "gtk"
          /\ \/ ClickBackup \/ ClickRestore \/ ClickDelete
             \/ ClickReboot \/ ClickClear
       \/ /\ kind = "tui"
          /\ \/ ChooseBackup \/ ChooseRestore \/ ChooseDelete
             \/ ChooseReboot \/ ChooseClear
    /\ UNCHANGED <<volumeVars, windows, rebooting, unit, client, busy, worker, told>>

LastPage(op) == IF op \in {"backup", "restore", "delete"} THEN 2 ELSE 1

\* Mutation: a confirmation leads to one more.
NextPageForever ==
    /\ dialog # NoDialog
    /\ dialog' = [dialog EXCEPT !.page = @ + 1]
    /\ UNCHANGED <<machineVars, unit, client, seen, busy, worker, told>>

NextPage ==
    /\ dialog.page \in 1..(LastPage(dialog.op) - 1)
    /\ dialog' = [dialog EXCEPT !.page = 2]
    /\ UNCHANGED <<machineVars, unit, client, seen, busy, worker, told>>

\* The menu goes round its loop; the window stays as it was.
Cancel ==
    /\ dialog # NoDialog
    /\ dialog' = NoDialog
    /\ IF kind = "tui" THEN Refresh ELSE UNCHANGED <<mount, seen>>
    /\ UNCHANGED <<volumeVars, windows, rebooting, unit, client, busy, worker, told>>

EntryStep(cmd) ==
    CASE cmd = "reset" -> "umount"
      [] cmd = "backup" -> "plan"
      [] cmd = "check" -> "validate"
      [] cmd = "reboot" -> "bootnext"
      [] cmd = "local_delete" -> "stage"
      [] OTHER -> IF helper THEN "rw" ELSE FirstStep[cmd]

\* A new unit conflicts with a shutdown that is queued.
Refused(cmd) == helper /\ cmd # "check" /\ rebooting = "queued"

\* The worker thread has the helper run a command and waits for it.
Start(cmd) ==
    unit' = [unit EXCEPT ![client] =
               IF Refused(cmd)
               THEN [cmd |-> cmd, step |-> "end", out |-> "FAILED"]
               ELSE [cmd |-> cmd, step |-> EntryStep(cmd), out |-> "none"]]

FirstCommand(op, page) ==
    CASE op = "backup" -> IF page = 3 THEN "backup" ELSE "reset"
      [] op = "restore" -> IF kind = "gtk" THEN "check" ELSE "restore"
      [] op = "delete" -> IF helper THEN "delete" ELSE "local_delete"
      [] OTHER -> op

Accept ==
    /\ dialog # NoDialog /\ dialog.page >= LastPage(dialog.op)
    /\ dialog' = NoDialog
    /\ LET cmd == FirstCommand(dialog.op, dialog.page) IN
       IF cmd \in {"reset", "backup"} /\ ~helper
       THEN /\ told' = [op |-> dialog.op, ok |-> FALSE]
            /\ UNCHANGED <<unit, busy, worker>>
       ELSE /\ busy' = TRUE
            /\ worker' = [op |-> dialog.op, stage |-> cmd]
            /\ Start(cmd)
            /\ told' = Silence
    /\ UNCHANGED <<machineVars, client, seen>>

\* Mutation: a helper without a payload has completed.
PayloadOptional ==
    {unit[client].out, "COMPLETED"}

\* The last line that parses as an object is the payload.  A heartbeat may
\* print into the line that reports a restore, and the payload is lost.
Payload ==
    {unit[client].out} \cup (IF worker.stage = "restore" THEN {"none"} ELSE {})

Answered == worker.stage \in Commands /\ ~Running(client)

\* Mutation: a command that failed is run again.
AnswerRetrying ==
    /\ Answered
    /\ IF unit[client].out = "FAILED"
       THEN Start(worker.stage) /\ UNCHANGED worker
       ELSE worker' = [worker EXCEPT !.stage = "ok"] /\ UNCHANGED unit
    /\ ~(kind = "tui" /\ worker.stage = "reset")
    /\ UNCHANGED <<machineVars, client, seen, dialog, busy, told>>

\* What the window's workers do after a command that has completed.
BackupWorker(stage) == IF stage = "reset" THEN "backup" ELSE "finalize"
RestoreWorker(stage) == IF stage = "check" THEN "restore" ELSE "ok"

Answer ==
    /\ Answered
    /\ \E payload \in Payload :
         LET chained ==
               CASE kind = "gtk" /\ worker.op = "backup" -> BackupWorker(worker.stage)
                 [] kind = "gtk" /\ worker.op = "restore" -> RestoreWorker(worker.stage)
                 [] OTHER -> "ok"
             stage == IF payload = "COMPLETED" THEN chained ELSE "failed"
         IN /\ worker' = [worker EXCEPT !.stage = stage]
            /\ IF stage \in Commands THEN Start(stage) ELSE UNCHANGED unit
    /\ ~(kind = "tui" /\ worker.stage = "reset")
    /\ UNCHANGED <<machineVars, client, seen, dialog, busy, told>>

\* The text menu asks once more between the reset and the backup.
AskAgain ==
    /\ Answered /\ kind = "tui" /\ worker.stage = "reset"
    /\ Refresh
    /\ worker' = NoWorker /\ busy' = FALSE
    /\ IF unit[client].out = "COMPLETED" /\ seen' = "none"
       THEN dialog' = [op |-> "backup", page |-> 3] /\ UNCHANGED told
       ELSE told' = [op |-> "backup", ok |-> FALSE] /\ UNCHANGED dialog
    /\ UNCHANGED <<volumeVars, windows, rebooting, unit, client>>

\* run_backup_finalize_check hashes the images.
FinalizeCheck ==
    /\ worker.stage = "finalize"
    /\ Refresh
    /\ worker' = [worker EXCEPT !.stage = IF mount' # "none" /\ Verified
                                          THEN "ok" ELSE "failed"]
    /\ UNCHANGED <<volumeVars, windows, rebooting, unit, client, dialog, busy, told>>

Complete ==
    /\ worker.stage \in {"ok", "failed"}
    /\ busy' = FALSE
    /\ told' = [op |-> worker.op, ok |-> worker.stage = "ok"]
    /\ worker' = NoWorker
    /\ Refresh
    /\ UNCHANGED <<volumeVars, windows, rebooting, unit, client, dialog>>

\* Restart=on-failure, unless the machine is going down.
Die ==
    /\ kind = "gtk" /\ client < Starts
    /\ rebooting # "queued"
    /\ client' = client + 1
    /\ dialog' = NoDialog /\ busy' = FALSE /\ worker' = NoWorker /\ told' = Silence
    /\ Refresh
    /\ UNCHANGED <<volumeVars, windows, rebooting, unit>>

\* The systemctl of the helper has reached systemd.
ShutdownQueued ==
    /\ rebooting = "asked" /\ rebooting' = "queued"
    /\ UNCHANGED <<volumeVars, mount, windows, unit, uiVars>>

\* A unit is stopped while the interface is still there to see it: SIGTERM ends
\* the helper on the spot, and sudo reports a failure.
Stopped(c) ==
    /\ rebooting = "queued"
    /\ Running(c)
    /\ Exit(c, "FAILED")
    /\ UNCHANGED <<machineVars, uiVars>>

\* Every job is cut; the interface shows up again at the next boot.
Shutdown ==
    /\ rebooting = "queued" /\ rebooting' = "no"
    /\ unit' = [c \in Clients |-> NoUnit]
    /\ client' = 1
    /\ dialog' = NoDialog /\ busy' = FALSE /\ worker' = NoWorker /\ told' = Silence
    /\ mount' = "ro" /\ seen' = View("ro")
    /\ UNCHANGED <<volumeVars, windows>>

User == Open \/ NextPage \/ Cancel \/ Accept
Worker == Answer \/ AskAgain \/ FinalizeCheck \/ Complete
Systemd == ShutdownQueued \/ (\E c \in Clients : Stopped(c)) \/ Shutdown
Interface ==
    /\ User \/ Worker \/ Die \/ Systemd
    /\ UNCHANGED fixedVars

Next == (\E c \in Clients : Job(c)) \/ Interface

Spec == Init /\ [][Next]_vars

\* The kernel runs the jobs, and the interface reads what they print.
FairSpec ==
    /\ Spec
    /\ WF_vars(\E c \in Clients : Job(c))
    /\ WF_vars(Worker /\ UNCHANGED fixedVars)

-----------------------------------------------------------------------------
(***************************************************************************)
(* Properties.                                                             *)
(***************************************************************************)

\* A worker that has its command answered starts the next one; an interface
\* never has two jobs at work, whatever the user clicks.
OneJobPerInterface ==
    [][\A c \in Clients :
         Running(c) /\ unit[c].cmd # unit'[c].cmd
           => rebooting = "queued" /\ rebooting' = "no"]_vars

\* An interface that died left a job that writes the volume.
Meddled ==
    \E c \in Clients \ {client} : unit[c].cmd \in {"backup", "reset", "delete"}

\* The reset that precedes a backup never sets about a backup that could be
\* offered for restore: the refresh, the dialogs and the reset are separate
\* steps, and only a job that outlives its interface may change the answer in
\* between, a restore or an unlock left behind among them not.
ResetSparesBackup ==
    (/\ unit[client].cmd = "reset" /\ unit[client].step \in {"umount", "mkfs"}
     /\ ~Meddled)
      => ~ValidBackup

\* Whatever a failed or orphaned job leaves behind, a backup without marker is
\* whole, and so are its lists: the helper's delete and reset remove in an
\* order that never uncovers half a backup, and no backup runs into another.
OfferedIsWhole ==
    (helper /\ ValidBackup) => (files = "whole" /\ listed = "whole")

\* partclone is only ever pointed at an image whose hashes were right, also
\* when the jobs of a dead interface still change the volume between the
\* authorization, which hashes, and the executor, which does not.
RestoreReadsWholeImage ==
    [][\A c \in Clients :
         (At(c, "restore", "write") /\ unit'[c].step = "writing")
           => files = "whole"]_vars

\* A success about to be shown to the user is one: Windows is restored,
\* whatever a dead interface left at work; the backup is published and matches
\* its hashes, and the deleted images are gone, unless such a job came after.
NoFalseSuccess ==
    worker.stage = "ok" =>
       CASE worker.op = "restore" -> windows = "restored"
         [] worker.op = "backup" -> Verified \/ Meddled
         [] worker.op = "delete" -> files = "absent" \/ Meddled
         [] OTHER -> TRUE

\* From the request of a reboot to the shutdown the text menu has no job at work
\* that the shutdown would cut, but for the helper that made the request: the
\* menu has left its loop, or it was told of a failure, because that helper was
\* stopped before its exit, and a shutdown that is queued refuses its next job.
RebootCutsNoJob ==
    (kind = "tui" /\ rebooting # "no") =>
        \A c \in Clients : Running(c) => At(c, "reboot", "exit")

\* The buttons do not stay insensitive for ever.
BusyEnds == busy ~> ~busy

=============================================================================
