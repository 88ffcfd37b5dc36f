----------------------------- MODULE Admission -----------------------------
(***************************************************************************)
(* How recoverix decides what it may overwrite.  Nothing it stores names   *)
(* the disk: every job discovers the volumes again from lsblk labels and   *)
(* file systems, and a restore does so three times (plan, safety gate,     *)
(* execution context) while disks are plugged in, partitions are extended  *)
(* by another helper, Windows resizes or encrypts its volume between two   *)
(* sessions and the kernel lags behind the partition table.                *)
(*                                                                         *)
(* restore_planner, restore_safety, image_validation, restore_executor,    *)
(* backup_planner, run_backup, space_estimation, discover, windows_extend. *)
(*                                                                         *)
(* Sizes are in abstract units; the Windows partition starts at 0 and the  *)
(* partition behind it at Room.  The ESP and RECOVERY_IMAGE have constant  *)
(* sizes, which every sum of sizes leaves out.                             *)
(***************************************************************************)
EXTENDS Integers, Sequences, FiniteSets, FiniteSetsExt

CONSTANTS
    Slots,        \* helpers or command lines running at the same time
    Room,         \* where the partition behind Windows starts
    Margin,       \* PARTCLONE_RESTORE_SIZE_MARGIN_BYTES
    Tolerance,    \* COMPATIBLE_DISK_SIZE_TOLERANCE_BYTES
    Sizes,        \* sizes Windows gives its own partition
    Sticks,       \* sets of volumes a plugged disk may have
    Budget        \* bound on changes from outside and restarts

ASSUME SizesAssumption ==
    /\ Room \in Nat \ {0}
    /\ Margin \in Nat \ {0}
    /\ Tolerance \in Nat
    /\ Sizes \subseteq 1..Room
    /\ Budget \in Nat
    /\ Sticks \subseteq SUBSET {"ntfs", "vfat", "image"}

VARIABLES
    os,        \* the system that runs: "recovery" or "windows"
    win,       \* the Windows partition: file system, table, kernel and NTFS sizes
    reports,   \* whether blkid names the whole disk (else its path stands in)
    ident,     \* the GPT identifiers of the disk; a copy has others
    usb,       \* a plugged disk: its volumes, its place in lsblk, mounted or not
    mounted,   \* RECOVERY_IMAGE of the machine is mounted
    image,     \* what RECOVERY_IMAGE holds
    job,       \* the job in each slot
    promise,   \* what the last partition preparation promised
    spent      \* of Budget

vars == <<os, win, reports, ident, usb, mounted, image, job, promise, spent>>

Unplugged == [vols |-> {}, first |-> FALSE, mounted |-> FALSE]
NoImage == [state |-> "none", flaw |-> "no", device |-> <<>>, ids |-> <<>>, source |-> 0]
Idle == [op |-> "none", pc |-> "idle"]
NoPromise == [view |-> "none", need |-> 0]
NoLayout == [windows |-> "none"]
RecoveryLabels == {"RECOVERY_IMAGE", "RECOVERY_LINUX"}

\* discover_volumes: what lsblk and blkid list now.
Volumes ==
    {[disk |-> "home", fs |-> "vfat", label |-> "", size |-> 1],
     [disk |-> "home", fs |-> win.fs, label |-> "", size |-> win.kernel],
     [disk |-> "home", fs |-> "ext4", label |-> "RECOVERY_IMAGE", size |-> 1],
     [disk |-> "home", fs |-> "ext4", label |-> "RECOVERY_LINUX", size |-> 1]}
    \cup {[disk |-> "usb", fs |-> v, label |-> "", size |-> Room] :
              v \in usb.vols \ {"image"}}
    \cup {[disk |-> "usb", fs |-> "ext4", label |-> "RECOVERY_IMAGE", size |-> 1] :
              v \in usb.vols \cap {"image"}}

\* find_by_label: the first match in the order lsblk lists the disks.
RecoveryImage ==
    LET matches == {v \in Volumes : v.label = "RECOVERY_IMAGE"}
        preferred == {v \in matches : (v.disk = "usb") = usb.first}
    IN  CHOOSE v \in matches : preferred # {} => v \in preferred

\* find_windows_partitions and find_efi_partitions.
Candidates(fs) == {v \in Volumes : v.fs = fs /\ v.label \notin RecoveryLabels}

\* validate_topology: the candidates and RECOVERY_IMAGE share a disk.  The
\* mutant compares the partitions recoverix uses itself.
SameDiskAsRecovery(windows, efi) == efi.disk = RecoveryImage.disk
SameDisk(windows, efi) == {windows.disk, efi.disk, RecoveryImage.disk} = {windows.disk}

\* discover_layout: one Windows, one ESP, one disk, or nothing.
Layout ==
    IF /\ Cardinality(Candidates("ntfs")) = 1
       /\ Cardinality(Candidates("vfat")) = 1
       /\ \A w \in Candidates("ntfs"), e \in Candidates("vfat") : SameDisk(w, e)
    THEN [windows |-> CHOOSE w \in Candidates("ntfs") : TRUE, recovery |-> RecoveryImage]
    ELSE NoLayout

IsMounted(v) == IF v.disk = "home" THEN mounted ELSE usb.mounted

\* build_disk_metadata and compute_device_id.  The disk is known by the UUID
\* blkid prints for it or by its path; the size is the sum of the partitions.
DiskId == IF reports THEN ident ELSE 0
DeviceId(l) == <<l.windows.disk, DiskId, l.windows.size>>
Identifiers(l) == <<l.windows.disk, DiskId, ident>>

(***************************************************************************)
(* Restore: the checks of the plan and of the gate                         *)
(***************************************************************************)
\* find_manifest / verify_recovery_image_accessible.
Accessible(l) == IsMounted(l.recovery) /\ l.recovery.disk = "home" /\ image.state = "published"

\* _validate_restore_impl in its order: marker, type, device, hashes, manifest.
\* The quick form leaves out the hashes.
SameDevice(l) == image.device = DeviceId(l)
Validates(l, full, compatible) ==
    /\ image.state = "published"
    /\ image.flaw # "type"
    /\ compatible \/ SameDevice(l)
    /\ full => image.flaw # "hash"
    /\ image.flaw # "manifest"

\* The failure that makes the planner try the compatible validation.
IsDeviceMismatch(l) == image.state = "published" /\ image.flaw # "type" /\ ~SameDevice(l)

\* _check_windows_target_geometry: the size lsblk shows holds the image.  The
\* mutant reads the partition table, as the preparation does.
FitsTable(l) == image.source <= win.table
Fits(l) == image.source <= l.windows.size

\* verify_compatible_target_disk.
CompatibleTarget(l) ==
    /\ l.windows.label \notin RecoveryLabels
    /\ image.device[3] <= l.windows.size + Tolerance
    /\ Fits(l)

\* build_restore_plan with fast_validation: under which of the two validations
\* the image may be restored.
PlannedMode(l) ==
    IF ~Accessible(l) THEN "refused"
    ELSE IF Validates(l, FALSE, FALSE) THEN "standard"
    ELSE IF IsDeviceMismatch(l) /\ Validates(l, FALSE, TRUE) THEN "compatible"
    ELSE "refused"

\* ... and whether its target is large enough; other GPT identifiers make it
\* a compatible restore too.
Plan ==
    LET l == Layout
        mode == IF l = NoLayout THEN "refused" ELSE PlannedMode(l)
        same == image.ids = Identifiers(l)
        allowed == mode # "refused" /\ (IF same THEN Fits(l) ELSE CompatibleTarget(l))
    IN  [valid |-> mode # "refused", allowed |-> allowed,
         compatible |-> allowed /\ (mode = "compatible" \/ ~same)]

\* evaluate_restore_safety with no root given.
Authorized(compatible) ==
    LET l == Layout
    IN  /\ l # NoLayout
        /\ Accessible(l)
        /\ compatible \/ SameDevice(l)
        /\ Validates(l, TRUE, compatible)
        /\ Fits(l)
        /\ compatible => CompatibleTarget(l)

(***************************************************************************)
(* Backup: the estimate of space                                           *)
(***************************************************************************)
Probes == <<"df", "ntfsinfo", "ntfscluster", "lsblk", "ro_mount">>
Unknown == -1

\* estimate_ntfs_used_bytes: the first probe with a positive answer.
UsedBytes(answer) ==
    LET known == {i \in DOMAIN Probes : answer[i] > 0}
    IN  IF known = {} THEN 0 ELSE answer[Min(known)]

\* estimate_backup_space: an unknown use refuses, an unknown free space passes.
SpaceAdmits(answer, free) ==
    LET used == UsedBytes(answer)
    IN  used > 0 /\ (free # Unknown => used + 1 <= free)

(***************************************************************************)
(* Partition preparation                                                   *)
(***************************************************************************)
\* plan_windows_partition_extend: it looks at the table, not at the kernel.
\* The mutant is one unit wrong about where the next partition starts.
Goal == image.source + Margin
NextPartitionAllowsOverlap(goal) == goal - 1 <= Room
NextPartitionAllows(goal) == goal <= Room
CanExtend ==
    /\ Layout # NoLayout
    /\ IsMounted(RecoveryImage)
    /\ image.source > 0
    /\ win.table < Goal
    /\ win.table < Room
    /\ NextPartitionAllows(Goal)

\* The manifest of a backup of this disk, taken now.
Taken == [state |-> "published", flaw |-> "no", source |-> win.ntfs,
          device |-> <<"home", DiskId, win.kernel>>, ids |-> <<"home", DiskId, ident>>]

-----------------------------------------------------------------------------
Init ==
    /\ os = "recovery"
    /\ reports \in BOOLEAN
    /\ ident = 1
    /\ usb = Unplugged
    /\ \E size \in Sizes :
          /\ win = [fs |-> "ntfs", table |-> size, kernel |-> size, ntfs |-> size]
          /\ image \in {NoImage, [Taken EXCEPT !.flaw = "type"]}
    /\ mounted = TRUE
    /\ job = [s \in Slots |-> Idle]
    /\ promise = NoPromise
    /\ spent = 0

machine == <<os, win, reports, ident, usb, mounted>>
Free(s) == os = "recovery" /\ job[s] = Idle
At(s, op, pc) == job[s].op = op /\ job[s].pc = pc
Become(s, next) == job' = [job EXCEPT ![s] = next]

(***************************************************************************)
(* Restore                                                                 *)
(***************************************************************************)
\* restore_action of the menu needs an allowed plan, the restore button of
\* the GTK window a valid backup.
OpenRestore(s, by) ==
    /\ Free(s)
    /\ by = "tui" => Plan.allowed
    /\ by = "gtk" => mounted /\ image.state = "published"
    /\ Become(s, [op |-> "restore", pc |-> "opened", by |-> by])
    /\ UNCHANGED <<machine, image, promise, spent>>

\* The menu refreshes and goes on with whatever plan it then has; the GTK
\* worker runs check-restore and looks only at "validation" before it takes
\* over the plan's mode.
TakePlan(s) ==
    /\ At(s, "restore", "opened")
    /\ IF job[s].by = "gtk" /\ ~Plan.valid
       THEN Become(s, Idle)
       ELSE Become(s, [op |-> "restore", pc |-> "planned", full |-> FALSE,
                       compatible |-> Plan.compatible])
    /\ UNCHANGED <<machine, image, promise, spent>>

\* run_restore.py: the flag is the operator's.
RunCommand(s, compatible) ==
    /\ Free(s)
    /\ Become(s, [op |-> "restore", pc |-> "planned", full |-> TRUE,
                  compatible |-> compatible])
    /\ UNCHANGED <<machine, image, promise, spent>>

\* authorize_restore_execution: the full hashes are read here.
Authorize(s) ==
    /\ At(s, "restore", "planned")
    /\ Become(s, IF Authorized(job[s].compatible)
                 THEN [job[s] EXCEPT !.pc = "authorized"] ELSE Idle)
    /\ UNCHANGED <<machine, image, promise, spent>>

\* build_execution_context discovers once more; execute validates again, the
\* helper's executor (prevalidated) without the hashes.
Resolve(s) ==
    /\ At(s, "restore", "authorized")
    /\ LET l == Layout
       IN  IF /\ l # NoLayout
              /\ IsMounted(l.recovery)
              /\ Validates(l, job[s].full, job[s].compatible)
           THEN Become(s, [op |-> "restore", pc |-> "resolved", target |-> l.windows.disk])
           ELSE Become(s, Idle)
    /\ UNCHANGED <<machine, image, promise, spent>>

\* _stage_partclone_windows, after the EFI and GPT snapshots.  The NTFS that
\* starts to appear has the size of the image.
StartWrite(s) ==
    /\ At(s, "restore", "resolved")
    /\ IF image.source = 0
       THEN Become(s, Idle) /\ UNCHANGED win
       ELSE /\ Become(s, [job[s] EXCEPT !.pc = "writing"])
            /\ win' = IF job[s].target = "home"
                      THEN [win EXCEPT !.ntfs = image.source] ELSE win
    /\ UNCHANGED <<os, reports, ident, usb, mounted, image, promise, spent>>

EndWrite(s) ==
    /\ At(s, "restore", "writing")
    /\ Become(s, Idle)
    /\ UNCHANGED <<machine, image, promise, spent>>

(***************************************************************************)
(* Partition preparation                                                   *)
(***************************************************************************)
\* plan-windows-extend, and the question the plan is put to the user with.
ShowExtend(s) ==
    /\ Free(s)
    /\ CanExtend
    /\ Become(s, [op |-> "extend", pc |-> "shown"])
    /\ UNCHANGED <<machine, image, promise, spent>>

\* run_windows_partition_extend plans anew.
PlanExtend(s) ==
    /\ At(s, "extend", "shown")
    /\ Become(s, IF CanExtend
                 THEN [op |-> "extend", pc |-> "planned", goal |-> Goal, need |-> image.source]
                 ELSE Idle)
    /\ UNCHANGED <<machine, image, promise, spent>>

\* The plan and the dump of the table are saved, then parted moves the end
\* and tells the kernel, which may not take it.
Resize(s) ==
    /\ At(s, "extend", "planned")
    /\ \E k \in {win.kernel, job[s].goal} :
          win' = [win EXCEPT !.table = job[s].goal, !.kernel = k]
    /\ Become(s, [job[s] EXCEPT !.pc = "resized"])
    /\ UNCHANGED <<os, reports, ident, usb, mounted, image, promise, spent>>

\* A step of the preparation fails: the answer is FAILED.
ExtendFails(s) ==
    /\ job[s].op = "extend" /\ job[s].pc \in {"planned", "resized"}
    /\ Become(s, Idle)
    /\ UNCHANGED <<machine, image, promise, spent>>

\* _settle_disk and the size the kernel shows: COMPLETED or PENDING_REBOOT.
\* The mutant trusts the table parted has written.
DetectedInTable(goal) == win'.table >= goal
Detected(goal) == win'.kernel >= goal
Settle(s) ==
    /\ At(s, "extend", "resized")
    /\ \E k \in {win.kernel, win.table} : win' = [win EXCEPT !.kernel = k]
    /\ promise' = [view |-> IF Detected(job[s].goal) THEN "kernel" ELSE "table",
                   need |-> job[s].need]
    /\ Become(s, Idle)
    /\ UNCHANGED <<os, reports, ident, usb, mounted, image, spent>>

(***************************************************************************)
(* Backup                                                                  *)
(***************************************************************************)
\* plan_backup_run.
PlanBackup(s) ==
    /\ Free(s)
    /\ Layout # NoLayout
    /\ ~Accessible(Layout)
    /\ \E answer \in [DOMAIN Probes -> 0..1], free \in {Unknown, 1, 2} :
          SpaceAdmits(answer, free)
    /\ Become(s, [op |-> "backup", pc |-> "planned"])
    /\ UNCHANGED <<machine, image, promise, spent>>

\* execute_backup_apply discovers again, mounts RECOVERY_IMAGE if it has to,
\* looks for a valid backup once more and sets the marker.
BeginBackup(s) ==
    /\ At(s, "backup", "planned")
    /\ IF Layout = NoLayout
       THEN Become(s, Idle) /\ UNCHANGED <<mounted, image>>
       ELSE /\ mounted' = TRUE
            /\ IF image.state = "published"
               THEN Become(s, Idle) /\ UNCHANGED image
               ELSE /\ image' = [image EXCEPT !.state = "incomplete"]
                    /\ Become(s, [op |-> "backup", pc |-> "copying",
                                  from |-> Layout.windows.disk,
                                  size |-> Layout.windows.size])
    /\ UNCHANGED <<os, win, reports, ident, usb, promise, spent>>

\* partclone.ntfs -c: the image says how large the NTFS is.
CopyWindows(s) ==
    /\ At(s, "backup", "copying")
    /\ image' = [image EXCEPT !.source = win.ntfs]
    /\ Become(s, [job[s] EXCEPT !.pc = "copied"])
    /\ UNCHANGED <<machine, promise, spent>>

\* The manifest: identifiers probed now, sizes from the discovery at the start.
Publish(s) ==
    /\ At(s, "backup", "copied")
    /\ IF image.state = "incomplete"
       THEN image' = [Taken EXCEPT !.device = <<"home", DiskId, job[s].size>>,
                                   !.source = image.source]
       ELSE UNCHANGED image
    /\ Become(s, Idle)
    /\ UNCHANGED <<machine, promise, spent>>

\* A helper dies, or its job fails, in the middle.
Dies(s) ==
    /\ job[s].pc \in {"authorized", "resolved", "copying", "copied", "writing"}
    /\ Become(s, Idle)
    /\ UNCHANGED <<machine, image, promise, spent>>

-----------------------------------------------------------------------------
(***************************************************************************)
(* Outside                                                                 *)
(***************************************************************************)
Spend == spent < Budget /\ spent' = spent + 1

\* A disk is plugged in or out while the recovery system runs.
Plug(stick) ==
    /\ os = "recovery" /\ usb = Unplugged /\ stick # {} /\ Spend
    /\ \E first, there \in BOOLEAN :
          usb' = [vols |-> stick, first |-> first, mounted |-> there /\ "image" \in stick]
    /\ UNCHANGED <<os, win, reports, ident, mounted, image, job, promise>>

Unplug ==
    /\ usb # Unplugged /\ usb' = Unplugged
    /\ UNCHANGED <<os, win, reports, ident, mounted, image, job, promise, spent>>

\* The backup is deleted (the operation is a job of the other interface), or
\* its files rot.
Delete ==
    /\ os = "recovery" /\ image # NoImage /\ image' = NoImage /\ Spend
    /\ UNCHANGED <<machine, job, promise>>

Rot ==
    /\ image.state = "published" /\ image.flaw = "no" /\ Spend
    /\ \E f \in {"hash", "manifest"} : image' = [image EXCEPT !.flaw = f]
    /\ UNCHANGED <<machine, job, promise>>

\* A restart: every job ends, the kernel reads the table, RECOVERY_IMAGE is
\* mounted or not.
Restart ==
    /\ IF os = "windows"
       THEN os' = "recovery" /\ UNCHANGED spent
       ELSE os' \in {"recovery", "windows"} /\ Spend
    /\ mounted' \in BOOLEAN
    /\ win' = [win EXCEPT !.kernel = win.table]
    /\ job' = [s \in Slots |-> Idle]
    /\ UNCHANGED <<reports, ident, usb, image, promise>>

\* Windows shrinks or grows its volume, NTFS first or last.
WindowsResizes ==
    /\ os = "windows" /\ win.fs = "ntfs" /\ Spend
    /\ \E size \in Sizes :
          /\ size # win.table
          /\ \E n \in {size, Min({win.ntfs, size})} :
                win' = [win EXCEPT !.table = size, !.kernel = size, !.ntfs = n]
    /\ promise' = NoPromise
    /\ UNCHANGED <<os, reports, ident, usb, mounted, image, job>>

ToggleBitLocker ==
    /\ os = "windows" /\ Spend
    /\ win' = [win EXCEPT !.fs = IF @ = "ntfs" THEN "BitLocker" ELSE "ntfs"]
    /\ UNCHANGED <<os, reports, ident, usb, mounted, image, job, promise>>

\* The disk is replaced by a copy with identifiers of its own.
CopyDisk ==
    /\ os = "windows" /\ ident = 1 /\ ident' = 2 /\ Spend
    /\ UNCHANGED <<os, win, reports, usb, mounted, image, job, promise>>

Outside == \/ \E stick \in Sticks : Plug(stick)
           \/ Unplug \/ Delete \/ Rot \/ Restart
           \/ WindowsResizes \/ ToggleBitLocker \/ CopyDisk

Step(s) ==
    \/ \E by \in {"tui", "gtk"} : OpenRestore(s, by)
    \/ TakePlan(s)
    \/ \E compatible \in BOOLEAN : RunCommand(s, compatible)
    \/ Authorize(s) \/ Resolve(s) \/ StartWrite(s) \/ EndWrite(s)
    \/ ShowExtend(s) \/ PlanExtend(s) \/ Resize(s) \/ ExtendFails(s) \/ Settle(s)
    \/ PlanBackup(s) \/ BeginBackup(s) \/ CopyWindows(s) \/ Publish(s)
    \/ Dies(s)

Next == (\E s \in Slots : Step(s)) \/ Outside

Spec == Init /\ [][Next]_vars

-----------------------------------------------------------------------------
(***************************************************************************)
(* Properties                                                              *)
(***************************************************************************)
\* Every size stays within the room in front of the next partition.
TypeOK ==
    /\ os \in {"recovery", "windows"}
    /\ win \in [fs : {"ntfs", "BitLocker"}, table : 1..Room, kernel : 1..Room, ntfs : 1..Room]
    /\ reports \in BOOLEAN /\ mounted \in BOOLEAN /\ ident \in 1..2
    /\ usb.vols \in Sticks \cup {{}}
    /\ image.state \in {"none", "incomplete", "published"}
    /\ image.flaw \in {"no", "type", "hash", "manifest"}
    /\ image.source \in 0..Room
    /\ \A s \in Slots : job[s].op \in {"none", "restore", "extend", "backup"}
    /\ promise \in [view : {"none", "table", "kernel"}, need : 0..Room]
    /\ spent \in 0..Budget

\* The NTFS of the machine never reaches beyond the partition, as the table
\* has it and as the kernel has it, whatever image is restored, whichever
\* preparation ran beside it and however late the kernel takes a new table.
FileSystemFits == win.ntfs <= win.table /\ win.ntfs <= win.kernel

\* Partclone is started only on the unencrypted Windows of the machine: no
\* disk plugged in between the discoveries becomes source or target, not even
\* when it holds the only NTFS because the machine's own is encrypted.
StaysOnHomeDisk ==
    [][\A s \in Slots :
          /\ job'[s].pc = "writing" /\ job[s].pc # "writing"
                => job[s].target = "home" /\ win.fs = "ntfs"
          /\ job'[s].pc = "copying" /\ job[s].pc # "copying"
                => job'[s].from = "home" /\ win.fs = "ntfs"]_vars

\* What a preparation answered holds for as long as the image and the
\* partition do: after COMPLETED the image fits now, after PENDING_REBOOT it
\* fits once the kernel has read the table.
PreparedIsEnough ==
    image.state = "published" /\ image.source = promise.need =>
        /\ promise.view = "kernel" => image.source <= win.kernel
        /\ promise.view # "none" => image.source <= win.table
=============================================================================
