----------------------- MODULE RecoverySessionProofs -----------------------
(***************************************************************************)
(* Theorems about the interface, its helpers and RECOVERY_IMAGE, for both  *)
(* interfaces and however often the interface dies and leaves its helper   *)
(* behind.                                                                 *)
(***************************************************************************)
EXTENDS RecoverySession, TLAPS

\* The operation a worker runs a command for.
OpOf(cmd) ==
    CASE cmd \in {"reset", "backup"} -> "backup"
      [] cmd \in {"check", "restore"} -> "restore"
      [] cmd \in {"delete", "local_delete"} -> "delete"
      [] OTHER -> cmd

\* The running interface and the jobs: only its own worker waits for its job,
\* no dialog is open meanwhile, and the interfaces to come have no job yet.
Linked ==
    /\ busy <=> worker # NoWorker
    /\ dialog # NoDialog => ~busy /\ dialog.op \in Ops
    /\ dialog.op = "reboot" => helper
    /\ dialog.page = 3 =>
          /\ kind = "tui" /\ dialog.op = "backup"
          /\ At(client, "reset", "end") /\ unit[client].out = "COMPLETED"
    /\ Running(client) => worker.stage \in Commands
    /\ worker.stage \in Commands =>
          unit[client].cmd = worker.stage /\ worker.op = OpOf(worker.stage)
    /\ worker.stage = "finalize" => worker.op = "backup"
    /\ worker.stage = "check" => kind = "gtk"
    /\ \A c \in Clients : c > client => unit[c] = NoUnit
    /\ kind = "tui" => client = 1
    /\ kind = "gtk" => helper

\* Which commands there are with and without the helper.
Commanded ==
    \A c \in Clients :
        /\ unit[c].step = "rw" => unit[c].cmd \in {"restore", "delete", "clear"}
        /\ helper => unit[c].cmd # "local_delete"
        /\ ~helper => unit[c].cmd \notin {"backup", "reset", "delete", "reboot"}

\* The lists are those of whole images, and no image is written while there
\* are lists of another: the marker is not even needed for that.
Volume ==
    /\ listed \in {"absent", "whole"}
    /\ helper /\ files = "torn" => listed = "absent"

\* A job that has completed, its remount to come or not.
Completed(j) == j.step \in {"ro", "end"} /\ j.out = "COMPLETED"

\* What the job of the running interface has reached and may rely on, while
\* those of dead interfaces go on removing files and markers.
Reached(j) ==
    /\ j.cmd = "reset" /\ (j.step = "mount" \/ Completed(j))
          => files = "absent" /\ listed = "absent"
    /\ j.cmd = "reset" /\ j.step \in {"umount", "mkfs"} => Meddled \/ ~ValidBackup
    /\ j.cmd = "backup" /\ j.step \in {"plan", "remount", "mark", "copy"}
          => files = "absent" /\ listed = "absent"
    /\ j.cmd = "backup" /\ j.step = "copying" => listed = "absent"
    /\ j.cmd = "backup" /\ j.step = "finalize" => files # "torn"
    /\ j.cmd = "backup" /\ j.step = "publish"
          => Meddled \/ (files # "absent" /\ listed # "absent")
    /\ j.cmd = "backup" /\ (j.step = "closeout" \/ Completed(j)) => Meddled \/ Verified
    /\ j.cmd = "restore" /\ j.step = "write" => helper \/ files = "whole"
    /\ j.cmd = "restore" /\ Completed(j) => windows = "restored"
    /\ j.cmd = "delete" /\ (j.step \in {"remove_state", "remove_lists"} \/ Completed(j))
          => Meddled \/ files = "absent"
    /\ j.cmd = "local_delete" /\ (j.step = "unstage" \/ Completed(j)) => files = "absent"

JobReached == Reached(unit[client])

\* What the interface has seen holds while it asks.
Looked ==
    /\ dialog.op = "backup" => Meddled \/ ~ValidBackup
    /\ kind = "tui" /\ ~busy /\ seen = "none" => ~ValidBackup

\* The text menu after the request of a reboot.  Until systemd has queued the
\* shutdown it waits for a helper that will succeed, or is on its way out; from
\* then on it may be anywhere, and gets nothing started.
Leaving ==
    kind = "tui" /\ rebooting # "no" =>
        /\ helper
        /\ Running(client) => At(client, "reboot", "exit")
        /\ rebooting = "asked" =>
              /\ dialog = NoDialog
              /\ \/ /\ worker.op = "reboot" /\ worker.stage = "reboot"
                    /\ Running(client) \/ unit[client].out = "COMPLETED"
                 \/ worker.op = "reboot" /\ worker.stage = "ok"
                 \/ worker = NoWorker /\ told = [op |-> "reboot", ok |-> TRUE]

SessionInv ==
    /\ TypeOK
    /\ Linked /\ Commanded /\ Volume
    /\ JobReached /\ Looked /\ NoFalseSuccess /\ Leaving

-----------------------------------------------------------------------------
(***************************************************************************)
(* Steps of a job.                                                         *)
(***************************************************************************)
Units == [cmd : Commands \cup {"none"}, step : UnitSteps, out : Payloads]

\* Job c goes on with step s and payload o.
Moved(c, s, o) ==
    /\ unit' \in [Clients -> Units]
    /\ unit'[c].cmd = unit[c].cmd /\ unit'[c].step = s /\ unit'[c].out = o
    /\ \A d \in Clients \ {c} : unit'[d] = unit[d]

LEMMA MovesOut ==
    ASSUME TypeOK, NEW c \in Clients, NEW STATE s, s \in UnitSteps, NEW STATE o, o \in Payloads,
           unit' = [unit EXCEPT ![c].step = s, ![c].out = o]
    PROVE  Moved(c, s, o)
  BY DEF TypeOK, Moved, Units

LEMMA MovesOn ==
    ASSUME TypeOK, NEW c \in Clients, NEW STATE s, s \in UnitSteps, Goto(c, s)
    PROVE  Moved(c, s, unit[c].out) /\ unit[c].out \in Payloads
  BY DEF TypeOK, Moved, Units, Goto

MachineTyped ==
    /\ {files, listed, staged} \subseteq Content
    /\ marker \in BOOLEAN /\ rebooting \in Reboots
    /\ mount \in {"none", "ro", "rw"}
    /\ windows \in {"original", "torn", "restored"}

LEMMA ClientsTyped == Starts \in Nat \ {0} /\ Clients \subseteq Nat /\ 1 \in Clients
  BY StartsAssumption DEF Clients

\* A running job is that of the running interface, which then waits for it,
\* or of a dead one, which then is no text menu.
LEMMA WhoRuns ==
    ASSUME SessionInv, NEW c \in Clients, Running(c)
    PROVE  /\ c = client =>
                 /\ worker.stage \in Commands /\ busy /\ dialog = NoDialog
                 /\ unit[c].cmd = worker.stage /\ worker.op = OpOf(worker.stage)
                 /\ kind = "tui" /\ rebooting # "no" => At(c, "reboot", "exit")
           /\ c # client => kind = "gtk" /\ helper /\ c < client
<1>1. client \in Clients /\ client \in Nat /\ c \in Nat /\ kind \in {"gtk", "tui"}
  BY ClientsTyped, KindsAssumption DEF SessionInv, TypeOK
<1>2. unit[c].step # "end" /\ NoUnit.step = "end"
  BY DEF Running, NoUnit
<1>3. CASE c = client
  <2>1. worker.stage \in Commands
    BY <1>3 DEF SessionInv, Linked
  <2>2. worker # NoWorker /\ worker.stage # "ok"
    BY <2>1 DEF NoWorker, Commands
  <2>3. busy /\ dialog = NoDialog
    BY <2>2 DEF SessionInv, Linked
  <2>4. kind = "tui" /\ rebooting # "no" => At(c, "reboot", "exit")
    BY <1>3 DEF SessionInv, Leaving
  <2> QED
    BY <1>3, <2>1, <2>3, <2>4 DEF SessionInv, Linked
<1>4. CASE c # client
  <2>1. ~(c > client)
    BY <1>2 DEF SessionInv, Linked
  <2>2. c < client /\ c >= 1
    BY <1>1, <1>4, <2>1 DEF Clients
  <2>3. client # 1
    BY <1>1, <2>2
  <2> QED
    BY <1>1, <1>4, <2>2, <2>3 DEF SessionInv, Linked
<1> QED
  BY <1>3, <1>4

\* What every step of a job leaves as it is between the interface and the
\* jobs.
LEMMA JobLinks ==
    ASSUME SessionInv, NEW c \in Clients, Running(c),
           NEW STATE s, s # "rw", NEW STATE o, Moved(c, s, o),
           UNCHANGED <<uiVars, fixedVars>>
    PROVE  Linked' /\ Commanded' /\ Meddled' = Meddled
<1>1. client' = client /\ client \in Clients /\ worker' = worker /\ busy' = busy
      /\ dialog' = dialog /\ kind' = kind /\ helper' = helper
  BY DEF uiVars, fixedVars, SessionInv, TypeOK
<1>2. \A d \in Clients : unit'[d].cmd = unit[d].cmd
  BY DEF Moved
<1>3. unit[c].step # "end" /\ NoUnit.step = "end"
  BY DEF Running, NoUnit
<1>4. Running(client)' => worker.stage \in Commands
  <2>1. CASE c = client
    BY <2>1, WhoRuns
  <2>2. CASE c # client
    BY <1>1, <2>2 DEF Moved, Running, SessionInv, Linked
  <2> QED
    BY <2>1, <2>2
<1>5. dialog.page = 3 =>
          /\ kind = "tui" /\ dialog.op = "backup"
          /\ At(client, "reset", "end")' /\ unit'[client].out = "COMPLETED"
  <2>1. dialog.page = 3 => unit'[client] = unit[client]
    BY <1>1, <1>3 DEF Moved, SessionInv, Linked, At
  <2> QED
    BY <1>1, <2>1 DEF SessionInv, Linked, At
<1>6. \A d \in Clients : d > client => unit'[d] = NoUnit
  BY <1>1, <1>3 DEF Moved, SessionInv, Linked
<1>7. Linked'
  BY <1>1, <1>2, <1>4, <1>5, <1>6 DEF SessionInv, Linked
<1>8. Commanded'
  BY <1>1, <1>2 DEF Moved, SessionInv, Commanded
<1>9. Meddled' = Meddled
  BY <1>1, <1>2 DEF Meddled
<1> QED
  BY <1>7, <1>8, <1>9

\* A dead interface's job removes files at most.
Removes ==
    /\ files' \in {files, "absent"} /\ listed' \in {listed, "absent"}
    /\ windows' = windows
    /\ Meddled \/ UNCHANGED volumeVars

LEMMA JobKeeps ==
    ASSUME SessionInv, NEW c \in Clients, Running(c),
           NEW STATE s, s # "rw", NEW STATE o, Moved(c, s, o),
           UNCHANGED <<uiVars, fixedVars>>, MachineTyped',
           c # client => Removes,
           c = client => Volume' /\ JobReached',
           rebooting' = rebooting \/ (unit[c].cmd = "reboot" /\ s = "exit"),
           unit[c].cmd = "reboot" /\ unit[c].step = "exit"
               => s = "end" /\ (o = "COMPLETED" \/ rebooting = "queued")
    PROVE  SessionInv'
<1>1. Linked' /\ Commanded' /\ Meddled' = Meddled
  BY JobLinks
<1>2. /\ client' = client /\ client \in Clients /\ worker' = worker /\ busy' = busy
      /\ dialog' = dialog /\ kind' = kind /\ helper' = helper /\ seen' = seen /\ told' = told
  BY DEF uiVars, fixedVars, SessionInv, TypeOK
<1>3. TypeOK'
  BY <1>2 DEF SessionInv, TypeOK, MachineTyped, Moved, Units
<1>4. CASE c # client
  <2>1. Removes /\ kind = "gtk" /\ helper /\ unit'[client] = unit[client]
    BY <1>2, <1>4, WhoRuns DEF Moved
  <2>2. Volume'
    BY <1>2, <2>1 DEF SessionInv, Volume, Removes
  <2>3. ~Meddled => UNCHANGED volumeVars
    BY <2>1 DEF Removes
  <2>4. ~Meddled => (ValidBackup' = ValidBackup /\ Verified' = Verified)
    BY <2>3 DEF volumeVars, ValidBackup, Verified
  <2>5. JobReached'
    <3>1. Reached(unit[client])
      BY DEF SessionInv, JobReached
    <3> QED
      BY <1>1, <1>2, <2>1, <2>3, <2>4, <3>1
         DEF JobReached, Reached, Completed, Removes, volumeVars
  <2>6. Looked'
    BY <1>1, <1>2, <2>1, <2>4 DEF SessionInv, Looked
  <2>7. NoFalseSuccess'
    BY <1>1, <1>2, <2>1, <2>4 DEF SessionInv, NoFalseSuccess, Removes
  <2>8. Leaving'
    BY <1>2, <2>1 DEF Leaving
  <2> QED
    BY <1>1, <1>3, <2>2, <2>5, <2>6, <2>7, <2>8 DEF SessionInv
<1>5. CASE c = client
  <2>1. /\ worker.stage \in Commands /\ busy /\ dialog = NoDialog
        /\ unit[c].cmd = worker.stage /\ worker.op = OpOf(worker.stage)
        /\ kind = "tui" /\ rebooting # "no" => At(c, "reboot", "exit")
    BY <1>5, WhoRuns
  <2>2. Looked'
    BY <1>2, <2>1 DEF Looked, NoDialog
  <2>3. NoFalseSuccess'
    BY <1>2, <2>1 DEF NoFalseSuccess, Commands
  <2>4. Leaving'
    <3>1. /\ unit'[client].cmd = unit[c].cmd /\ unit'[client].step = s
          /\ unit'[client].out = o
      BY <1>5 DEF Moved
    <3>2. CASE unit[c].cmd = "reboot" /\ s = "exit"
      <4>1. helper /\ worker.op = "reboot" /\ worker.stage = "reboot"
        BY <2>1, <3>2 DEF SessionInv, TypeOK, Commanded, OpOf
      <4> QED
        BY <1>2, <2>1, <3>1, <3>2, <4>1 DEF Leaving, Running, At
    <3>3. CASE rebooting' = rebooting /\ kind = "tui" /\ rebooting # "no"
      <4>1. unit[c].cmd = "reboot" /\ s = "end" /\ (o = "COMPLETED" \/ rebooting = "queued")
        BY <2>1, <3>3 DEF At
      <4>2. helper /\ worker.op = "reboot" /\ worker.stage = "reboot"
        BY <2>1, <3>3, <4>1 DEF SessionInv, Leaving, OpOf
      <4> QED
        BY <1>2, <2>1, <3>1, <3>3, <4>1, <4>2 DEF Leaving, Running
    <3> QED
      BY <1>2, <3>2, <3>3 DEF Leaving
  <2> QED
    BY <1>1, <1>3, <1>5, <2>2, <2>3, <2>4 DEF SessionInv
<1> QED
  BY <1>4, <1>5

\* Steps that change neither the files nor Windows.
LEMMA QuietJob ==
    ASSUME SessionInv, NEW c \in Clients, Running(c),
           NEW STATE s, s # "rw", NEW STATE o, Moved(c, s, o),
           UNCHANGED <<uiVars, fixedVars>>, UNCHANGED <<volumeVars, windows>>,
           mount' \in {"none", "ro", "rw"},
           rebooting' = rebooting \/ (unit[c].cmd = "reboot" /\ s = "exit"),
           unit[c].cmd = "reboot" /\ unit[c].step = "exit"
               => s = "end" /\ (o = "COMPLETED" \/ rebooting = "queued"),
           rebooting' \in Reboots,
           c = client => Reached(unit'[c])
    PROVE  SessionInv'
<1>1. /\ UNCHANGED <<files, listed, marker, staged, windows, client, helper>>
      /\ Meddled' = Meddled
  BY JobLinks DEF volumeVars, uiVars, fixedVars
<1>2. MachineTyped'
  BY <1>1 DEF MachineTyped, SessionInv, TypeOK
<1>3. c # client => Removes
  BY <1>1 DEF Removes, volumeVars
<1>4. Volume'
  BY <1>1 DEF SessionInv, Volume
<1>5. c = client => JobReached'
  BY <1>1 DEF JobReached, Reached, Completed, ValidBackup, Verified
<1> QED
  BY <1>2, <1>3, <1>4, <1>5, JobKeeps

LEMMA Types ==
    ASSUME SessionInv
    PROVE  /\ TypeOK /\ mount \in {"none", "ro", "rw"} /\ rebooting \in Reboots
           /\ files \in Content /\ listed \in {"absent", "whole"} /\ staged \in Content
           /\ marker \in BOOLEAN /\ windows \in {"original", "torn", "restored"}
           /\ helper \in BOOLEAN /\ kind \in {"gtk", "tui"} /\ client \in Clients
           /\ unit \in [Clients -> Units]
           /\ MachineTyped
           /\ Reached(unit[client])
  BY KindsAssumption DEF SessionInv, TypeOK, Volume, Content, Units, MachineTyped, JobReached

LEMMA StepNames ==
    {"end", "umount", "mkfs", "mount", "erase",
     "plan", "remount", "mark", "copy", "copying", "finalize", "publish",
     "closeout", "mark_failed", "validate", "rw", "authorize", "write",
     "writing", "remove", "remove_state", "remove_lists", "save", "ro",
     "bootnext", "popen", "exit", "stage", "staging", "drop", "unstage", "rollback"}
        \subseteq UnitSteps /\ {"none", "COMPLETED", "FAILED", "BLOCKED"} \subseteq Payloads
  BY DEF UnitSteps, Payloads

\* The job of the reset: whatever is on the volume goes.
LEMMA ResetUnmountStep ==
    ASSUME SessionInv, NEW c \in Clients, ResetUnmount(c), UNCHANGED fixedVars
    PROVE  SessionInv'
<1>1. /\ unit[c].cmd = "reset" /\ unit[c].step = "umount" /\ Running(c)
      /\ mount' \in {"none", "ro", "rw"} /\ rebooting' = rebooting
      /\ UNCHANGED <<uiVars, fixedVars>> /\ UNCHANGED <<volumeVars, windows>>
  BY DEF ResetUnmount, At, Running
<1>2. ASSUME NEW s \in {"mkfs", "erase"}, Goto(c, s)
      PROVE  SessionInv'
  <2>1. Moved(c, s, unit[c].out)
    BY <1>2, MovesOn, StepNames, Types
  <2>2. c = client => Reached(unit'[c])
    BY <1>1, <2>1, Types DEF Moved, Reached, Completed
  <2> QED
    BY <1>1, <2>1, <2>2, QuietJob, Types
<1> QED
  BY <1>2 DEF ResetUnmount

LEMMA ResetMkfsStep ==
    ASSUME SessionInv, NEW c \in Clients, ResetMkfs(c), UNCHANGED fixedVars
    PROVE  SessionInv'
<1>1. /\ unit[c].cmd = "reset" /\ unit[c].step = "mkfs" /\ Running(c)
      /\ files' = "absent" /\ listed' = "absent" /\ staged' = "absent" /\ marker' = FALSE
      /\ UNCHANGED <<uiVars, fixedVars>> /\ UNCHANGED <<mount, windows, rebooting>>
  BY DEF ResetMkfs, At, Running
<1>2. Moved(c, "mount", unit[c].out)
  BY MovesOn, StepNames, Types DEF ResetMkfs
<1>3. MachineTyped'
  BY <1>1, Types DEF MachineTyped, Content
<1>4. c # client => Removes
  BY <1>1 DEF Removes, Meddled
<1>5. Volume'
  BY <1>1 DEF Volume
<1>6. c = client => JobReached'
  BY <1>1, <1>2 DEF JobReached, Reached, Completed, Moved, uiVars
<1> QED
  BY <1>1, <1>2, <1>3, <1>4, <1>5, <1>6, JobKeeps

LEMMA ResetMountStep ==
    ASSUME SessionInv, NEW c \in Clients, ResetMount(c), UNCHANGED fixedVars
    PROVE  SessionInv'
<1>1. /\ unit[c].cmd = "reset" /\ unit[c].step = "mount" /\ Running(c)
      /\ mount' = "rw" /\ UNCHANGED <<uiVars, fixedVars>>
      /\ UNCHANGED <<volumeVars, windows>> /\ rebooting' = rebooting
  BY DEF ResetMount, At, Running
<1>2. Moved(c, "end", "COMPLETED")
  BY MovesOut, StepNames, Types DEF ResetMount, Exit
<1>3. c = client => Reached(unit'[c])
  BY <1>1, <1>2, Types DEF Moved, Reached, Completed
<1> QED
  BY <1>1, <1>2, <1>3, QuietJob, Types

LEMMA ResetEraseStep ==
    ASSUME SessionInv, NEW c \in Clients, ResetErase(c), UNCHANGED fixedVars
    PROVE  SessionInv'
<1>1. /\ unit[c].cmd = "reset" /\ unit[c].step = "erase" /\ Running(c)
      /\ UNCHANGED <<uiVars, fixedVars>> /\ UNCHANGED <<mount, windows, rebooting>>
      /\ files' \in {files, "absent"} /\ listed' \in {listed, "absent"}
      /\ staged' \in {staged, "absent"} /\ marker' \in {marker, FALSE}
  BY DEF ResetErase, At, Running, volumeVars
<1>2. MachineTyped' /\ Volume'
  <2>1. files' \in Content /\ listed' \in Content /\ staged' \in Content
    BY <1>1, Types DEF Content
  <2>2. marker' \in BOOLEAN
    BY <1>1, Types
  <2>3. MachineTyped'
    BY <1>1, <2>1, <2>2, Types DEF MachineTyped
  <2>4. Volume'
    BY <1>1 DEF SessionInv, Volume, fixedVars
  <2> QED
    BY <2>3, <2>4
<1>3. c # client => Removes
  BY <1>1 DEF Removes, Meddled
<1>4. CASE unit' = unit
  <2>1. Moved(c, "erase", unit[c].out)
    BY <1>1, <1>4, Types DEF Moved
  <2>2. c = client => JobReached'
    BY <1>1, <1>4 DEF JobReached, Reached, Completed, uiVars
  <2> QED
    BY <1>1, <1>2, <1>3, <2>1, <2>2, JobKeeps
<1>5. CASE {files, listed, staged} = {"absent"} /\ Exit(c, "COMPLETED") /\ UNCHANGED volumeVars
  <2>1. Moved(c, "end", "COMPLETED")
    BY <1>5, MovesOut, StepNames, Types DEF Exit
  <2>2. files' = "absent" /\ listed' = "absent"
    BY <1>5 DEF volumeVars
  <2>3. c = client => JobReached'
    BY <1>1, <2>1, <2>2 DEF JobReached, Reached, Completed, Moved, uiVars
  <2> QED
    BY <1>1, <1>2, <1>3, <2>1, <2>3, JobKeeps
<1> QED
  BY <1>4, <1>5 DEF ResetErase

\* The job of the backup.  Only that of the running interface can write an
\* image or its lists: the others cannot print.
LEMMA BackupPlanStep ==
    ASSUME SessionInv, NEW c \in Clients, BackupPlan(c), UNCHANGED fixedVars
    PROVE  SessionInv'
<1>1. /\ unit[c].cmd = "backup" /\ unit[c].step = "plan" /\ Running(c)
      /\ UNCHANGED <<uiVars, fixedVars>> /\ UNCHANGED <<volumeVars, windows>>
      /\ mount' = mount /\ rebooting' = rebooting
  BY DEF BackupPlan, At, Running, machineVars
<1>2. CASE Exit(c, "BLOCKED")
  <2>1. Moved(c, "end", "BLOCKED")
    BY <1>2, MovesOut, StepNames, Types DEF Exit
  <2>2. c = client => Reached(unit'[c])
    BY <1>1, <2>1 DEF Moved, Reached, Completed
  <2> QED
    BY <1>1, <2>1, <2>2, QuietJob, Types
<1>3. CASE Goto(c, "remount")
  <2>1. Moved(c, "remount", unit[c].out)
    BY <1>3, MovesOn, StepNames, Types
  <2>2. c = client => Reached(unit'[c])
    BY <1>1, <2>1, Types DEF Moved, Reached, Completed
  <2> QED
    BY <1>1, <2>1, <2>2, QuietJob, Types
<1> QED
  BY <1>2, <1>3 DEF BackupPlan

LEMMA BackupRemountStep ==
    ASSUME SessionInv, NEW c \in Clients, BackupRemount(c), UNCHANGED fixedVars
    PROVE  SessionInv'
<1>1. /\ unit[c].cmd = "backup" /\ unit[c].step = "remount" /\ Running(c)
      /\ UNCHANGED <<uiVars, fixedVars>> /\ UNCHANGED <<volumeVars, windows>>
      /\ mount' = "rw" /\ rebooting' = rebooting
  BY DEF BackupRemount, At, Running
<1>2. CASE Exit(c, "BLOCKED")
  <2>1. Moved(c, "end", "BLOCKED")
    BY <1>2, MovesOut, StepNames, Types DEF Exit
  <2>2. c = client => Reached(unit'[c])
    BY <1>1, <2>1 DEF Moved, Reached, Completed
  <2> QED
    BY <1>1, <2>1, <2>2, QuietJob, Types
<1>3. CASE Goto(c, "mark")
  <2>1. Moved(c, "mark", unit[c].out)
    BY <1>3, MovesOn, StepNames, Types
  <2>2. c = client => Reached(unit'[c])
    BY <1>1, <2>1, Types DEF Moved, Reached, Completed
  <2> QED
    BY <1>1, <2>1, <2>2, QuietJob, Types
<1> QED
  BY <1>2, <1>3 DEF BackupRemount

LEMMA BackupMarkStep ==
    ASSUME SessionInv, NEW c \in Clients, BackupMark(c), UNCHANGED fixedVars
    PROVE  SessionInv'
<1>1. /\ unit[c].cmd = "backup" /\ unit[c].step = "mark" /\ Running(c)
      /\ marker' = TRUE /\ UNCHANGED <<uiVars, fixedVars>>
      /\ UNCHANGED <<files, listed, staged, mount, windows, rebooting>>
  BY DEF BackupMark, At, Running
<1>2. Moved(c, "copy", unit[c].out)
  BY MovesOn, StepNames, Types DEF BackupMark
<1>3. MachineTyped' /\ Volume'
  BY <1>1, Types DEF MachineTyped, SessionInv, Volume, fixedVars
<1>4. c # client => Removes
  BY <1>1 DEF Removes, Meddled
<1>5. c = client => JobReached'
  BY <1>1, <1>2, Types DEF JobReached, Reached, Completed, Moved, uiVars
<1> QED
  BY <1>1, <1>2, <1>3, <1>4, <1>5, JobKeeps

LEMMA BackupCopyStep ==
    ASSUME SessionInv, NEW c \in Clients, BackupCopy(c), UNCHANGED fixedVars
    PROVE  SessionInv'
<1>1. /\ unit[c].cmd = "backup" /\ unit[c].step = "copy" /\ Running(c) /\ c = client
      /\ files' = "torn" /\ UNCHANGED <<uiVars, fixedVars>>
      /\ UNCHANGED <<listed, marker, staged, mount, windows, rebooting>>
  BY DEF BackupCopy, At, Running, Heard
<1>2. Moved(c, "copying", unit[c].out)
  BY MovesOn, StepNames, Types DEF BackupCopy
<1>3. listed = "absent"
  BY <1>1, Types DEF Reached
<1>4. MachineTyped' /\ Volume'
  BY <1>1, <1>3, Types DEF MachineTyped, Content, Volume
<1>5. JobReached'
  BY <1>1, <1>2, <1>3 DEF JobReached, Reached, Completed, Moved, uiVars
<1> QED
  BY <1>1, <1>2, <1>4, <1>5, JobKeeps

LEMMA BackupCopiedStep ==
    ASSUME SessionInv, NEW c \in Clients, BackupCopied(c), UNCHANGED fixedVars
    PROVE  SessionInv'
<1>1. /\ unit[c].cmd = "backup" /\ unit[c].step = "copying" /\ Running(c) /\ c = client
      /\ files' = "whole" /\ UNCHANGED <<uiVars, fixedVars>>
      /\ UNCHANGED <<listed, marker, staged, mount, windows, rebooting>>
  BY DEF BackupCopied, At, Running, Heard
<1>2. Moved(c, "finalize", unit[c].out)
  BY MovesOn, StepNames, Types DEF BackupCopied
<1>3. MachineTyped' /\ Volume'
  BY <1>1, Types DEF MachineTyped, Content, Volume
<1>4. JobReached'
  BY <1>1, <1>2 DEF JobReached, Reached, Completed, Moved, uiVars
<1> QED
  BY <1>1, <1>2, <1>3, <1>4, JobKeeps

LEMMA BackupFinalizeStep ==
    ASSUME SessionInv, NEW c \in Clients, BackupFinalize(c), UNCHANGED fixedVars
    PROVE  SessionInv'
<1>1. /\ unit[c].cmd = "backup" /\ unit[c].step = "finalize" /\ Running(c) /\ c = client
      /\ files # "absent" /\ listed' = files /\ UNCHANGED <<uiVars, fixedVars>>
      /\ UNCHANGED <<files, marker, staged, mount, windows, rebooting>>
  BY DEF BackupFinalize, At, Running, Heard
<1>2. Moved(c, "publish", unit[c].out)
  BY MovesOn, StepNames, Types DEF BackupFinalize
<1>3. files = "whole"
  BY <1>1, Types DEF Reached, Content
<1>4. MachineTyped' /\ Volume'
  BY <1>1, <1>3, Types DEF MachineTyped, Content, Volume
<1>5. JobReached'
  BY <1>1, <1>2, <1>3 DEF JobReached, Reached, Completed, Moved, uiVars
<1> QED
  BY <1>1, <1>2, <1>4, <1>5, JobKeeps

LEMMA BackupPublishStep ==
    ASSUME SessionInv, NEW c \in Clients, BackupPublish(c), UNCHANGED fixedVars
    PROVE  SessionInv'
<1>1. /\ unit[c].cmd = "backup" /\ unit[c].step = "publish" /\ Running(c)
      /\ files = listed /\ marker' = FALSE /\ UNCHANGED <<uiVars, fixedVars>>
      /\ UNCHANGED <<files, listed, staged, mount, windows, rebooting>>
  BY DEF BackupPublish, At, Running
<1>2. Moved(c, "closeout", unit[c].out)
  BY MovesOn, StepNames, Types DEF BackupPublish
<1>3. MachineTyped' /\ Volume'
  BY <1>1, Types DEF MachineTyped, SessionInv, Volume, fixedVars
<1>4. c # client => Removes
  BY <1>1 DEF Removes, Meddled
<1>5. ASSUME c = client
      PROVE  JobReached'
  <2>1. Meddled' = Meddled
    BY <1>1, <1>2, JobLinks
  <2>2. Meddled \/ (files # "absent" /\ listed # "absent")
    BY <1>1, <1>5, Types DEF Reached
  <2>3. Meddled' \/ Verified'
    BY <1>1, <2>1, <2>2 DEF Verified, ValidBackup
  <2> QED
    BY <1>1, <1>2, <1>5, <2>3 DEF JobReached, Reached, Completed, Moved, uiVars
<1> QED
  BY <1>1, <1>2, <1>3, <1>4, <1>5, JobKeeps

LEMMA BackupCloseoutStep ==
    ASSUME SessionInv, NEW c \in Clients, BackupCloseout(c), UNCHANGED fixedVars
    PROVE  SessionInv'
<1>1. /\ unit[c].cmd = "backup" /\ unit[c].step = "closeout" /\ Running(c)
      /\ UNCHANGED <<uiVars, fixedVars>> /\ UNCHANGED <<volumeVars, windows>>
      /\ mount' = mount /\ rebooting' = rebooting
  BY DEF BackupCloseout, At, Running, machineVars
<1>2. Moved(c, "end", "COMPLETED")
  BY MovesOut, StepNames, Types DEF BackupCloseout, Exit
<1>3. c = client => Reached(unit'[c])
  BY <1>1, <1>2, Types DEF Moved, Reached, Completed
<1> QED
  BY <1>1, <1>2, <1>3, QuietJob, Types

LEMMA BackupMarkFailedStep ==
    ASSUME SessionInv, NEW c \in Clients, BackupMarkFailed(c), UNCHANGED fixedVars
    PROVE  SessionInv'
<1>1. /\ unit[c].cmd = "backup" /\ unit[c].step = "mark_failed" /\ Running(c)
      /\ marker' = (marker \/ Writable) /\ UNCHANGED <<uiVars, fixedVars>>
      /\ UNCHANGED <<files, listed, staged, mount, windows, rebooting>>
  BY DEF BackupMarkFailed, At, Running
<1>2. Moved(c, "end", "FAILED")
  BY MovesOut, StepNames, Types DEF BackupMarkFailed, Exit
<1>3. marker' \in BOOLEAN
  BY <1>1, Types DEF Writable
<1>4. MachineTyped' /\ Volume'
  BY <1>1, <1>3, Types DEF MachineTyped, SessionInv, Volume, fixedVars
<1>5. c # client => Removes
  BY <1>1 DEF Removes, Meddled
<1>6. c = client => JobReached'
  BY <1>1, <1>2 DEF JobReached, Reached, Completed, Moved, uiVars
<1> QED
  BY <1>1, <1>2, <1>4, <1>5, <1>6, JobKeeps

\* check-restore, the remounts around the other jobs, and a job that fails.
LEMMA CheckRestoreStep ==
    ASSUME SessionInv, NEW c \in Clients, CheckRestore(c), UNCHANGED fixedVars
    PROVE  SessionInv'
<1>1. /\ unit[c].cmd = "check" /\ unit[c].step = "validate" /\ Running(c)
      /\ UNCHANGED <<uiVars, fixedVars>> /\ UNCHANGED <<volumeVars, windows>>
      /\ mount' = mount /\ rebooting' = rebooting
  BY DEF CheckRestore, At, Running, machineVars
<1>2. ASSUME NEW o \in {"COMPLETED", "BLOCKED"}, Exit(c, o)
      PROVE  SessionInv'
  <2>1. Moved(c, "end", o)
    BY <1>2, MovesOut, StepNames, Types DEF Exit
  <2>2. c = client => Reached(unit'[c])
    BY <1>1, <2>1 DEF Moved, Reached, Completed
  <2> QED
    BY <1>1, <2>1, <2>2, QuietJob, Types
<1> QED
  BY <1>2 DEF CheckRestore

LEMMA RemountRwStep ==
    ASSUME SessionInv, NEW c \in Clients, RemountRw(c), UNCHANGED fixedVars
    PROVE  SessionInv'
<1>1. /\ unit[c].step = "rw" /\ Running(c) /\ UNCHANGED <<uiVars, fixedVars>>
      /\ UNCHANGED <<volumeVars, windows>> /\ mount' = "rw" /\ rebooting' = rebooting
  BY DEF RemountRw, Running
<1>2. unit[c].cmd \in {"restore", "delete", "clear"}
  BY <1>1 DEF SessionInv, Commanded
<1>3. FirstStep[unit[c].cmd] \in {"authorize", "remove", "save"}
  BY <1>2 DEF FirstStep
<1>4. Moved(c, FirstStep[unit[c].cmd], unit[c].out)
  BY <1>3, MovesOn, StepNames, Types DEF RemountRw
<1>5. c = client => Reached(unit'[c])
  BY <1>2, <1>3, <1>4 DEF Moved, Reached, Completed
<1> QED
  BY <1>1, <1>3, <1>4, <1>5, QuietJob, Types

LEMMA RemountRoStep ==
    ASSUME SessionInv, NEW c \in Clients, RemountRo(c), UNCHANGED fixedVars
    PROVE  SessionInv'
<1>1. /\ unit[c].step = "ro" /\ Running(c) /\ UNCHANGED <<uiVars, fixedVars>>
      /\ UNCHANGED <<volumeVars, windows>> /\ mount' \in {"ro", mount}
      /\ rebooting' = rebooting
  BY DEF RemountRo, Running
<1>2. Moved(c, "end", unit[c].out)
  BY MovesOn, StepNames, Types DEF RemountRo
<1>3. c = client => Reached(unit'[c])
  BY <1>1, <1>2, Types DEF Moved, Reached, Completed
<1> QED
  BY <1>1, <1>2, <1>3, QuietJob, Types

LEMMA JobRaisesStep ==
    ASSUME SessionInv, NEW c \in Clients, JobRaises(c), UNCHANGED fixedVars
    PROVE  SessionInv'
<1>1. /\ Running(c) /\ unit[c].step # "exit" /\ UNCHANGED <<uiVars, fixedVars>>
      /\ UNCHANGED <<volumeVars, windows>> /\ mount' = mount /\ rebooting' = rebooting
  BY DEF JobRaises, Running, machineVars
<1>2. Handler(c) \in {"mark_failed", "rollback", "ro", "end"}
  BY DEF Handler
<1>3. Moved(c, Handler(c), "FAILED")
  BY <1>2, MovesOut, StepNames, Types DEF JobRaises
<1>4. c = client => Reached(unit'[c])
  BY <1>2, <1>3 DEF Moved, Reached, Completed
<1> QED
  BY <1>1, <1>2, <1>3, <1>4, QuietJob, Types

LEMMA ClearLockStep ==
    ASSUME SessionInv, NEW c \in Clients, ClearLock(c), UNCHANGED fixedVars
    PROVE  SessionInv'
<1>1. /\ unit[c].cmd = "clear" /\ unit[c].step = "save" /\ Running(c)
      /\ UNCHANGED <<uiVars, fixedVars>> /\ UNCHANGED <<volumeVars, windows>>
      /\ mount' = mount /\ rebooting' = rebooting
  BY DEF ClearLock, At, Running, machineVars
<1> DEFINE s == IF helper THEN "ro" ELSE "end"
<1>2. s \in {"ro", "end"}
  OBVIOUS
<1>3. Moved(c, s, "COMPLETED")
  BY MovesOut, StepNames, Types DEF ClearLock, Leave
<1> HIDE DEF s
<1>4. c = client => Reached(unit'[c])
  BY <1>1, <1>2, <1>3 DEF Moved, Reached, Completed
<1> QED
  BY <1>1, <1>2, <1>3, <1>4, QuietJob, Types

\* The job of the restore.
LEMMA RestoreAuthorizeStep ==
    ASSUME SessionInv, NEW c \in Clients, RestoreAuthorize(c), UNCHANGED fixedVars
    PROVE  SessionInv'
<1>1. /\ unit[c].cmd = "restore" /\ unit[c].step = "authorize" /\ Running(c)
      /\ UNCHANGED <<uiVars, fixedVars>> /\ UNCHANGED <<volumeVars, windows>>
      /\ mount' = mount /\ rebooting' = rebooting
  BY DEF RestoreAuthorize, At, Running, machineVars
<1>2. CASE Verified /\ Goto(c, "write")
  <2>1. Moved(c, "write", unit[c].out)
    BY <1>2, MovesOn, StepNames, Types
  <2>2. files = "whole"
    BY <1>2, Types DEF Verified, ValidBackup
  <2>3. c = client => Reached(unit'[c])
    BY <1>1, <2>1, <2>2 DEF Moved, Reached, Completed
  <2> QED
    BY <1>1, <2>1, <2>3, QuietJob, Types
<1>3. CASE Leave(c, "FAILED")
  <2> DEFINE s == IF helper THEN "ro" ELSE "end"
  <2>1. s \in {"ro", "end"}
    OBVIOUS
  <2>2. Moved(c, s, "FAILED")
    BY <1>3, MovesOut, StepNames, Types DEF Leave
  <2> HIDE DEF s
  <2>3. c = client => Reached(unit'[c])
    BY <1>1, <2>1, <2>2 DEF Moved, Reached, Completed
  <2> QED
    BY <1>1, <2>1, <2>2, <2>3, QuietJob, Types
<1> QED
  BY <1>2, <1>3 DEF RestoreAuthorize

LEMMA RestoreWriteStep ==
    ASSUME SessionInv, NEW c \in Clients, RestoreWrite(c), UNCHANGED fixedVars
    PROVE  SessionInv'
<1> DEFINE o == IF files = "whole" THEN "COMPLETED" ELSE "FAILED"
<1>1. /\ unit[c].cmd = "restore" /\ unit[c].step = "write" /\ Running(c) /\ c = client
      /\ windows' = "torn" /\ UNCHANGED <<uiVars, fixedVars>>
      /\ UNCHANGED <<volumeVars, mount, rebooting>>
  BY DEF RestoreWrite, At, Running, Heard
<1>2. Moved(c, "writing", o)
  BY MovesOut, StepNames, Types DEF RestoreWrite
<1> HIDE DEF o
<1>3. MachineTyped' /\ Volume'
  BY <1>1, Types DEF MachineTyped, volumeVars, SessionInv, Volume, fixedVars
<1>4. JobReached'
  BY <1>1, <1>2 DEF JobReached, Reached, Completed, Moved, uiVars
<1> QED
  BY <1>1, <1>2, <1>3, <1>4, JobKeeps

LEMMA RestoreWrittenStep ==
    ASSUME SessionInv, NEW c \in Clients, RestoreWritten(c), UNCHANGED fixedVars
    PROVE  SessionInv'
<1> DEFINE s == IF helper THEN "ro" ELSE "end"
<1>1. /\ unit[c].cmd = "restore" /\ unit[c].step = "writing" /\ Running(c) /\ c = client
      /\ windows' = IF unit[c].out = "COMPLETED" THEN "restored" ELSE "torn"
      /\ UNCHANGED <<uiVars, fixedVars>> /\ UNCHANGED <<volumeVars, mount, rebooting>>
  BY DEF RestoreWritten, At, Running, Heard
<1>2. s \in {"ro", "end"}
  OBVIOUS
<1>3. Moved(c, s, unit[c].out)
  BY MovesOut, StepNames, Types DEF RestoreWritten, Leave, Units
<1> HIDE DEF s
<1>4. MachineTyped' /\ Volume'
  BY <1>1, Types DEF MachineTyped, volumeVars, SessionInv, Volume, fixedVars
<1>5. JobReached'
  BY <1>1, <1>2, <1>3 DEF JobReached, Reached, Completed, Moved, uiVars
<1> QED
  BY <1>1, <1>2, <1>3, <1>4, <1>5, JobKeeps

\* The job of the deletion.
LEMMA DeleteImagesStep ==
    ASSUME SessionInv, NEW c \in Clients, DeleteImages(c), UNCHANGED fixedVars
    PROVE  SessionInv'
<1>1. /\ unit[c].cmd = "delete" /\ unit[c].step = "remove" /\ Running(c)
      /\ files' = "absent" /\ UNCHANGED <<uiVars, fixedVars>>
      /\ UNCHANGED <<listed, marker, staged, mount, windows, rebooting>>
  BY DEF DeleteImages, At, Running
<1>2. Moved(c, "remove_state", unit[c].out)
  BY MovesOn, StepNames, Types DEF DeleteImages
<1>3. MachineTyped' /\ Volume'
  BY <1>1, Types DEF MachineTyped, Content, Volume
<1>4. c # client => Removes
  BY <1>1 DEF Removes, Meddled
<1>5. c = client => JobReached'
  BY <1>1, <1>2 DEF JobReached, Reached, Completed, Moved, uiVars
<1> QED
  BY <1>1, <1>2, <1>3, <1>4, <1>5, JobKeeps

LEMMA DeleteStateStep ==
    ASSUME SessionInv, NEW c \in Clients, DeleteState(c), UNCHANGED fixedVars
    PROVE  SessionInv'
<1>1. /\ unit[c].cmd = "delete" /\ unit[c].step = "remove_state" /\ Running(c)
      /\ marker' = FALSE /\ UNCHANGED <<uiVars, fixedVars>>
      /\ UNCHANGED <<files, listed, staged, mount, windows, rebooting>>
  BY DEF DeleteState, At, Running
<1>2. Moved(c, "remove_lists", unit[c].out)
  BY MovesOn, StepNames, Types DEF DeleteState
<1>3. MachineTyped' /\ Volume'
  <2>1. marker' \in BOOLEAN
    BY <1>1
  <2>2. MachineTyped'
    BY <1>1, <2>1, Types DEF MachineTyped
  <2>3. Volume'
    BY <1>1 DEF SessionInv, Volume, fixedVars
  <2> QED
    BY <2>2, <2>3
<1>4. c # client => Removes
  BY <1>1 DEF Removes, Meddled
<1>5. Meddled' = Meddled
  BY <1>1, <1>2, JobLinks
<1>6. c = client => JobReached'
  BY <1>1, <1>2, <1>5, Types DEF JobReached, Reached, Completed, Moved, uiVars
<1> QED
  BY <1>1, <1>2, <1>3, <1>4, <1>6, JobKeeps

LEMMA DeleteListsStep ==
    ASSUME SessionInv, NEW c \in Clients, DeleteLists(c), UNCHANGED fixedVars
    PROVE  SessionInv'
<1> DEFINE s == IF helper THEN "ro" ELSE "end"
<1>1. /\ unit[c].cmd = "delete" /\ unit[c].step = "remove_lists" /\ Running(c)
      /\ listed' = "absent" /\ UNCHANGED <<uiVars, fixedVars>>
      /\ UNCHANGED <<files, marker, staged, mount, windows, rebooting>>
  BY DEF DeleteLists, At, Running
<1>2. s \in {"ro", "end"}
  OBVIOUS
<1>3. Moved(c, s, "COMPLETED")
  BY MovesOut, StepNames, Types DEF DeleteLists, Leave
<1> HIDE DEF s
<1>4. MachineTyped' /\ Volume'
  BY <1>1, Types DEF MachineTyped, Content, Volume
<1>5. c # client => Removes
  BY <1>1 DEF Removes, Meddled
<1>6. Meddled' = Meddled
  BY <1>1, <1>2, <1>3, JobLinks
<1>7. c = client => JobReached'
  BY <1>1, <1>2, <1>3, <1>6, Types DEF JobReached, Reached, Completed, Moved, uiVars
<1> QED
  BY <1>1, <1>2, <1>3, <1>4, <1>5, <1>7, JobKeeps

\* The job of the reboot.
LEMMA SetBootNextStep ==
    ASSUME SessionInv, NEW c \in Clients, SetBootNext(c), UNCHANGED fixedVars
    PROVE  SessionInv'
<1>1. /\ unit[c].cmd = "reboot" /\ unit[c].step = "bootnext" /\ Running(c)
      /\ UNCHANGED <<uiVars, fixedVars>> /\ UNCHANGED <<volumeVars, windows>>
      /\ mount' = mount /\ rebooting' = rebooting
  BY DEF SetBootNext, At, Running, machineVars
<1>2. Moved(c, "popen", unit[c].out)
  BY MovesOn, StepNames, Types DEF SetBootNext
<1>3. c = client => Reached(unit'[c])
  BY <1>1, <1>2 DEF Moved, Reached, Completed
<1> QED
  BY <1>1, <1>2, <1>3, QuietJob, Types

LEMMA RequestRebootStep ==
    ASSUME SessionInv, NEW c \in Clients, RequestReboot(c), UNCHANGED fixedVars
    PROVE  SessionInv'
<1>1. /\ unit[c].cmd = "reboot" /\ unit[c].step = "popen" /\ Running(c)
      /\ UNCHANGED <<uiVars, fixedVars>> /\ UNCHANGED <<volumeVars, windows>>
      /\ mount' = mount /\ rebooting' \in Reboots
  BY Types DEF RequestReboot, At, Running, Reboots
<1>2. Moved(c, "exit", unit[c].out)
  BY MovesOn, StepNames, Types DEF RequestReboot
<1>3. c = client => Reached(unit'[c])
  BY <1>1, <1>2 DEF Moved, Reached, Completed
<1> QED
  BY <1>1, <1>2, <1>3, QuietJob, Types

LEMMA RebootExitsStep ==
    ASSUME SessionInv, NEW c \in Clients, RebootExits(c), UNCHANGED fixedVars
    PROVE  SessionInv'
<1>1. /\ unit[c].cmd = "reboot" /\ unit[c].step = "exit" /\ Running(c)
      /\ UNCHANGED <<uiVars, fixedVars>> /\ UNCHANGED <<volumeVars, windows>>
      /\ mount' = mount /\ rebooting' = rebooting
  BY DEF RebootExits, At, Running, machineVars
<1>2. Moved(c, "end", "COMPLETED")
  BY MovesOut, StepNames, Types DEF RebootExits, Exit
<1>3. c = client => Reached(unit'[c])
  BY <1>1, <1>2 DEF Moved, Reached, Completed
<1> QED
  BY <1>1, <1>2, <1>3, QuietJob, Types

\* A unit is stopped on the way to the shutdown.
LEMMA StoppedMoves ==
    ASSUME SessionInv, NEW c \in Clients, Stopped(c)
    PROVE  Moved(c, "end", "FAILED")
  BY MovesOut, StepNames, Types DEF Stopped, Exit

LEMMA StoppedStep ==
    ASSUME SessionInv, NEW c \in Clients, Stopped(c), UNCHANGED fixedVars
    PROVE  SessionInv'
<1>1. /\ rebooting = "queued" /\ Running(c)
      /\ UNCHANGED <<uiVars, fixedVars>> /\ UNCHANGED <<volumeVars, windows>>
      /\ mount' = mount /\ rebooting' = rebooting
  BY DEF Stopped, machineVars
<1>2. Moved(c, "end", "FAILED")
  BY StoppedMoves
<1>3. c = client => Reached(unit'[c])
  BY <1>2 DEF Moved, Reached, Completed
<1> QED
  BY <1>1, <1>2, <1>3, QuietJob, Types

\* The text menu's own deletion: nobody else is there, and no helper.
LEMMA LocalAlone ==
    ASSUME SessionInv, NEW c \in Clients, unit[c].cmd = "local_delete", Running(c)
    PROVE  c = client /\ ~helper
  BY WhoRuns DEF SessionInv, Commanded

LEMMA LocalDeleteStep ==
    ASSUME SessionInv, NEW c \in Clients, UNCHANGED fixedVars,
           LocalStage(c) \/ LocalStaged(c) \/ LocalDrop(c) \/ LocalUnstage(c)
               \/ LocalRollback(c)
    PROVE  SessionInv'
<1>1. /\ unit[c].cmd = "local_delete" /\ Running(c) /\ UNCHANGED <<uiVars, fixedVars>>
      /\ UNCHANGED <<listed, mount, windows, rebooting>>
  BY DEF LocalStage, LocalStaged, LocalDrop, LocalUnstage, LocalRollback, At, Running
<1>2. c = client /\ ~helper
  BY <1>1, LocalAlone
<1>3. files' \in Content /\ staged' \in Content /\ marker' \in BOOLEAN
  BY Types DEF LocalStage, LocalStaged, LocalDrop, LocalUnstage, LocalRollback, Content
<1>4. MachineTyped' /\ Volume'
  BY <1>1, <1>2, <1>3, Types DEF MachineTyped, Content, Volume, fixedVars
<1>5. ASSUME NEW s \in {"staging", "drop"}, Goto(c, s)
      PROVE  SessionInv'
  <2>1. Moved(c, s, unit[c].out)
    BY <1>5, MovesOn, StepNames, Types
  <2>2. JobReached'
    BY <1>1, <1>2, <2>1 DEF JobReached, Reached, Completed, Moved, uiVars
  <2> QED
    BY <1>1, <1>2, <1>4, <2>1, <2>2, JobKeeps
<1>6. CASE LocalDrop(c)
  <2>1. Moved(c, "unstage", unit[c].out) /\ files' = "absent"
    BY <1>6, MovesOn, StepNames, Types DEF LocalDrop
  <2>2. JobReached'
    BY <1>1, <1>2, <2>1 DEF JobReached, Reached, Completed, Moved, uiVars
  <2> QED
    BY <1>1, <1>2, <1>4, <2>1, <2>2, JobKeeps
<1>7. CASE LocalUnstage(c)
  <2>1. Moved(c, "end", "COMPLETED") /\ files' = files /\ unit[c].step = "unstage"
    BY <1>7, MovesOut, StepNames, Types DEF LocalUnstage, Exit, At
  <2>2. files = "absent"
    BY <1>1, <1>2, <2>1, Types DEF Reached
  <2>3. JobReached'
    BY <1>1, <1>2, <2>1, <2>2 DEF JobReached, Reached, Completed, Moved, uiVars
  <2> QED
    BY <1>1, <1>2, <1>4, <2>1, <2>3, JobKeeps
<1>8. CASE LocalRollback(c)
  <2>1. Moved(c, "end", "FAILED")
    BY <1>8, MovesOut, StepNames, Types DEF LocalRollback, Exit
  <2>2. JobReached'
    BY <1>1, <1>2, <2>1 DEF JobReached, Reached, Completed, Moved, uiVars
  <2> QED
    BY <1>1, <1>2, <1>4, <2>1, <2>2, JobKeeps
<1> QED
  BY <1>5, <1>6, <1>7, <1>8 DEF LocalStage, LocalStaged

LEMMA JobStep ==
    ASSUME SessionInv, NEW c \in Clients, Job(c)
    PROVE  SessionInv'
<1>0. UNCHANGED fixedVars
  BY DEF Job
<1>1. CASE ResetUnmount(c) \/ ResetMkfs(c) \/ ResetMount(c) \/ ResetErase(c)
  BY <1>0, <1>1, ResetUnmountStep, ResetMkfsStep, ResetMountStep, ResetEraseStep
<1>2. CASE BackupPlan(c) \/ BackupRemount(c) \/ BackupMark(c) \/ BackupCopy(c)
  BY <1>0, <1>2, BackupPlanStep, BackupRemountStep, BackupMarkStep, BackupCopyStep
<1>3. CASE BackupCopied(c) \/ BackupFinalize(c) \/ BackupPublish(c)
            \/ BackupCloseout(c) \/ BackupMarkFailed(c)
  BY <1>0, <1>3, BackupCopiedStep, BackupFinalizeStep, BackupPublishStep,
     BackupCloseoutStep, BackupMarkFailedStep
<1>4. CASE CheckRestore(c) \/ RemountRw(c) \/ RemountRo(c) \/ JobRaises(c)
  BY <1>0, <1>4, CheckRestoreStep, RemountRwStep, RemountRoStep, JobRaisesStep
<1>5. CASE RestoreAuthorize(c) \/ RestoreWrite(c) \/ RestoreWritten(c)
  BY <1>0, <1>5, RestoreAuthorizeStep, RestoreWriteStep, RestoreWrittenStep
<1>6. CASE DeleteImages(c) \/ DeleteState(c) \/ DeleteLists(c) \/ ClearLock(c)
  BY <1>0, <1>6, DeleteImagesStep, DeleteStateStep, DeleteListsStep, ClearLockStep
<1>7. CASE SetBootNext(c) \/ RequestReboot(c) \/ RebootExits(c)
  BY <1>0, <1>7, SetBootNextStep, RequestRebootStep, RebootExitsStep
<1>8. CASE LocalStage(c) \/ LocalStaged(c) \/ LocalDrop(c) \/ LocalUnstage(c)
            \/ LocalRollback(c)
  BY <1>0, <1>8, LocalDeleteStep
<1> QED
  BY <1>1, <1>2, <1>3, <1>4, <1>5, <1>6, <1>7, <1>8 DEF Job

-----------------------------------------------------------------------------
(***************************************************************************)
(* Steps of the interface.                                                 *)
(***************************************************************************)
InterfaceTyped ==
    /\ seen \in Views
    /\ dialog \in [op : Ops \cup {"none"}, page : 0..3]
    /\ busy \in BOOLEAN
    /\ worker \in [op : Ops \cup {"none"},
                   stage : Commands \cup {"none", "finalize", "ok", "failed"}]
    /\ told \in [op : Ops \cup {"none"}, ok : BOOLEAN]

LEMMA Faces ==
    ASSUME SessionInv
    PROVE  InterfaceTyped /\ Ops \subseteq {"backup", "restore", "delete", "clear", "reboot"}
  BY OpsAssumption DEF SessionInv, TypeOK, InterfaceTyped

LEMMA BlankFaces ==
    /\ NoDialog \in [op : Ops \cup {"none"}, page : 0..3]
    /\ NoDialog.op = "none" /\ NoDialog.page = 0
    /\ NoWorker \in [op : Ops \cup {"none"},
                     stage : Commands \cup {"none", "finalize", "ok", "failed"}]
    /\ NoWorker.op = "none" /\ NoWorker.stage = "none"
    /\ Silence \in [op : Ops \cup {"none"}, ok : BOOLEAN]
    /\ NoUnit \in Units /\ NoUnit.cmd = "none" /\ NoUnit.step = "end" /\ NoUnit.out = "none"
<1>1. NoDialog \in [op : Ops \cup {"none"}, page : 0..3]
  BY DEF NoDialog
<1>2. /\ NoWorker \in [op : Ops \cup {"none"},
                     stage : Commands \cup {"none", "finalize", "ok", "failed"}]
      /\ Silence \in [op : Ops \cup {"none"}, ok : BOOLEAN]
  BY DEF NoWorker, Silence
<1>3. NoUnit \in Units
  BY DEF NoUnit, Units, UnitSteps, Payloads
<1>4. NoDialog.op = "none" /\ NoDialog.page = 0
  BY DEF NoDialog
<1>5. NoWorker.op = "none" /\ NoWorker.stage = "none"
  BY DEF NoWorker
<1>6. NoUnit.cmd = "none" /\ NoUnit.step = "end" /\ NoUnit.out = "none"
  BY DEF NoUnit
<1> QED
  BY <1>1, <1>2, <1>3, <1>4, <1>5, <1>6

\* What a refresh shows is so.
LEMMA RefreshShows ==
    ASSUME SessionInv, Refresh
    PROVE  /\ mount' \in {"none", "ro", "rw"} /\ seen' \in Views
           /\ seen' = "none" => ~ValidBackup
  BY Types DEF Refresh, EnsureMounted, View, Views

\* A reader of the volume: the jobs stay as they are.
LEMMA InterfaceKeeps ==
    ASSUME SessionInv, UNCHANGED <<volumeVars, windows, unit, client, fixedVars>>,
           rebooting' = rebooting \/ rebooting' \in Reboots,
           mount' \in {"none", "ro", "rw"}, InterfaceTyped',
           Linked', Looked', NoFalseSuccess', Leaving'
    PROVE  SessionInv'
<1>1. UNCHANGED <<files, listed, marker, staged, windows, unit, client, kind, helper>>
  BY DEF volumeVars, fixedVars
<1>2. TypeOK'
  BY <1>1 DEF SessionInv, TypeOK, InterfaceTyped
<1>3. Commanded' /\ Volume'
  BY <1>1 DEF SessionInv, Commanded, Volume
<1>4. JobReached'
  BY <1>1 DEF SessionInv, JobReached, Reached, Completed, Meddled, ValidBackup, Verified
<1> QED
  BY <1>2, <1>3, <1>4 DEF SessionInv

LEMMA VolumeSame ==
    ASSUME UNCHANGED <<volumeVars, unit, client>>
    PROVE  Meddled' = Meddled /\ ValidBackup' = ValidBackup /\ Verified' = Verified
  BY DEF volumeVars, Meddled, ValidBackup, Verified

LEMMA IdleFacts ==
    ASSUME SessionInv, ~busy
    PROVE  /\ worker = NoWorker /\ ~Running(client)
           /\ dialog # NoDialog \/ ~LeftLoop => ~(kind = "tui" /\ rebooting = "asked")
<1>1. worker = NoWorker
  BY DEF SessionInv, Linked
<1>2. "none" \notin Commands
  BY DEF Commands
<1>3. ~Running(client)
  BY <1>1, <1>2, BlankFaces DEF SessionInv, Linked
<1>4. dialog # NoDialog \/ ~LeftLoop => ~(kind = "tui" /\ rebooting = "asked")
  BY <1>1, BlankFaces DEF SessionInv, Leaving, LeftLoop
<1> QED
  BY <1>1, <1>3, <1>4

\* Whatever is clicked or chosen, a backup is asked for only when there was
\* none at the last look, and nobody else has changed that in between.
LEMMA Opens ==
    ASSUME SessionInv, Open
    PROVE  /\ \/ dialog' = NoDialog
              \/ \E op \in Ops : dialog' = [op |-> op, page |-> 1]
           /\ dialog'.op = "backup" => ~ValidBackup
           /\ dialog'.op = "reboot" => helper
           /\ mount' \in {"none", "ro", "rw"} /\ seen' \in Views
           /\ kind = "tui" /\ seen' = "none" => ~ValidBackup
<1>1. ~busy /\ dialog = NoDialog
  BY DEF Open, Idle
<1>2. mount \in {"none", "ro", "rw"} /\ seen \in Views
  BY Types, Faces DEF InterfaceTyped
<1>3. ASSUME NEW op, Ask(op)
      PROVE  dialog' = [op |-> op, page |-> 1] /\ op \in Ops /\ dialog'.op = op
  BY <1>3 DEF Ask
<1>4. kind = "tui" /\ seen = "none" => ~ValidBackup
  BY <1>1 DEF SessionInv, Looked
<1>5. ASSUME NEW op, NEW wanted, LookAgain(op, wanted),
             op \in {"backup", "restore", "delete"}, op = "backup" => wanted = "none"
      PROVE  /\ dialog' = NoDialog \/ \E p \in Ops : dialog' = [op |-> p, page |-> 1]
             /\ dialog'.op = "backup" => ~ValidBackup
             /\ dialog'.op # "reboot"
             /\ mount' \in {"none", "ro", "rw"} /\ seen' \in Views
             /\ seen' = "none" => ~ValidBackup
  BY <1>1, <1>3, <1>5, RefreshShows, BlankFaces DEF LookAgain
<1>6. CASE ClickBackup \/ ClickRestore \/ ClickDelete
  <2>1. CASE ClickBackup
    BY <1>5, <2>1 DEF ClickBackup
  <2>2. CASE ClickRestore
    BY <1>5, <2>2 DEF ClickRestore
  <2>3. CASE ClickDelete
    BY <1>5, <2>3 DEF ClickDelete
  <2> QED
    BY <1>6, <2>1, <2>2, <2>3
<1>7. CASE kind = "gtk" /\ (ClickReboot \/ ClickClear)
  <2>1. /\ mount' = mount /\ seen' = seen /\ (Ask("reboot") \/ Ask("clear"))
        /\ helper
    BY <1>7 DEF ClickReboot, ClickClear, SessionInv, Linked
  <2> QED
    BY <1>2, <1>3, <1>7, <2>1
<1>8. CASE kind = "tui" /\ ChooseBackup
  <2>1. mount' = mount /\ seen' = seen /\ Ask("backup") /\ seen = "none"
    BY <1>8 DEF ChooseBackup, Executable
  <2> QED
    BY <1>2, <1>3, <1>4, <1>8, <2>1
<1>9. CASE ChooseRestore
  <2>1. Ask("restore") /\ Refresh
    BY <1>9 DEF ChooseRestore
  <2> QED
    BY <1>3, <2>1, RefreshShows
<1>10. CASE ChooseDelete \/ ChooseReboot \/ ChooseClear
  <2>1. /\ mount' = mount /\ seen' = seen
        /\ Ask("delete") \/ (Ask("reboot") /\ helper) \/ Ask("clear")
    BY <1>10 DEF ChooseDelete, ChooseReboot, ChooseClear, Executable
  <2> QED
    BY <1>2, <1>3, <1>4, <2>1
<1> QED
  BY <1>6, <1>7, <1>8, <1>9, <1>10 DEF Open

LEMMA OpenStep ==
    ASSUME SessionInv, Open, UNCHANGED fixedVars
    PROVE  SessionInv'
<1>1. /\ ~busy /\ dialog = NoDialog /\ ~LeftLoop
      /\ UNCHANGED <<volumeVars, windows, rebooting, unit, client, busy, worker, told>>
      /\ UNCHANGED <<kind, helper>>
  BY DEF Open, Idle, fixedVars
<1>2. worker = NoWorker /\ ~Running(client) /\ ~(kind = "tui" /\ rebooting = "asked")
  BY <1>1, IdleFacts
<1>3. /\ dialog' \in [op : Ops \cup {"none"}, page : 0..3]
      /\ dialog' # NoDialog => dialog'.op \in Ops
      /\ dialog'.page # 3 /\ (dialog'.op = "reboot" => helper)
  <2>1. CASE dialog' = NoDialog
    BY <2>1, BlankFaces
  <2>2. ASSUME NEW op \in Ops, dialog' = [op |-> op, page |-> 1]
        PROVE  /\ dialog' \in [op : Ops \cup {"none"}, page : 0..3]
               /\ dialog'.op \in Ops /\ dialog'.page # 3
    BY <2>2
  <2> QED
    BY <2>1, <2>2, Opens
<1>4. InterfaceTyped' /\ mount' \in {"none", "ro", "rw"}
  BY <1>1, <1>3, Faces, Opens DEF InterfaceTyped
<1>5. Linked'
  BY <1>1, <1>2, <1>3 DEF SessionInv, Linked, Running
<1>6. Looked'
  BY <1>1, Opens, VolumeSame DEF Looked
<1>7. NoFalseSuccess' /\ Leaving'
  BY <1>1, <1>2, BlankFaces DEF SessionInv, NoFalseSuccess, Leaving, Running
<1> QED
  BY <1>1, <1>4, <1>5, <1>6, <1>7, InterfaceKeeps

LEMMA NextPageStep ==
    ASSUME SessionInv, NextPage, UNCHANGED fixedVars
    PROVE  SessionInv'
<1>1. /\ UNCHANGED <<volumeVars, windows, rebooting, mount, unit, client, seen, busy, worker, told>>
      /\ UNCHANGED <<kind, helper>>
      /\ dialog.page >= 1 /\ dialog' = [dialog EXCEPT !.page = 2]
  BY Faces DEF NextPage, machineVars, fixedVars, InterfaceTyped
<1>2. dialog # NoDialog
  BY <1>1, BlankFaces
<1>3. ~busy /\ dialog.op \in Ops
  BY <1>2 DEF SessionInv, Linked
<1>4. worker = NoWorker /\ ~Running(client) /\ ~(kind = "tui" /\ rebooting = "asked")
  BY <1>2, <1>3, IdleFacts
<1>5. /\ dialog' \in [op : Ops \cup {"none"}, page : 0..3]
      /\ dialog'.op = dialog.op /\ dialog'.page = 2
  BY <1>1, Faces DEF InterfaceTyped
<1>6. InterfaceTyped' /\ mount' \in {"none", "ro", "rw"}
  BY <1>1, <1>5, Faces, Types DEF InterfaceTyped
<1>7. Linked'
  BY <1>1, <1>3, <1>4, <1>5 DEF SessionInv, Linked, Running
<1>8. Looked'
  BY <1>1, <1>5, VolumeSame DEF SessionInv, Looked
<1>9. NoFalseSuccess' /\ Leaving'
  BY <1>1, <1>4, BlankFaces DEF SessionInv, NoFalseSuccess, Leaving, Running
<1> QED
  BY <1>1, <1>6, <1>7, <1>8, <1>9, InterfaceKeeps

LEMMA CancelStep ==
    ASSUME SessionInv, Cancel, UNCHANGED fixedVars
    PROVE  SessionInv'
<1>1. /\ UNCHANGED <<volumeVars, windows, rebooting, unit, client, busy, worker, told>>
      /\ UNCHANGED <<kind, helper>>
      /\ dialog # NoDialog /\ dialog' = NoDialog
  BY DEF Cancel, fixedVars
<1>2. ~busy
  BY <1>1 DEF SessionInv, Linked
<1>3. worker = NoWorker /\ ~Running(client) /\ ~(kind = "tui" /\ rebooting = "asked")
  BY <1>1, <1>2, IdleFacts
<1>4. /\ mount' \in {"none", "ro", "rw"} /\ seen' \in Views
      /\ kind = "tui" /\ seen' = "none" => ~ValidBackup
  BY RefreshShows, Types, Faces DEF Cancel, InterfaceTyped
<1>5. InterfaceTyped'
  BY <1>1, <1>4, Faces, BlankFaces DEF InterfaceTyped
<1>6. Linked'
  BY <1>1, <1>2, <1>3, BlankFaces DEF SessionInv, Linked, Running
<1>7. Looked'
  BY <1>1, <1>4, BlankFaces, VolumeSame DEF Looked
<1>8. NoFalseSuccess' /\ Leaving'
  BY <1>1, <1>3, BlankFaces DEF SessionInv, NoFalseSuccess, Leaving, Running
<1> QED
  BY <1>1, <1>4, <1>5, <1>6, <1>7, <1>8, InterfaceKeeps

\* A command is started: only when none is at work, a reset only where there
\* is no backup, and a backup only on the volume the reset has emptied.
LEMMA Starting ==
    ASSUME SessionInv, NEW STATE cmd, cmd \in Commands, Start(cmd),
           UNCHANGED <<machineVars, client, fixedVars>>,
           helper => cmd # "local_delete",
           ~helper => cmd \notin {"backup", "reset", "delete", "reboot"},
           cmd = "reset" => Meddled \/ ~ValidBackup,
           cmd = "backup" => files = "absent" /\ listed = "absent"
    PROVE  /\ unit' \in [Clients -> Units] /\ unit'[client].cmd = cmd
           /\ \A d \in Clients \ {client} : unit'[d] = unit[d]
           /\ Meddled' = Meddled /\ Commanded' /\ Volume' /\ JobReached'
           /\ Refused(cmd) => unit'[client].step = "end"
<1> DEFINE step == IF Refused(cmd) THEN "end" ELSE EntryStep(cmd)
           out == IF Refused(cmd) THEN "FAILED" ELSE "none"
           new == [cmd |-> cmd, step |-> step, out |-> out]
<1>1. /\ cmd = "reset" => step \in {"umount", "end"}
      /\ cmd = "backup" => step \in {"plan", "end"}
      /\ cmd \in {"check", "reboot", "local_delete"}
            => step \in {"validate", "bootnext", "stage", "end"}
  BY DEF EntryStep
<1>2. cmd \in {"restore", "delete", "clear"}
        => step \in {"rw", "authorize", "remove", "save", "end"}
  BY DEF EntryStep, FirstStep
<1>3. /\ step \in UnitSteps /\ (step = "rw" => cmd \in {"restore", "delete", "clear"})
      /\ out \in {"none", "FAILED"} /\ (Refused(cmd) => step = "end")
  BY <1>1, <1>2, StepNames DEF Commands
<1>4. /\ unit \in [Clients -> Units] /\ client \in Clients
      /\ unit' = [unit EXCEPT ![client] = new]
  BY Types DEF Start
<1> HIDE DEF step, out
<1>5. /\ new \in Units /\ new.cmd = cmd /\ new.step = step
      /\ new.out \in {"none", "FAILED"}
  BY <1>3, StepNames DEF Units
<1> HIDE DEF new
<1>6. /\ unit' \in [Clients -> Units] /\ unit'[client] = new
      /\ \A d \in Clients \ {client} : unit'[d] = unit[d]
  BY <1>4, <1>5
<1>7. UNCHANGED <<files, listed, marker, staged, windows, client, helper>>
  BY DEF machineVars, volumeVars, fixedVars
<1>8. Meddled' = Meddled /\ ValidBackup' = ValidBackup
  BY <1>6, <1>7 DEF Meddled, ValidBackup
<1>9. Commanded'
  <2>1. ASSUME NEW d \in Clients
        PROVE  /\ unit'[d].step = "rw" => unit'[d].cmd \in {"restore", "delete", "clear"}
               /\ helper => unit'[d].cmd # "local_delete"
               /\ ~helper => unit'[d].cmd \notin {"backup", "reset", "delete", "reboot"}
    <3>1. CASE d = client
      BY <1>3, <1>5, <1>6, <3>1
    <3>2. CASE d # client
      BY <1>6, <3>2 DEF SessionInv, Commanded
    <3> QED
      BY <3>1, <3>2
  <2> QED
    BY <1>7, <2>1 DEF Commanded
<1>10. Volume'
  BY <1>7 DEF SessionInv, Volume
<1>11. /\ unit'[client'].cmd = cmd /\ unit'[client'].step = step
       /\ unit'[client'].out \in {"none", "FAILED"}
  BY <1>5, <1>6, <1>7
<1>12. JobReached'
  <2>1. CASE cmd = "reset"
    BY <1>1, <1>7, <1>8, <1>11, <2>1 DEF JobReached, Reached, Completed
  <2>2. CASE cmd = "backup"
    BY <1>1, <1>7, <1>11, <2>2 DEF JobReached, Reached, Completed
  <2>3. CASE cmd \in {"check", "reboot", "local_delete"}
    BY <1>1, <1>11, <2>3 DEF JobReached, Reached, Completed
  <2>4. CASE cmd \in {"restore", "delete", "clear"}
    BY <1>2, <1>11, <2>4 DEF JobReached, Reached, Completed
  <2> QED
    BY <2>1, <2>2, <2>3, <2>4 DEF Commands
<1> QED
  BY <1>3, <1>5, <1>6, <1>8, <1>9, <1>10, <1>12

LEMMA AcceptStep ==
    ASSUME SessionInv, Accept, UNCHANGED fixedVars
    PROVE  SessionInv'
<1> DEFINE cmd == FirstCommand(dialog.op, dialog.page)
<1>1. /\ dialog # NoDialog /\ dialog.page >= LastPage(dialog.op) /\ dialog' = NoDialog
      /\ UNCHANGED <<volumeVars, mount, windows, rebooting, client, seen, kind, helper>>
      /\ UNCHANGED <<machineVars, client, fixedVars>>
      /\ UNCHANGED <<files, listed, marker, staged>>
  BY DEF Accept, machineVars, fixedVars, volumeVars
<1>2. /\ ~busy /\ dialog.op \in Ops /\ dialog.page \in 0..3
      /\ dialog.op \in {"backup", "restore", "delete", "clear", "reboot"}
      /\ kind \in {"gtk", "tui"} /\ helper \in BOOLEAN
  BY <1>1, Faces, Types DEF SessionInv, Linked, InterfaceTyped
<1>3. worker = NoWorker /\ ~Running(client) /\ ~(kind = "tui" /\ rebooting = "asked")
  BY <1>1, <1>2, IdleFacts
<1>4. \/ /\ cmd \in {"reset", "backup"} /\ ~helper
         /\ told' = [op |-> dialog.op, ok |-> FALSE] /\ UNCHANGED <<unit, busy, worker>>
      \/ /\ ~(cmd \in {"reset", "backup"} /\ ~helper)
         /\ busy' = TRUE /\ worker' = [op |-> dialog.op, stage |-> cmd]
         /\ Start(cmd) /\ told' = Silence
  BY DEF Accept
<1>5. /\ dialog.op = "backup" => cmd = (IF dialog.page = 3 THEN "backup" ELSE "reset")
      /\ dialog.op = "restore" => cmd = (IF kind = "gtk" THEN "check" ELSE "restore")
      /\ dialog.op = "delete" => cmd = (IF helper THEN "delete" ELSE "local_delete")
      /\ dialog.op \in {"clear", "reboot"} => cmd = dialog.op
  BY DEF FirstCommand
<1> HIDE DEF cmd
<1>6. CASE /\ cmd \in {"reset", "backup"} /\ ~helper
           /\ told' = [op |-> dialog.op, ok |-> FALSE] /\ UNCHANGED <<unit, busy, worker>>
  <2>1. told' \in [op : Ops \cup {"none"}, ok : BOOLEAN]
    BY <1>2, <1>6
  <2>2. InterfaceTyped' /\ mount' \in {"none", "ro", "rw"}
    BY <1>1, <1>6, <2>1, Faces, Types, BlankFaces DEF InterfaceTyped
  <2>3. Linked'
    BY <1>1, <1>2, <1>3, <1>6, BlankFaces DEF SessionInv, Linked, Running
  <2>4. Looked'
    BY <1>1, <1>2, <1>6, BlankFaces, VolumeSame DEF SessionInv, Looked
  <2>5. NoFalseSuccess' /\ Leaving'
    BY <1>1, <1>3, <1>6, BlankFaces DEF SessionInv, NoFalseSuccess, Leaving, Running
  <2> QED
    BY <1>1, <1>6, <2>2, <2>3, <2>4, <2>5, InterfaceKeeps
<1>7. CASE /\ ~(cmd \in {"reset", "backup"} /\ ~helper)
           /\ busy' = TRUE /\ worker' = [op |-> dialog.op, stage |-> cmd]
           /\ Start(cmd) /\ told' = Silence
  <2>1. /\ cmd \in Commands /\ dialog.op = OpOf(cmd)
        /\ helper => cmd # "local_delete"
        /\ ~helper => cmd \notin {"backup", "reset", "delete", "reboot"}
        /\ cmd = "check" => kind = "gtk"
    <3>1. dialog.op = "reboot" => helper
      BY DEF SessionInv, Linked
    <3> QED
      BY <1>2, <1>5, <1>7, <3>1 DEF Commands, OpOf
  <2>2. cmd = "reset" => Meddled \/ ~ValidBackup
    <3>1. cmd = "reset" => dialog.op = "backup"
      BY <1>2, <1>5
    <3> QED
      BY <3>1 DEF SessionInv, Looked
  <2>3. cmd = "backup" => files = "absent" /\ listed = "absent"
    <3>1. cmd = "backup" => dialog.page = 3
      BY <1>2, <1>5
    <3>2. ASSUME dialog.page = 3
          PROVE  files = "absent" /\ listed = "absent"
      BY <3>2, Types DEF SessionInv, Linked, At, Reached, Completed
    <3> QED
      BY <3>1, <3>2
  <2>4. /\ unit' \in [Clients -> Units] /\ unit'[client].cmd = cmd
        /\ \A d \in Clients \ {client} : unit'[d] = unit[d]
        /\ Meddled' = Meddled /\ Commanded' /\ Volume' /\ JobReached'
        /\ Refused(cmd) => unit'[client].step = "end"
    BY <1>1, <1>7, <2>1, <2>2, <2>3, Starting
  <2>5. /\ worker' \in [op : Ops \cup {"none"},
                        stage : Commands \cup {"none", "finalize", "ok", "failed"}]
        /\ worker'.stage = cmd /\ worker'.op = dialog.op
    BY <1>2, <1>7, <2>1
  <2>6. TypeOK'
    BY <1>1, <1>7, <2>4, <2>5, BlankFaces DEF SessionInv, TypeOK, Units
  <2>7. cmd # "none" /\ cmd # "ok" /\ cmd # "finalize" /\ worker' # NoWorker
    BY <2>1, <2>5, BlankFaces DEF Commands
  <2>8. \A c \in Clients : c > client => unit'[c] = NoUnit
    BY <2>4, Types, ClientsTyped DEF SessionInv, Linked
  <2>9. Linked'
    BY <1>1, <1>7, <2>1, <2>4, <2>5, <2>7, <2>8, BlankFaces DEF SessionInv, Linked
  <2>10. Looked'
    BY <1>1, <1>7, BlankFaces DEF Looked
  <2>11. NoFalseSuccess'
    BY <1>1, <2>5, <2>7 DEF NoFalseSuccess
  <2>12. ASSUME kind = "tui", rebooting # "no"
         PROVE  helper /\ rebooting = "queued" /\ unit'[client].step = "end"
    <3>1. helper /\ rebooting = "queued"
      BY <1>3, <2>12, Types DEF SessionInv, Leaving, Reboots
    <3>2. Refused(cmd)
      BY <2>1, <2>12, <3>1 DEF Refused
    <3> QED
      BY <2>4, <3>1, <3>2
  <2>13. Leaving'
    BY <1>1, <2>12 DEF Leaving, Running
  <2> QED
    BY <2>4, <2>6, <2>9, <2>10, <2>11, <2>13 DEF SessionInv
<1> QED
  BY <1>4, <1>6, <1>7

\* A worker that has its answer: its command has ended, and nothing else of
\* the interface is going on.
LEMMA AnsweredFacts ==
    ASSUME SessionInv, Answered
    PROVE  /\ worker.stage \in Commands /\ unit[client].step = "end"
           /\ unit[client].cmd = worker.stage /\ worker.op = OpOf(worker.stage)
           /\ busy /\ worker # NoWorker /\ dialog = NoDialog
           /\ worker.op \in Ops
           /\ Completed(unit[client]) <=> unit[client].out = "COMPLETED"
<1>1. /\ worker.stage \in Commands /\ unit[client].step = "end"
      /\ unit[client].cmd = worker.stage /\ worker.op = OpOf(worker.stage)
  BY DEF Answered, Running, SessionInv, Linked
<1>2. worker # NoWorker /\ worker.op # "none"
  BY <1>1, BlankFaces DEF Commands, OpOf
<1>3. busy /\ dialog = NoDialog
  BY <1>2 DEF SessionInv, Linked
<1>4. worker.op \in Ops
  BY <1>2, Faces DEF InterfaceTyped
<1> QED
  BY <1>1, <1>2, <1>3, <1>4 DEF Completed

\* A command that has completed has done what it says; the window's workers
\* then go on with the next one.
LEMMA AnswerStep ==
    ASSUME SessionInv, Answer, UNCHANGED fixedVars
    PROVE  SessionInv'
<1> DEFINE stageOf(p) ==
      IF p = "COMPLETED"
      THEN CASE kind = "gtk" /\ worker.op = "backup" -> BackupWorker(worker.stage)
             [] kind = "gtk" /\ worker.op = "restore" -> RestoreWorker(worker.stage)
             [] OTHER -> "ok"
      ELSE "failed"
<1>1. /\ Answered /\ ~(kind = "tui" /\ worker.stage = "reset")
      /\ UNCHANGED <<machineVars, client, seen, dialog, busy, told>>
      /\ UNCHANGED <<files, listed, marker, staged, mount, windows, rebooting, kind, helper>>
  BY DEF Answer, machineVars, volumeVars, fixedVars
<1>2. /\ worker.stage \in Commands /\ unit[client].step = "end"
      /\ unit[client].cmd = worker.stage /\ worker.op = OpOf(worker.stage)
      /\ busy /\ worker # NoWorker /\ dialog = NoDialog /\ worker.op \in Ops
      /\ Completed(unit[client]) <=> unit[client].out = "COMPLETED"
  BY <1>1, AnsweredFacts
<1>3. PICK p \in Payload :
          /\ worker' = [worker EXCEPT !.stage = stageOf(p)]
          /\ IF stageOf(p) \in Commands THEN Start(stageOf(p)) ELSE UNCHANGED unit
  BY DEF Answer
<1>4. p = "COMPLETED" => unit[client].out = "COMPLETED"
  BY DEF Payload
<1>5. worker.stage # "restore" => p = unit[client].out
  BY DEF Payload
<1> DEFINE stage == stageOf(p)
<1>6. /\ stage \in {"backup", "restore", "finalize", "ok", "failed"}
      /\ stage # "failed" => unit[client].out = "COMPLETED"
      /\ stage = "backup" => kind = "gtk" /\ worker.stage = "reset"
      /\ stage = "restore" => kind = "gtk" /\ worker.stage = "check"
      /\ stage = "finalize" => kind = "gtk" /\ worker.op = "backup"
      /\ stage = "ok" => (worker.op = "backup" => worker.stage = "backup")
      /\ stage = "ok" => (worker.op = "restore" => worker.stage = "restore")
      /\ p = "COMPLETED" /\ worker.op = "reboot" => stage = "ok"
  <2>1. kind \in {"gtk", "tui"} /\ (worker.stage = "check" => kind = "gtk")
    BY Types DEF SessionInv, Linked
  <2>2. /\ worker.op = "backup" => worker.stage \in {"reset", "backup"}
        /\ worker.op = "restore" => worker.stage \in {"check", "restore"}
    BY <1>2 DEF OpOf, Commands
  <2>3. CASE p # "COMPLETED"
    BY <2>3
  <2>4. CASE p = "COMPLETED" /\ kind = "gtk" /\ worker.op = "backup"
    BY <1>4, <2>2, <2>4 DEF BackupWorker
  <2>5. CASE p = "COMPLETED" /\ kind = "gtk" /\ worker.op = "restore"
    BY <1>4, <2>2, <2>5 DEF RestoreWorker
  <2>6. CASE /\ p = "COMPLETED" /\ ~(kind = "gtk" /\ worker.op = "backup")
             /\ ~(kind = "gtk" /\ worker.op = "restore")
    <3>1. stage = "ok"
      BY <2>6
    <3> HIDE DEF stage
    <3> QED
      BY <1>1, <1>4, <2>1, <2>2, <2>6, <3>1
  <2> QED
    BY <2>3, <2>4, <2>5, <2>6
<1>7. /\ worker' = [worker EXCEPT !.stage = stage]
      /\ IF stage \in Commands THEN Start(stage) ELSE UNCHANGED unit
  BY <1>3
<1> HIDE DEF stage, stageOf
<1>8. /\ worker' \in [op : Ops \cup {"none"},
                      stage : Commands \cup {"none", "finalize", "ok", "failed"}]
      /\ worker'.stage = stage /\ worker'.op = worker.op
  BY <1>6, <1>7, Faces DEF InterfaceTyped, Commands
<1>9. worker' # NoWorker
  BY <1>6, <1>8, BlankFaces
<1>10. Leaving'
  <2>1. CASE ~(kind = "tui" /\ rebooting # "no")
    BY <1>1, <2>1 DEF Leaving
  <2>2. CASE kind = "tui" /\ rebooting # "no"
    <3>1. helper /\ ~Running(client)
      BY <1>2, <2>2 DEF SessionInv, Leaving, Running
    <3>2. unit' = unit
      BY <1>6, <1>7, <2>2 DEF Commands
    <3>3. ASSUME rebooting = "asked"
          PROVE  worker.op = "reboot" /\ stage = "ok"
      <4>1. worker.op = "reboot" /\ worker.stage = "reboot" /\ unit[client].out = "COMPLETED"
        BY <1>2, <2>2, <3>1, <3>3 DEF SessionInv, Leaving, Commands
      <4> QED
        BY <1>5, <1>6, <4>1
    <3> QED
      BY <1>1, <1>2, <1>8, <3>1, <3>2, <3>3 DEF Leaving, Running
  <2> QED
    BY <2>1, <2>2
<1>11. CASE stage \in {"backup", "restore"}
  <2>1. /\ stage \in Commands /\ Start(stage) /\ helper
        /\ worker.op = OpOf(stage)
    BY <1>2, <1>6, <1>7, <1>11 DEF Commands, OpOf, SessionInv, Linked
  <2>2. stage = "backup" => files = "absent" /\ listed = "absent"
    BY <1>2, <1>6, Types DEF Reached
  <2>3. /\ unit' \in [Clients -> Units] /\ unit'[client].cmd = stage
        /\ \A d \in Clients \ {client} : unit'[d] = unit[d]
        /\ Meddled' = Meddled /\ Commanded' /\ Volume' /\ JobReached'
    BY <1>1, <1>11, <2>1, <2>2, Starting
  <2>4. TypeOK'
    BY <1>1, <1>8, <2>3 DEF SessionInv, TypeOK, Units
  <2>5. \A c \in Clients : c > client => unit'[c] = NoUnit
    BY <2>3, Types, ClientsTyped DEF SessionInv, Linked
  <2>6. Linked'
    BY <1>1, <1>2, <1>8, <1>9, <1>11, <2>1, <2>3, <2>5, BlankFaces DEF SessionInv, Linked
  <2>7. Looked'
    BY <1>1, <1>2, BlankFaces DEF Looked
  <2>8. NoFalseSuccess'
    BY <1>8, <1>11 DEF NoFalseSuccess
  <2> QED
    BY <1>10, <2>3, <2>4, <2>6, <2>7, <2>8 DEF SessionInv
<1>12. CASE stage \in {"finalize", "ok", "failed"}
  <2>1. unit' = unit
    BY <1>7, <1>12 DEF Commands
  <2>2. InterfaceTyped' /\ mount' \in {"none", "ro", "rw"}
    BY <1>1, <1>8, Faces, Types DEF InterfaceTyped
  <2>3. stage \notin Commands /\ stage # "check"
    BY <1>12 DEF Commands
  <2>4. ~Running(client)
    BY <1>2 DEF Running
  <2>5. Linked'
    BY <1>1, <1>2, <1>6, <1>8, <1>9, <2>1, <2>3, <2>4, BlankFaces
       DEF SessionInv, Linked, Running
  <2>6. Looked'
    BY <1>1, <1>2, BlankFaces DEF Looked
  <2>7. NoFalseSuccess'
    <3>1. ASSUME stage = "ok"
          PROVE  /\ worker.op = "restore" => windows = "restored"
                 /\ worker.op = "backup" => Verified \/ Meddled
                 /\ worker.op = "delete" => files = "absent" \/ Meddled
      <4>1. Completed(unit[client]) /\ unit[client].cmd = worker.stage
        BY <1>2, <1>6, <3>1
      <4>2. worker.op = "delete" => worker.stage \in {"delete", "local_delete"}
        BY <1>2 DEF OpOf, Commands
      <4> QED
        BY <1>6, <3>1, <4>1, <4>2, Types DEF Reached
    <3>2. Meddled' = Meddled /\ Verified' = Verified
      BY <1>1, <2>1, VolumeSame DEF volumeVars
    <3> QED
      BY <1>1, <1>8, <3>1, <3>2 DEF NoFalseSuccess
  <2> QED
    BY <1>1, <1>10, <2>1, <2>2, <2>5, <2>6, <2>7, InterfaceKeeps DEF volumeVars, fixedVars
<1> QED
  BY <1>6, <1>11, <1>12

LEMMA AskAgainStep ==
    ASSUME SessionInv, AskAgain, UNCHANGED fixedVars
    PROVE  SessionInv'
<1>1. /\ Answered /\ kind = "tui" /\ worker.stage = "reset" /\ Refresh
      /\ worker' = NoWorker /\ busy' = FALSE
      /\ UNCHANGED <<volumeVars, windows, rebooting, unit, client>>
      /\ UNCHANGED <<kind, helper>>
  BY DEF AskAgain, fixedVars
<1>2. /\ unit[client].step = "end" /\ unit[client].cmd = "reset"
      /\ worker.op = "backup" /\ "backup" \in Ops /\ dialog = NoDialog
  BY <1>1, AnsweredFacts DEF OpOf
<1>3. \/ /\ unit[client].out = "COMPLETED" /\ seen' = "none"
         /\ dialog' = [op |-> "backup", page |-> 3] /\ told' = told
      \/ told' = [op |-> "backup", ok |-> FALSE] /\ dialog' = dialog
  BY DEF AskAgain
<1>4. /\ dialog' \in [op : Ops \cup {"none"}, page : 0..3]
      /\ dialog' # NoDialog => dialog'.op \in Ops
      /\ dialog'.page = 3 => dialog'.op = "backup" /\ unit[client].out = "COMPLETED"
      /\ dialog'.op = "backup" => seen' = "none"
      /\ dialog'.op # "reboot"
      /\ told' \in [op : Ops \cup {"none"}, ok : BOOLEAN]
  <2>1. CASE /\ unit[client].out = "COMPLETED" /\ seen' = "none"
             /\ dialog' = [op |-> "backup", page |-> 3] /\ told' = told
    BY <1>2, <2>1, Faces DEF InterfaceTyped
  <2>2. CASE told' = [op |-> "backup", ok |-> FALSE] /\ dialog' = dialog
    BY <1>2, <2>2, BlankFaces
  <2> QED
    BY <1>3, <2>1, <2>2
<1>5. /\ mount' \in {"none", "ro", "rw"} /\ seen' \in Views
      /\ seen' = "none" => ~ValidBackup
  BY <1>1, RefreshShows
<1>6. InterfaceTyped'
  BY <1>1, <1>4, <1>5, BlankFaces DEF InterfaceTyped
<1>7. Linked'
  <2>1. "none" \notin Commands
    BY DEF Commands
  <2> QED
    BY <1>1, <1>2, <1>4, <2>1, BlankFaces DEF SessionInv, Linked, Running, At
<1>8. Looked'
  BY <1>1, <1>4, <1>5, VolumeSame DEF Looked
<1>9. NoFalseSuccess'
  BY <1>1, BlankFaces DEF NoFalseSuccess
<1>10. Leaving'
  BY <1>1, <1>2, BlankFaces DEF SessionInv, Leaving, Running
<1> QED
  BY <1>1, <1>5, <1>6, <1>7, <1>8, <1>9, <1>10, InterfaceKeeps

LEMMA FinalizeCheckStep ==
    ASSUME SessionInv, FinalizeCheck, UNCHANGED fixedVars
    PROVE  SessionInv'
<1> DEFINE stage == IF mount' # "none" /\ Verified THEN "ok" ELSE "failed"
<1>1. /\ worker.stage = "finalize" /\ Refresh
      /\ worker' = [worker EXCEPT !.stage = stage]
      /\ UNCHANGED <<volumeVars, windows, rebooting, unit, client, dialog, busy, told>>
      /\ UNCHANGED <<kind, helper>>
  BY DEF FinalizeCheck, fixedVars
<1>2. worker.op = "backup" /\ worker # NoWorker /\ ~Running(client)
  BY <1>1, BlankFaces DEF SessionInv, Linked, Commands
<1>3. busy /\ dialog = NoDialog
  BY <1>2 DEF SessionInv, Linked
<1>4. stage \in {"ok", "failed"} /\ (stage = "ok" => Verified)
  OBVIOUS
<1> HIDE DEF stage
<1>5. /\ worker' \in [op : Ops \cup {"none"},
                      stage : Commands \cup {"none", "finalize", "ok", "failed"}]
      /\ worker'.stage = stage /\ worker'.op = "backup"
  BY <1>1, <1>2, <1>4, Faces DEF InterfaceTyped
<1>6. stage \notin Commands /\ worker' # NoWorker
  BY <1>4, <1>5, BlankFaces DEF Commands
<1>7. mount' \in {"none", "ro", "rw"} /\ seen' \in Views
  BY <1>1, RefreshShows
<1>8. InterfaceTyped'
  BY <1>1, <1>5, <1>7, Faces DEF InterfaceTyped
<1>9. Linked'
  BY <1>1, <1>2, <1>3, <1>4, <1>5, <1>6, BlankFaces DEF SessionInv, Linked, Running
<1>10. Looked'
  BY <1>1, <1>3, BlankFaces DEF Looked
<1>11. NoFalseSuccess'
  BY <1>1, <1>4, <1>5, VolumeSame DEF NoFalseSuccess
<1>12. Leaving'
  BY <1>1, <1>2 DEF SessionInv, Leaving, Running
<1> QED
  BY <1>1, <1>7, <1>8, <1>9, <1>10, <1>11, <1>12, InterfaceKeeps

LEMMA CompleteStep ==
    ASSUME SessionInv, Complete, UNCHANGED fixedVars
    PROVE  SessionInv'
<1>1. /\ worker.stage \in {"ok", "failed"} /\ Refresh /\ busy' = FALSE /\ worker' = NoWorker
      /\ told' = [op |-> worker.op, ok |-> worker.stage = "ok"]
      /\ UNCHANGED <<volumeVars, windows, rebooting, unit, client, dialog>>
      /\ UNCHANGED <<kind, helper>>
  BY DEF Complete, fixedVars
<1>2. worker # NoWorker /\ ~Running(client)
  BY <1>1, BlankFaces DEF SessionInv, Linked, Commands
<1>3. busy /\ dialog = NoDialog
  BY <1>2 DEF SessionInv, Linked
<1>4. PICK b \in BOOLEAN : b = (worker.stage = "ok")
  OBVIOUS
<1>5. told' \in [op : Ops \cup {"none"}, ok : BOOLEAN]
  BY <1>1, <1>4, Faces DEF InterfaceTyped
<1>6. /\ mount' \in {"none", "ro", "rw"} /\ seen' \in Views
      /\ seen' = "none" => ~ValidBackup
  BY <1>1, RefreshShows
<1>7. InterfaceTyped'
  BY <1>1, <1>5, <1>6, Faces, BlankFaces DEF InterfaceTyped
<1>8. Linked'
  <2>1. "none" \notin Commands
    BY DEF Commands
  <2> QED
    BY <1>1, <1>2, <1>3, <2>1, BlankFaces DEF SessionInv, Linked, Running
<1>9. Looked'
  BY <1>1, <1>3, <1>6, BlankFaces, VolumeSame DEF Looked
<1>10. NoFalseSuccess'
  BY <1>1, BlankFaces DEF NoFalseSuccess
<1>11. Leaving'
  <2>1. ASSUME kind = "tui", rebooting = "asked"
        PROVE  worker.op = "reboot" /\ worker.stage = "ok"
    BY <1>1, <1>2, <2>1 DEF SessionInv, Leaving
  <2>2. ASSUME kind = "tui", rebooting = "asked"
        PROVE  told' = [op |-> "reboot", ok |-> TRUE]
    <3>1. b = TRUE
      BY <1>4, <2>1, <2>2
    <3> QED
      BY <1>1, <1>4, <2>1, <2>2, <3>1
  <2> QED
    BY <1>1, <1>2, <1>3, <2>2 DEF SessionInv, Leaving, Running
<1> QED
  BY <1>1, <1>6, <1>7, <1>8, <1>9, <1>10, <1>11, InterfaceKeeps

\* The interface is started again; its job, if it had one, is now a dead
\* interface's.
LEMMA DieStep ==
    ASSUME SessionInv, Die, UNCHANGED fixedVars
    PROVE  SessionInv'
<1>1. /\ kind = "gtk" /\ client < Starts /\ client' = client + 1 /\ Refresh
      /\ dialog' = NoDialog /\ busy' = FALSE /\ worker' = NoWorker /\ told' = Silence
      /\ UNCHANGED <<volumeVars, windows, rebooting, unit>>
      /\ UNCHANGED <<kind, helper, files, listed, marker, staged>>
  BY DEF Die, fixedVars, volumeVars
<1>2. client \in Nat /\ client \in Clients /\ client' \in Clients /\ client' > client
  BY <1>1, ClientsTyped, Types DEF Clients
<1>3. unit[client'] = NoUnit
  BY <1>2 DEF SessionInv, Linked
<1>4. mount' \in {"none", "ro", "rw"} /\ seen' \in Views
  BY <1>1, RefreshShows
<1>5. TypeOK'
  BY <1>1, <1>2, <1>4, BlankFaces DEF SessionInv, TypeOK
<1>6. Linked'
  <2>1. \A c \in Clients : c > client' => unit[c] = NoUnit
    BY <1>1, <1>2, ClientsTyped DEF SessionInv, Linked
  <2>2. "none" \notin Commands /\ "none" # "finalize" /\ "none" # "check"
    BY DEF Commands
  <2> QED
    BY <1>1, <1>3, <2>1, <2>2, BlankFaces DEF SessionInv, Linked, Running
<1>7. Commanded' /\ Volume'
  BY <1>1 DEF SessionInv, Commanded, Volume
<1>8. JobReached'
  BY <1>1, <1>3, BlankFaces DEF JobReached, Reached, Completed
<1>9. Looked' /\ NoFalseSuccess' /\ Leaving'
  BY <1>1, BlankFaces DEF Looked, NoFalseSuccess, Leaving
<1> QED
  BY <1>5, <1>6, <1>7, <1>8, <1>9 DEF SessionInv

LEMMA ShutdownQueuedStep ==
    ASSUME SessionInv, ShutdownQueued, UNCHANGED fixedVars
    PROVE  SessionInv'
<1>1. /\ rebooting = "asked" /\ rebooting' = "queued"
      /\ UNCHANGED <<volumeVars, windows, mount, unit>>
      /\ UNCHANGED <<client, seen, dialog, busy, worker, told, kind, helper>>
  BY DEF ShutdownQueued, fixedVars, uiVars
<1>2. InterfaceTyped' /\ mount' \in {"none", "ro", "rw"}
  BY <1>1, Faces, Types DEF InterfaceTyped
<1>3. Linked'
  BY <1>1 DEF SessionInv, Linked, Running, At
<1>4. Looked' /\ NoFalseSuccess'
  BY <1>1, VolumeSame DEF SessionInv, Looked, NoFalseSuccess, volumeVars
<1>5. Leaving'
  BY <1>1 DEF SessionInv, Leaving, Running, At
<1> QED
  BY <1>1, <1>2, <1>3, <1>4, <1>5, InterfaceKeeps DEF Reboots

LEMMA ShutdownStep ==
    ASSUME SessionInv, Shutdown, UNCHANGED fixedVars
    PROVE  SessionInv'
<1>1. /\ rebooting' = "no" /\ unit' = [c \in Clients |-> NoUnit] /\ client' = 1
      /\ dialog' = NoDialog /\ busy' = FALSE /\ worker' = NoWorker /\ told' = Silence
      /\ mount' = "ro" /\ seen' = View("ro")
      /\ UNCHANGED <<volumeVars, windows>>
      /\ UNCHANGED <<kind, helper, files, listed, marker, staged>>
  BY DEF Shutdown, fixedVars, volumeVars
<1>2. 1 \in Clients /\ unit' \in [Clients -> Units] /\ \A c \in Clients : unit'[c] = NoUnit
  BY <1>1, ClientsTyped, BlankFaces
<1>3. seen' \in Views /\ (seen' = "none" => ~ValidBackup)
  BY <1>1 DEF View, Views
<1>4. TypeOK'
  BY <1>1, <1>2, <1>3, BlankFaces DEF SessionInv, TypeOK, Units, Reboots
<1>5. Linked'
  <2>1. "none" \notin Commands
    BY DEF Commands
  <2> QED
    BY <1>1, <1>2, <2>1, BlankFaces DEF SessionInv, Linked, Running
<1>6. Commanded' /\ Volume'
  BY <1>1, <1>2, BlankFaces DEF SessionInv, Commanded, Volume
<1>7. JobReached'
  BY <1>1, <1>2, BlankFaces DEF JobReached, Reached, Completed
<1>8. Looked'
  BY <1>1, <1>3, BlankFaces DEF Looked, ValidBackup
<1>9. NoFalseSuccess' /\ Leaving'
  BY <1>1, BlankFaces DEF NoFalseSuccess, Leaving
<1> QED
  BY <1>4, <1>5, <1>6, <1>7, <1>8, <1>9 DEF SessionInv

-----------------------------------------------------------------------------
(***************************************************************************)
(* The invariant and what follows from it.                                 *)
(***************************************************************************)
LEMMA SessionInit == Init => SessionInv
<1> SUFFICES ASSUME Init PROVE SessionInv
  OBVIOUS
<1>1. /\ files \in {"absent", "whole"} /\ listed = files /\ marker = FALSE /\ staged = "absent"
      /\ kind \in Kinds /\ mount \in {"ro", "rw"} /\ windows = "original" /\ rebooting = "no"
      /\ unit = [c \in Clients |-> NoUnit] /\ client = 1 /\ seen = View(mount)
      /\ dialog = NoDialog /\ busy = FALSE /\ worker = NoWorker /\ told = Silence
      /\ helper \in BOOLEAN /\ (kind = "gtk" => helper)
  BY DEF Init
<1>2. 1 \in Clients /\ unit \in [Clients -> Units] /\ \A c \in Clients : unit[c] = NoUnit
  BY <1>1, ClientsTyped, BlankFaces
<1>3. seen \in Views /\ (seen = "none" => ~ValidBackup)
  BY <1>1 DEF View, Views
<1>4. TypeOK
  BY <1>1, <1>2, <1>3, BlankFaces DEF TypeOK, Units, Content, Reboots
<1>5. Linked
  <2>1. "none" \notin Commands
    BY DEF Commands
  <2> QED
    BY <1>1, <1>2, <2>1, BlankFaces DEF Linked, Running
<1>6. Commanded /\ Volume
  BY <1>1, <1>2, BlankFaces DEF Commanded, Volume
<1>7. JobReached
  BY <1>1, <1>2, BlankFaces DEF JobReached, Reached, Completed
<1>8. Looked
  BY <1>1, <1>3, BlankFaces DEF Looked
<1>9. NoFalseSuccess /\ Leaving
  BY <1>1, BlankFaces DEF NoFalseSuccess, Leaving
<1> QED
  BY <1>4, <1>5, <1>6, <1>7, <1>8, <1>9 DEF SessionInv

LEMMA SessionNext == SessionInv /\ [Next]_vars => SessionInv'
<1> SUFFICES ASSUME SessionInv, [Next]_vars
             PROVE  SessionInv'
  OBVIOUS
<1>1. CASE \E c \in Clients : Job(c)
  BY <1>1, JobStep
<1>2. CASE Interface
  <2>1. UNCHANGED fixedVars
    BY <1>2 DEF Interface
  <2>2. CASE User
    BY <2>1, <2>2, OpenStep, NextPageStep, CancelStep, AcceptStep DEF User
  <2>3. CASE Worker
    BY <2>1, <2>3, AnswerStep, AskAgainStep, FinalizeCheckStep, CompleteStep DEF Worker
  <2>4. CASE Die \/ Systemd
    BY <2>1, <2>4, DieStep, ShutdownQueuedStep, StoppedStep, ShutdownStep DEF Systemd
  <2> QED
    BY <1>2, <2>2, <2>3, <2>4 DEF Interface
<1>3. CASE UNCHANGED vars
  <2>1. /\ UNCHANGED <<volumeVars, windows, rebooting, unit, client, fixedVars>>
        /\ UNCHANGED <<mount, seen, dialog, busy, worker, told, kind, helper>>
        /\ UNCHANGED <<files, listed, marker, staged, unit, client, windows, rebooting>>
    BY <1>3 DEF vars, machineVars, volumeVars, fixedVars, uiVars
  <2>2. InterfaceTyped' /\ mount' \in {"none", "ro", "rw"}
    BY <2>1, Faces, Types DEF InterfaceTyped
  <2>3. Linked'
    BY <2>1 DEF SessionInv, Linked, Running, At
  <2>4. Looked' /\ NoFalseSuccess' /\ Leaving'
    BY <2>1, VolumeSame DEF SessionInv, Looked, NoFalseSuccess, Leaving, Running, At
  <2> QED
    BY <2>1, <2>2, <2>3, <2>4, InterfaceKeeps
<1> QED
  BY <1>1, <1>2, <1>3 DEF Next

\* The inductive invariant of the interface and the jobs.
THEOREM SessionInvariant == Spec => []SessionInv
  BY SessionInit, SessionNext, PTL DEF Spec

THEOREM SessionTypes == Spec => []TypeOK
<1>1. SessionInv => TypeOK
  BY DEF SessionInv
<1> QED
  BY <1>1, SessionInvariant, PTL

\* The user is told of a success only where there is one: the worker's last
\* stage follows a command that has done what it was asked for
\* (_on_backup_clicked and the other handlers of window.py, menu.py).
THEOREM SuccessIsReal == Spec => []NoFalseSuccess
<1>1. SessionInv => NoFalseSuccess
  BY DEF SessionInv
<1> QED
  BY <1>1, SessionInvariant, PTL

\* The text menu has nothing at work that a reboot it requested would cut: it
\* leaves its loop, and where the helper was stopped before it could say that it
\* succeeded, systemd refuses what the menu starts (reboot_to_windows_action).
THEOREM MenuLeavesForReboot == Spec => []RebootCutsNoJob
<1>1. SessionInv => RebootCutsNoJob
  <2> SUFFICES ASSUME SessionInv, kind = "tui", rebooting # "no",
                      NEW c \in Clients, Running(c)
               PROVE  At(c, "reboot", "exit")
    BY DEF RebootCutsNoJob
  <2> QED
    BY WhoRuns
<1> QED
  BY <1>1, SessionInvariant, PTL

\* The reset in front of a backup never meets a backup it could lose.
THEOREM ResetMeetsNoBackup == Spec => []ResetSparesBackup
<1>1. SessionInv => ResetSparesBackup
  BY DEF SessionInv, JobReached, Reached, ResetSparesBackup
<1> QED
  BY <1>1, SessionInvariant, PTL

\* Whatever is offered for restore is a whole backup, however many jobs of
\* dead interfaces still remove files and markers beside the present one.
THEOREM OfferedBackupIsWhole == Spec => []OfferedIsWhole
<1>1. SessionInv => OfferedIsWhole
  BY DEF SessionInv, TypeOK, Volume, OfferedIsWhole, ValidBackup, Content
<1> QED
  BY <1>1, SessionInvariant, PTL

\* What one step does to the commands of the jobs: one that runs keeps its
\* command, unless the machine goes down.
LEMMA JobKeepsCommand ==
    ASSUME TypeOK, NEW c \in Clients, Job(c), NEW d \in Clients
    PROVE  unit'[d].cmd = unit[d].cmd
  BY DEF TypeOK, Job, ResetUnmount, ResetMkfs, ResetMount, ResetErase, BackupPlan,
         BackupRemount, BackupMark, BackupCopy, BackupCopied, BackupFinalize,
         BackupPublish, BackupCloseout, BackupMarkFailed, CheckRestore, RemountRw,
         RemountRo, RestoreAuthorize, RestoreWrite, RestoreWritten, DeleteImages,
         DeleteState, DeleteLists, ClearLock, SetBootNext, RequestReboot, RebootExits, LocalStage,
         LocalStaged, LocalDrop, LocalUnstage, LocalRollback, JobRaises, Goto, Exit, Leave

LEMMA OthersStay ==
    ASSUME TypeOK, NEW c \in Clients, Job(c), NEW d \in Clients, d # c
    PROVE  unit'[d] = unit[d]
  BY DEF TypeOK, Job, ResetUnmount, ResetMkfs, ResetMount, ResetErase, BackupPlan,
         BackupRemount, BackupMark, BackupCopy, BackupCopied, BackupFinalize,
         BackupPublish, BackupCloseout, BackupMarkFailed, CheckRestore, RemountRw,
         RemountRo, RestoreAuthorize, RestoreWrite, RestoreWritten, DeleteImages,
         DeleteState, DeleteLists, ClearLock, SetBootNext, RequestReboot, RebootExits, LocalStage,
         LocalStaged, LocalDrop, LocalUnstage, LocalRollback, JobRaises, Goto, Exit, Leave

LEMMA StartsWhenIdle ==
    ASSUME SessionInv, Accept \/ Answer
    PROVE  /\ ~Running(client)
           /\ \A d \in Clients \ {client} : unit'[d] = unit[d]
<1>1. ~Running(client)
  <2>1. CASE Accept
    <3>1. ~busy
      BY <2>1 DEF Accept, SessionInv, Linked
    <3> QED
      BY <3>1, IdleFacts
  <2>2. CASE Answer
    BY <2>2 DEF Answer, Answered
  <2> QED
    BY <2>1, <2>2
<1>2. unit' = unit \/ \E cmd : Start(cmd)
  BY DEF Accept, Answer
<1>3. \A d \in Clients \ {client} : unit'[d] = unit[d]
  BY <1>2, Types DEF Start
<1> QED
  BY <1>1, <1>3

\* No interface has two jobs at work, whatever the user clicks while one is
\* (_set_busy, the dialogs of window.py and the loop of menu.py).
THEOREM OneJobAtATime == Spec => OneJobPerInterface
<1>1. ASSUME SessionInv, [Next]_vars
      PROVE  [\A c \in Clients :
                Running(c) /\ unit[c].cmd # unit'[c].cmd
                  => rebooting = "queued" /\ rebooting' = "no"]_vars
  <2> SUFFICES ASSUME Next, NEW d \in Clients, Running(d), unit[d].cmd # unit'[d].cmd
               PROVE  rebooting = "queued" /\ rebooting' = "no"
    BY <1>1
  <2>1. ~\E c \in Clients : Job(c)
    BY <1>1, Types, JobKeepsCommand
  <2>2. Interface
    BY <2>1 DEF Next
  <2>3. ~(Accept \/ Answer)
    BY <1>1, StartsWhenIdle
  <2>4. unit' # unit
    OBVIOUS
  <2>5. ~(Open \/ NextPage \/ Cancel \/ AskAgain \/ FinalizeCheck \/ Complete \/ Die
            \/ ShutdownQueued)
    BY <2>4 DEF Open, NextPage, Cancel, AskAgain, FinalizeCheck, Complete, Die,
       ShutdownQueued
  <2>6. ~\E c \in Clients : Stopped(c)
    BY <1>1, StoppedMoves DEF Moved
  <2> QED
    BY <2>2, <2>3, <2>5, <2>6 DEF Interface, User, Worker, Systemd, Shutdown
<1> QED
  BY <1>1, SessionInvariant, PTL DEF Spec, OneJobPerInterface

\* Partclone writes Windows from whole images only: the executor, which does
\* not hash them again, needs the invariant for that
\* (authorize_restore_execution, RestoreExecutor.execute).
THEOREM RestoreReadsWhole == Spec => RestoreReadsWholeImage
<1>1. ASSUME SessionInv, [Next]_vars
      PROVE  [\A c \in Clients :
                (At(c, "restore", "write") /\ unit'[c].step = "writing")
                   => files = "whole"]_vars
  <2> SUFFICES ASSUME Next, NEW d \in Clients, At(d, "restore", "write"),
                      unit'[d].step = "writing"
               PROVE  files = "whole"
    BY <1>1
  <2>1. /\ unit[d].cmd = "restore" /\ unit[d].step = "write" /\ Running(d)
        /\ unit'[d] # unit[d]
    BY DEF At, Running
  <2>2. CASE RestoreWrite(d)
    <3>1. ValidBackup /\ d = client
      BY <2>2 DEF RestoreWrite, Heard
    <3>2. helper \/ files = "whole"
      BY <1>1, <2>1, <3>1, Types DEF Reached
    <3> QED
      BY <1>1, <3>1, <3>2, Types DEF SessionInv, Volume, ValidBackup, Content
  <2>3. CASE JobRaises(d)
    <3>1. Handler(d) \in {"mark_failed", "rollback", "ro", "end"}
      BY DEF Handler
    <3>2. unit'[d].step = Handler(d)
      BY <1>1, <2>3, Types DEF JobRaises, Units
    <3> QED
      BY <3>1, <3>2
  <2>4. CASE \E c \in Clients : Job(c)
    <3>1. PICK c \in Clients : Job(c)
      BY <2>4
    <3>2. c = d
      BY <1>1, <2>1, <3>1, Types, OthersStay
    <3>3. RestoreWrite(d) \/ JobRaises(d)
      BY <2>1, <3>1, <3>2
         DEF Job, At, ResetUnmount, ResetMkfs, ResetMount, ResetErase, BackupPlan,
             BackupRemount, BackupMark, BackupCopy, BackupCopied, BackupFinalize,
             BackupPublish, BackupCloseout, BackupMarkFailed, CheckRestore, RemountRw,
             RemountRo, RestoreAuthorize, RestoreWritten, DeleteImages, DeleteState,
             DeleteLists, ClearLock, SetBootNext, RequestReboot, RebootExits, LocalStage,
             LocalStaged, LocalDrop, LocalUnstage, LocalRollback
    <3> QED
      BY <2>2, <2>3, <3>3
  <2>5. CASE Interface
    <3>1. ~(Accept \/ Answer)
      BY <1>1, <2>1, StartsWhenIdle
    <3>2. ~(Open \/ NextPage \/ Cancel \/ AskAgain \/ FinalizeCheck \/ Complete \/ Die
              \/ ShutdownQueued)
      BY <2>1 DEF Open, NextPage, Cancel, AskAgain, FinalizeCheck, Complete, Die,
         ShutdownQueued
    <3>3. ~Shutdown
      BY BlankFaces DEF Shutdown
    <3>4. ~\E c \in Clients : Stopped(c)
      BY <1>1, <2>1, StoppedMoves DEF Moved
    <3> QED
      BY <2>5, <3>1, <3>2, <3>3, <3>4 DEF Interface, User, Worker, Systemd
  <2> QED
    BY <2>4, <2>5 DEF Next
<1> QED
  BY <1>1, SessionInvariant, PTL DEF Spec, RestoreReadsWholeImage
=============================================================================
