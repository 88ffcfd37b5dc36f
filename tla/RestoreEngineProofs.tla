------------------------- MODULE RestoreEngineProofs -------------------------
(***************************************************************************)
(* What RestoreEngine guarantees for every set of RecoveryBoot files, every *)
(* set of callers and every kind of crash.                                 *)
(***************************************************************************)
EXTENDS RestoreEngine, TLAPS

-----------------------------------------------------------------------------
(***************************************************************************)
(* The operators on the record.                                            *)
(***************************************************************************)

\* Loading a file gives a record, and every helper keeps it one.
LEMMA RecordOperators ==
    ASSUME NEW file \in StateFiles, NEW s \in RecoveryStates
    PROVE  /\ FreshState \in RecoveryStates
           /\ Unreadable \in StateFiles
           /\ Stored(s) \in StateFiles
           /\ Load(file) \in RecoveryStates
           /\ MarkStarted(s) \in RecoveryStates
           /\ MarkSuccess(s) \in RecoveryStates
           /\ MarkFailed(s) \in RecoveryStates
           /\ CountFailure(s) \in RecoveryStates
           /\ ClearLock(s) \in RecoveryStates
<1>1. FreshState \in RecoveryStates
  BY DEF RecoveryStates, FreshState, MAX_RESTORE_ATTEMPTS
<1>2. Unreadable \in StateFiles
  BY <1>1 DEF StateFiles, Unreadable
<1>3. Stored(s) \in StateFiles
  BY DEF StateFiles, Stored
<1>4. Load(file) \in RecoveryStates
  BY <1>1 DEF StateFiles, Load
<1>5. MarkStarted(s) \in RecoveryStates
  BY DEF RecoveryStates, MarkStarted
<1>6. MarkSuccess(s) \in RecoveryStates
  BY DEF RecoveryStates, MarkSuccess
<1>7. MarkFailed(s) \in RecoveryStates
  BY DEF RecoveryStates, MarkFailed
<1>8. CountFailure(s) \in RecoveryStates
  BY DEF RecoveryStates, CountFailure, MAX_RESTORE_ATTEMPTS
<1>9. ClearLock(s) \in RecoveryStates
  BY DEF RecoveryStates, ClearLock
<1> QED
  BY <1>1, <1>2, <1>3, <1>4, <1>5, <1>6, <1>7, <1>8, <1>9

\* The snapshots a step of the code can leave.
LEMMA SnapshotTypes ==
    ASSUME NEW s \in Snapshots, NEW f \in EfiFiles, NEW c \in Content,
           NEW b \in BOOLEAN
    PROVE  /\ NoSnapshot \in Snapshots
           /\ [s EXCEPT !.files[f] = c] \in Snapshots
           /\ [s EXCEPT !.recoveryboot = b] \in Snapshots
           /\ [recoveryboot |-> b, files |-> [s.files EXCEPT ![f] = c]]
                 \in Snapshots
<1>1. NoSnapshot \in Snapshots
  BY DEF NoSnapshot, Snapshots, Content
<1>2. [s.files EXCEPT ![f] = c] \in [EfiFiles -> Content]
  BY DEF Snapshots
<1>3. [s EXCEPT !.files[f] = c] = [s EXCEPT !.files = [s.files EXCEPT ![f] = c]]
  BY DEF Snapshots
<1> QED
  BY <1>1, <1>2, <1>3 DEF Snapshots

\* What the helpers leave in the fields the lock and the success depend on.
LEMMA RecordMeaning ==
    ASSUME NEW s \in RecoveryStates
    PROVE  /\ MarkStarted(s).restore_in_progress
           /\ ~MarkStarted(s).restore_success
           /\ MarkFailed(s).rollback_required
           /\ ~MarkFailed(s).restore_success
           /\ CountFailure(s).rollback_required = s.rollback_required
           /\ CountFailure(s).restore_success = s.restore_success
           /\ ~ClearLock(s).restore_success
           /\ ~FreshState.restore_success
           /\ ~Unreadable.whole
           /\ Stored(s).whole /\ Stored(s).state = s
  BY DEF RecoveryStates, FreshState, MarkStarted, MarkFailed, CountFailure,
         ClearLock, Unreadable, Stored

-----------------------------------------------------------------------------
(***************************************************************************)
(* Type correctness.                                                       *)
(***************************************************************************)
LEMMA TypeInit == Init => TypeOK
<1> SUFFICES ASSUME Init PROVE TypeOK
  OBVIOUS
<1>1. Unreadable \in StateFiles /\ FreshState \in RecoveryStates
  BY DEF Unreadable, StateFiles, RecoveryStates, FreshState, MAX_RESTORE_ATTEMPTS
<1>2. esp \in [EfiFiles -> Content]
  BY DEF Init, Content
<1> QED
  BY <1>1, <1>2 DEF Init, TypeOK, Snapshots, NoSnapshot, Content, Steps, Jobs

LEMMA TypeStep ==
    ASSUME TypeOK, [Next]_vars
    PROVE  TypeOK'
<1> USE DEF TypeOK
<1>1. CASE Authorize
  BY <1>1, RecordOperators DEF Authorize, Pass, Ended, diskVars, history,
         Steps, TryStages, Jobs
<1>2. CASE Validate
  BY <1>2 DEF Validate, Pass, diskVars, history, Steps, TryStages, FailSteps
<1>3. CASE DropSnapshot
  <2>1. snapshot' \in Snapshots
    <3>1. "absent" \in Content /\ Bootmgfw \in EfiFiles
      BY DEF Content, EfiFiles
    <3>2. ASSUME NEW f \in EfiFiles,
                 snapshot' = [snapshot EXCEPT !.files[f] = "absent"]
          PROVE  snapshot' \in Snapshots
      BY <3>1, <3>2, SnapshotTypes
    <3>3. CASE snapshot' = [snapshot EXCEPT !.recoveryboot = FALSE]
      BY <3>1, <3>3, SnapshotTypes
    <3> QED
      BY <1>3, <3>2, <3>3 DEF DropSnapshot
  <2> QED
    BY <1>3, <2>1 DEF DropSnapshot, history, Steps, TryStages
<1>4. ASSUME NEW f \in EfiFiles, BackupEfiFile(f)
      PROVE  TypeOK'
  <2>1. snapshot' \in Snapshots
    BY <1>4, SnapshotTypes DEF BackupEfiFile, Content
  <2> QED
    BY <1>4, <2>1 DEF BackupEfiFile, history
<1>5. CASE BackupEfiDone \/ EnsureWindowsUnmounted \/ RestoreRecoveryBoot
           \/ VerifyWindowsBootManager \/ RepairBootorder \/ LogIntegrity
  BY <1>5 DEF BackupEfiDone, EnsureWindowsUnmounted, RestoreRecoveryBoot,
         VerifyWindowsBootManager, RepairBootorder, LogIntegrity, Pass,
         diskVars, history, Steps, TryStages
<1>6. CASE BackupGpt
  BY <1>6 DEF BackupGpt, history, Content, Steps, TryStages
<1>7. CASE RestoreStarted
  BY <1>7, RecordOperators DEF RestoreStarted, Truncate, Write, history, Steps,
         TryStages
<1>8. CASE PartcloneStart \/ PartcloneEnd
  BY <1>8 DEF PartcloneStart, PartcloneEnd, history, Steps, TryStages
<1>9. CASE DropRecoveryBoot
  BY <1>9 DEF DropRecoveryBoot, history, Content, EfiFiles, Steps, TryStages
<1>10. ASSUME NEW f \in RecoveryBoot, CopyRecoveryBootFile(f)
       PROVE  TypeOK'
  BY <1>10 DEF CopyRecoveryBootFile, history, Content, EfiFiles, Snapshots
<1>11. CASE CopyRecoveryBootDone
  BY <1>11, RecordOperators DEF CopyRecoveryBootDone, Pass, Ended, diskVars,
         history, Steps, TryStages, Jobs
<1>12. CASE RestoreSucceeded
  BY <1>12, RecordOperators DEF RestoreSucceeded, Truncate, Write, history,
         Steps, TryStages
<1>13. CASE Finally
  BY <1>13, RecordOperators DEF Finally, Ended, diskVars, history, Steps, Jobs
<1>14. CASE RestoreFailed
  BY <1>14, RecordOperators DEF RestoreFailed, Truncate, Write, history, Steps,
         FailSteps
<1>15. CASE Fault
  BY <1>15, RecordOperators DEF Fault, StageRaises, FailRaises,
         OperatorJobRaises, Ended, diskVars, history, Steps, FailSteps, Jobs
<1>16. CASE ClearRestoreFailureLock \/ DeleteBackup \/ FormatRecoveryImage
  <2>1. NoSnapshot \in Snapshots /\ "absent" \in Content
    BY DEF NoSnapshot, Snapshots, Content
  <2>2. CASE ClearRestoreFailureLock
    BY <2>2, RecordOperators DEF ClearRestoreFailureLock, Drop, Replace, Ended,
           history, Steps, OperatorSteps, Jobs
  <2>3. CASE DeleteBackup
    BY <2>3, RecordOperators DEF DeleteBackup, Drop, Replace, Ended, history,
           Steps, OperatorSteps, Jobs
  <2>4. CASE FormatRecoveryImage
    BY <2>1, <2>4, RecordOperators DEF FormatRecoveryImage, Drop, Replace, Ended,
           history, Steps, OperatorSteps, Jobs
  <2> QED
    BY <1>16, <2>2, <2>3, <2>4
<1>17. CASE RollbackBootmgfw
  BY <1>17 DEF RollbackBootmgfw, history, Content, EfiFiles, Snapshots
<1>18. CASE RollbackRecoveryBoot
  BY <1>18, RecordOperators DEF RollbackRecoveryBoot, Ended, diskVars, history,
         Steps, TryStages, Jobs
<1>19. CASE Launch
  BY <1>19 DEF Launch, RefreshMenu, MenuRestore, CliRestore, Start, diskVars,
         jobVars, history, Steps, OperatorSteps, Jobs
<1>20. CASE Environment
  <2>1. stateFile' \in StateFiles /\ durable' \in StateFiles
    BY <1>20, RecordOperators DEF Environment, WriteBack, BootmgfwLost,
           Killed, PowerLoss, diskVars
  <2>2. esp' \in [EfiFiles -> Content]
    BY <1>20 DEF Environment, WriteBack, BootmgfwLost, Killed, PowerLoss,
           diskVars, Content
  <2> QED
    BY <1>20, <2>1, <2>2, RecordOperators DEF Environment, WriteBack,
           BootmgfwLost, Killed, PowerLoss, Ended, diskVars, jobVars, history,
           Steps, Jobs
<1>21. CASE UNCHANGED vars
  BY <1>21 DEF vars, diskVars, jobVars, history
<1> QED
  BY <1>1, <1>2, <1>3, <1>4, <1>5, <1>6, <1>7, <1>8, <1>9, <1>10, <1>11, <1>12,
     <1>13, <1>14, <1>15, <1>16, <1>17, <1>18, <1>19, <1>20, <1>21
     DEF Next, JobStep, Restore, OperatorJob

\* TypeOK holds in every reachable state.
THEOREM TypeCorrect == Spec => []TypeOK
<1>1. Init => TypeOK
  BY TypeInit
<1>2. TypeOK /\ [Next]_vars => TypeOK'
  BY TypeStep
<1> QED
  BY <1>1, <1>2, PTL DEF Spec

-----------------------------------------------------------------------------
(***************************************************************************)
(* The record and the partition.                                           *)
(***************************************************************************)

\* From mark_restore_started to mark_restore_success.  The two steps that put
\* RecoveryBoot back also belong to an EFI rollback.
UnderWay ==
    \/ pc \in {"unmount_windows", "partclone_start", "partclone_run", "mount_efi",
               "verify_bootmgr", "repair_bootorder", "mark_success"}
    \/ job = "restore" /\ pc \in {"drop_recoveryboot", "copy_recoveryboot"}

\* From the end of partclone to the record of success.
Whole ==
    \/ pc \in {"mount_efi", "verify_bootmgr", "repair_bootorder", "mark_success",
               "write_success"}
    \/ job = "restore" /\ pc \in {"drop_recoveryboot", "copy_recoveryboot"}

SaysInProgress(s) == s.restore_in_progress /\ ~s.restore_success

SaysFailed(s) == s.rollback_required /\ ~s.restore_success

\* What the record and the buffers of the running job hold, step by step.
StepRecords ==
    /\ UnderWay => stateFile.whole /\ SaysInProgress(stateFile.state)
    /\ Whole => windows = "restored"
    /\ pc = "write_started" => SaysInProgress(buffer)
    /\ pc \in {"write_failed", "write_recorded", "write_count"} => SaysFailed(buffer)
    /\ pc = "count_failure" => stateFile.whole /\ SaysFailed(stateFile.state)
    /\ pc = "partclone_run" => windows = "torn"
    /\ pc \in {"write_clear", "write_deleted", "write_formatted"}
          => released /\ ~buffer.restore_success
    /\ pc = "rollback_bootmgfw" => job = "rollback"

\* The inductive invariant about the record: the two properties are kept by
\* the writes only because of what StepRecords knows about the buffers.
RecordInv == StepRecords /\ DamageIsRecorded /\ SuccessMeansRestored

LEMMA RecordInit == Init => RecordInv
  BY DEF Init, RecordInv, StepRecords, UnderWay, Whole, DamageIsRecorded,
         SuccessMeansRestored, Unreadable

\* A step that leaves the record, the partition and the history alone keeps
\* the two properties, and the rest is about the step it goes to.
LEMMA RecordKept ==
    ASSUME RecordInv,
           UNCHANGED <<stateFile, windows, released, rewound>>,
           StepRecords'
    PROVE  RecordInv'
  BY DEF RecordInv, DamageIsRecorded, SuccessMeansRestored

LEMMA RecordStep ==
    ASSUME TypeOK, RecordInv, [Next]_vars
    PROVE  RecordInv'
<1> USE DEF StepRecords, UnderWay, Whole
<1>0. /\ stateFile \in StateFiles /\ buffer \in RecoveryStates
      /\ Load(stateFile) \in RecoveryStates
      /\ stateFile.state \in RecoveryStates
  BY RecordOperators DEF TypeOK, StateFiles
<1>1. CASE Authorize \/ Validate \/ BackupEfiDone \/ EnsureWindowsUnmounted
           \/ RestoreRecoveryBoot \/ VerifyWindowsBootManager
           \/ RepairBootorder \/ LogIntegrity \/ Finally \/ Fault
  <2>1. UNCHANGED <<stateFile, windows, released, rewound>>
    BY <1>1 DEF Authorize, Validate, BackupEfiDone, EnsureWindowsUnmounted,
           RestoreRecoveryBoot, VerifyWindowsBootManager, RepairBootorder,
           LogIntegrity, Finally, Fault, StageRaises, FailRaises,
           OperatorJobRaises, Pass, diskVars, history
  <2>2. StepRecords'
    BY <1>1 DEF RecordInv, Authorize, Validate, BackupEfiDone,
           EnsureWindowsUnmounted, RestoreRecoveryBoot,
           VerifyWindowsBootManager, RepairBootorder, LogIntegrity, Finally,
           Fault, StageRaises, FailRaises, OperatorJobRaises, Pass, Ended,
           diskVars, history
  <2> QED
    BY <2>1, <2>2, RecordKept
<1>2. CASE DropSnapshot \/ (\E f \in EfiFiles : BackupEfiFile(f)) \/ BackupGpt
           \/ DropRecoveryBoot
           \/ (\E f \in RecoveryBoot : CopyRecoveryBootFile(f))
           \/ CopyRecoveryBootDone
  <2>1. UNCHANGED <<stateFile, windows, released, rewound>>
    BY <1>2 DEF DropSnapshot, BackupEfiFile, BackupGpt, DropRecoveryBoot,
           CopyRecoveryBootFile, CopyRecoveryBootDone, Pass, diskVars, history
  <2>2. StepRecords'
    BY <1>2 DEF RecordInv, DropSnapshot, BackupEfiFile, BackupGpt,
           DropRecoveryBoot, CopyRecoveryBootFile, CopyRecoveryBootDone, Pass,
           Ended, diskVars, history
  <2> QED
    BY <2>1, <2>2, RecordKept
<1>3. CASE RestoreStarted
  BY <1>0, <1>3, RecordMeaning DEF RecordInv, RestoreStarted, Truncate, Write,
         history, SaysInProgress, DamageIsRecorded, SuccessMeansRestored, Locked
<1>4. CASE PartcloneStart
  BY <1>4 DEF RecordInv, PartcloneStart, history, SaysInProgress,
         DamageIsRecorded, SuccessMeansRestored, Locked
<1>5. CASE PartcloneEnd
  BY <1>5 DEF RecordInv, PartcloneEnd, history, DamageIsRecorded,
         SuccessMeansRestored
<1>6. CASE RestoreSucceeded
  BY <1>0, <1>6, RecordMeaning DEF RecordInv, RestoreSucceeded, Truncate, Write,
         history, DamageIsRecorded, SuccessMeansRestored
<1>7. CASE RestoreFailed
  BY <1>0, <1>7, RecordMeaning DEF RecordInv, RestoreFailed, Truncate, Write,
         history, SaysFailed, DamageIsRecorded, SuccessMeansRestored, Locked,
         Load
<1>8. CASE ClearRestoreFailureLock \/ DeleteBackup \/ FormatRecoveryImage
  BY <1>0, <1>8, RecordMeaning DEF RecordInv, ClearRestoreFailureLock,
         DeleteBackup, FormatRecoveryImage, Drop, Replace, Ended, history,
         DamageIsRecorded, SuccessMeansRestored
<1>9. CASE RollbackBootmgfw \/ RollbackRecoveryBoot \/ Launch
  <2>1. UNCHANGED <<stateFile, windows, released, rewound>>
    BY <1>9 DEF RollbackBootmgfw, RollbackRecoveryBoot, Launch, RefreshMenu,
           MenuRestore, CliRestore, Start, diskVars, history
  <2>2. StepRecords'
    BY <1>9 DEF RecordInv, RollbackBootmgfw, RollbackRecoveryBoot, Launch,
           RefreshMenu, MenuRestore, CliRestore, Start, Ended, diskVars,
           jobVars, history
  <2> QED
    BY <2>1, <2>2, RecordKept
<1>10. CASE WriteBack \/ BootmgfwLost \/ Killed
  <2>1. UNCHANGED <<stateFile, windows, released, rewound>>
    BY <1>10 DEF WriteBack, BootmgfwLost, Killed, diskVars, history
  <2>2. StepRecords'
    BY <1>10 DEF RecordInv, WriteBack, BootmgfwLost, Killed, Ended, diskVars,
           jobVars, history
  <2> QED
    BY <2>1, <2>2, RecordKept
<1>11. CASE PowerLoss
  BY <1>11 DEF RecordInv, PowerLoss, Ended, DamageIsRecorded,
         SuccessMeansRestored
<1>12. CASE UNCHANGED vars
  BY <1>12 DEF RecordInv, vars, diskVars, jobVars, history, DamageIsRecorded,
         SuccessMeansRestored
<1> QED
  BY <1>1, <1>2, <1>3, <1>4, <1>5, <1>6, <1>7, <1>8, <1>9, <1>10, <1>11, <1>12
     DEF Next, JobStep, Restore, OperatorJob, Environment

LEMMA RecordInvariance == Spec => [](TypeOK /\ RecordInv)
<1>1. Init => TypeOK /\ RecordInv
  BY TypeInit, RecordInit
<1>2. TypeOK /\ RecordInv /\ [Next]_vars => (TypeOK /\ RecordInv)'
  BY TypeStep, RecordStep
<1> QED
  BY <1>1, <1>2, PTL DEF Spec

\* A half-written Windows partition is always admitted by the record, unless
\* an operator dropped the record or a power loss took back a write.
THEOREM DamageRecorded == Spec => []DamageIsRecorded
<1>1. TypeOK /\ RecordInv => DamageIsRecorded
  BY DEF RecordInv
<1> QED
  BY <1>1, RecordInvariance, PTL

\* A record that claims success is never left behind by a later restore.
THEOREM SuccessTrue == Spec => []SuccessMeansRestored
<1>1. TypeOK /\ RecordInv => SuccessMeansRestored
  BY DEF RecordInv
<1> QED
  BY <1>1, RecordInvariance, PTL

-----------------------------------------------------------------------------
(***************************************************************************)
(* The snapshot and the ESP.                                               *)
(***************************************************************************)

\* Each copy loop has copied what it has ticked off, the complete snapshot is
\* the ESP, and what a rollback needs is there before the record is written.
CopyInv ==
    /\ pc = "backup_efi"
          => \A f \in EfiFiles \ todo : snapshot.files[f] = esp[f]
    /\ pc \in BackedUp => snapshot.files = esp /\ esp[Bootmgfw] # "absent"
    /\ pc \in {"mark_started", "write_started", "unmount_windows",
               "partclone_start"} => gptSnapshot = "whole"
    /\ pc = "copy_recoveryboot"
          => \A f \in RecoveryBoot \ todo : esp[f] = snapshot.files[f]
    /\ pc \in PutBack => \A f \in RecoveryBoot : esp[f] = snapshot.files[f]

LEMMA CopyInit == Init => CopyInv
  BY DEF Init, CopyInv, BackedUp, PutBack

LEMMA CopyStep ==
    ASSUME TypeOK, CopyInv, [Next]_vars
    PROVE  CopyInv'
<1> USE DEF CopyInv, BackedUp, PutBack
<1>0. snapshot.files \in [EfiFiles -> Content] /\ esp \in [EfiFiles -> Content]
  BY DEF TypeOK, Snapshots
<1>1. CASE Authorize \/ Validate \/ Finally \/ Fault \/ LogIntegrity
  BY <1>1 DEF Authorize, Validate, Finally, Fault, StageRaises, FailRaises,
         OperatorJobRaises, LogIntegrity, Pass, Ended, diskVars, FailSteps
<1>2. CASE DropSnapshot
  BY <1>2 DEF DropSnapshot
<1>3. ASSUME NEW f \in EfiFiles, BackupEfiFile(f)
      PROVE  CopyInv'
  BY <1>0, <1>3 DEF BackupEfiFile
<1>4. CASE BackupEfiDone
  <2>1. snapshot.files = esp
    BY <1>0, <1>4 DEF BackupEfiDone, Pass
  <2> QED
    BY <1>4, <2>1 DEF BackupEfiDone, Pass, diskVars
<1>5. CASE BackupGpt
  BY <1>5 DEF BackupGpt
<1>6. CASE RestoreStarted \/ RestoreSucceeded \/ RestoreFailed
  BY <1>6 DEF RestoreStarted, RestoreSucceeded, RestoreFailed, Truncate, Write
<1>7. CASE EnsureWindowsUnmounted \/ PartcloneStart \/ PartcloneEnd
           \/ RestoreRecoveryBoot
  BY <1>7 DEF EnsureWindowsUnmounted, PartcloneStart, PartcloneEnd,
         RestoreRecoveryBoot, Pass, diskVars
<1>8. CASE DropRecoveryBoot
  BY <1>0, <1>8 DEF DropRecoveryBoot, EfiFiles
<1>9. ASSUME NEW f \in RecoveryBoot, CopyRecoveryBootFile(f)
      PROVE  CopyInv'
  BY <1>0, <1>9 DEF CopyRecoveryBootFile, EfiFiles
<1>10. CASE CopyRecoveryBootDone \/ VerifyWindowsBootManager \/ RepairBootorder
  BY <1>10 DEF CopyRecoveryBootDone, VerifyWindowsBootManager, RepairBootorder,
         Pass, Ended, diskVars
<1>11. CASE ClearRestoreFailureLock \/ DeleteBackup \/ FormatRecoveryImage
  BY <1>11 DEF ClearRestoreFailureLock, DeleteBackup, FormatRecoveryImage, Drop,
         Replace, Ended
<1>12. CASE RollbackBootmgfw \/ RollbackRecoveryBoot
  BY <1>12 DEF RollbackBootmgfw, RollbackRecoveryBoot, Ended, diskVars
<1>13. CASE Launch
  BY <1>13 DEF Launch, RefreshMenu, MenuRestore, CliRestore, Start, diskVars,
         jobVars
<1>14. CASE Environment
  <2>1. CASE BootmgfwLost
    BY <2>1 DEF BootmgfwLost, jobVars
  <2>2. CASE WriteBack \/ Killed \/ PowerLoss
    BY <2>2 DEF WriteBack, Killed, PowerLoss, Ended, diskVars, jobVars
  <2> QED
    BY <1>14, <2>1, <2>2 DEF Environment
<1>15. CASE UNCHANGED vars
  BY <1>15 DEF vars, diskVars, jobVars
<1> QED
  BY <1>1, <1>2, <1>3, <1>4, <1>5, <1>6, <1>7, <1>8, <1>9, <1>10, <1>11, <1>12,
     <1>13, <1>14, <1>15 DEF Next, JobStep, Restore, OperatorJob

LEMMA Invariance == Spec => [](TypeOK /\ RecordInv /\ CopyInv)
<1>1. Init => CopyInv
  BY CopyInit
<1>2. TypeOK /\ CopyInv /\ [Next]_vars => CopyInv'
  BY CopyStep
<1> QED
  BY <1>1, <1>2, RecordInvariance, PTL DEF Spec

\* The snapshot is the ESP while it may be needed, and RecoveryBoot is put
\* back as it was.
THEOREM PutBackExact == Spec => []RecoveryBootPutBack
<1>1. CopyInv => RecoveryBootPutBack
  BY DEF CopyInv, RecoveryBootPutBack
<1> QED
  BY <1>1, Invariance, PTL

\* Only partclone writes the partition at all.
LEMMA OnlyPartcloneWrites ==
    ASSUME [Next]_vars
    PROVE  PartcloneStart \/ PartcloneEnd \/ UNCHANGED windows
  BY DEF Next, JobStep, Restore, Fault, OperatorJob, Launch, Environment,
         Authorize, Validate, DropSnapshot, BackupEfiFile, BackupEfiDone,
         BackupGpt, RestoreStarted, EnsureWindowsUnmounted,
         RestoreRecoveryBoot, DropRecoveryBoot, CopyRecoveryBootFile,
         CopyRecoveryBootDone, VerifyWindowsBootManager, RepairBootorder,
         RestoreSucceeded, LogIntegrity, RestoreFailed, Finally, StageRaises,
         FailRaises, OperatorJobRaises, ClearRestoreFailureLock, DeleteBackup,
         FormatRecoveryImage, Drop, Replace, RollbackBootmgfw,
         RollbackRecoveryBoot, RefreshMenu, MenuRestore, CliRestore, Start,
         WriteBack, BootmgfwLost, Killed, PowerLoss, Pass, Ended, Truncate,
         Write, vars, diskVars, jobVars

\* Windows is written only under a record that says so, with the material of
\* a rollback in hand.
THEOREM IntentFirst == Spec => IntentBeforeDamage
<1>1. ASSUME TypeOK, RecordInv, CopyInv, [Next]_vars,
             windows' = "torn", windows # "torn"
      PROVE  /\ stateFile.whole
             /\ stateFile.state.restore_in_progress
             /\ ~stateFile.state.restore_success
             /\ gptSnapshot = "whole"
             /\ snapshot.files = esp
             /\ esp[Bootmgfw] # "absent"
  <2>1. pc = "partclone_start"
    BY <1>1, OnlyPartcloneWrites DEF PartcloneStart, PartcloneEnd
  <2> QED
    BY <1>1, <2>1 DEF RecordInv, StepRecords, UnderWay, SaysInProgress, CopyInv,
           BackedUp
<1>2. TypeOK /\ RecordInv /\ CopyInv /\ [Next]_vars
        => [(windows' = "torn" /\ windows # "torn")
              => /\ stateFile.whole
                 /\ stateFile.state.restore_in_progress
                 /\ ~stateFile.state.restore_success
                 /\ gptSnapshot = "whole"
                 /\ snapshot.files = esp
                 /\ esp[Bootmgfw] # "absent"]_vars
  BY <1>1
<1> QED
  BY <1>2, Invariance, PTL DEF Spec, IntentBeforeDamage

-----------------------------------------------------------------------------
(***************************************************************************)
(* The engine implements the intent protocol.                              *)
(***************************************************************************)

\* A step that leaves Windows alone is one of the record: it is locked, lost,
\* or settled, and it is settled only over a partition that is not torn.
LEMMA RecordMoves ==
    ASSUME RecordInv', UNCHANGED windows
    PROVE  [Intent!IntentNext]_<<windows, recordView>>
<1>1. recordView' = "open" => windows # "torn"
  BY DEF recordView, RecordInv, DamageIsRecorded
<1>2. recordView' \in {"open", "locked", "lost"}
  BY DEF recordView
<1>3. CASE recordView' = "locked"
  BY <1>3 DEF Intent!IntentNext, Intent!Lock
<1>4. CASE recordView' = "lost"
  BY <1>4 DEF Intent!IntentNext, Intent!Lose
<1>5. CASE recordView' = "open"
  BY <1>1, <1>5 DEF Intent!IntentNext, Intent!Settle
<1> QED
  BY <1>2, <1>3, <1>4, <1>5

LEMMA IntentStep ==
    ASSUME TypeOK, RecordInv, RecordInv', [Next]_vars
    PROVE  [Intent!IntentNext]_<<windows, recordView>>
<1>1. CASE PartcloneStart
  <2>1. recordView = "locked" /\ recordView' = "locked"
    BY <1>1 DEF PartcloneStart, history, recordView, RecordInv, StepRecords,
           UnderWay, SaysInProgress, Locked
  <2> QED
    BY <1>1, <2>1 DEF PartcloneStart, Intent!IntentNext, Intent!Damage
<1>2. CASE PartcloneEnd
  <2>1. recordView = "locked" /\ recordView' = "locked"
    BY <1>2 DEF PartcloneEnd, history, recordView, RecordInv, StepRecords,
           UnderWay, SaysInProgress, Locked
  <2>2. windows = "torn"
    BY <1>2 DEF PartcloneEnd, RecordInv, StepRecords
  <2> QED
    BY <1>2, <2>1, <2>2 DEF PartcloneEnd, Intent!IntentNext, Intent!Repair
<1>3. CASE UNCHANGED windows
  BY <1>3, RecordMoves
<1> QED
  BY <1>1, <1>2, <1>3, OnlyPartcloneWrites

\* The engine implements the intent protocol: its initial state is one of the
\* protocol's, and every step is a step of the protocol or a stutter.
THEOREM Implements == Spec => ImplementsIntent
<1>1. Init => Intent!IntentInit
  BY DEF Init, Intent!IntentInit, recordView, Unreadable
<1>2. TypeOK /\ RecordInv /\ RecordInv' /\ [Next]_vars
        => [Intent!IntentNext]_<<windows, recordView>>
  BY IntentStep
<1> QED
  BY <1>1, <1>2, Invariance, PTL DEF Spec, ImplementsIntent, Intent!IntentSpec

-----------------------------------------------------------------------------
(***************************************************************************)
(* The menu.                                                               *)
(***************************************************************************)

\* What the menu remembers is what the record says, as long as nothing but
\* the menu starts restores: every job it starts makes it refresh.
MenuInv ==
    /\ menu = "open" => pc = "idle" /\ ~Locked(Load(stateFile))
    /\ pc = "authorize" => ~Locked(Load(stateFile))

LEMMA MenuStep ==
    ASSUME "cli" \notin Callers, TypeOK, MenuInv, [Next]_vars
    PROVE  MenuInv'
<1> USE DEF MenuInv
<1>1. CASE Restore
  <2>1. menu' = menu /\ pc # "idle" /\ pc' # "authorize"
    BY <1>1 DEF Restore, Authorize, Validate, DropSnapshot, BackupEfiFile,
           BackupEfiDone, BackupGpt, RestoreStarted, EnsureWindowsUnmounted,
           PartcloneStart, PartcloneEnd, RestoreRecoveryBoot, DropRecoveryBoot,
           CopyRecoveryBootFile, CopyRecoveryBootDone,
           VerifyWindowsBootManager, RepairBootorder, RestoreSucceeded,
           LogIntegrity, RestoreFailed, Finally, Pass, Ended, Truncate, Write
  <2> QED
    BY <2>1
<1>2. CASE Fault \/ OperatorJob
  <2>1. UNCHANGED menu /\ (pc = "idle" => UNCHANGED stateFile)
          /\ pc' # "authorize" /\ (pc = "idle" => pc' = "idle")
    BY <1>2 DEF Fault, StageRaises, FailRaises, OperatorJobRaises, OperatorJob,
           ClearRestoreFailureLock, DeleteBackup, FormatRecoveryImage, Drop,
           Replace, RollbackBootmgfw, RollbackRecoveryBoot, Ended, diskVars,
           TryStages, FailSteps
  <2> QED
    BY <2>1
<1>3. CASE Launch
  BY <1>3 DEF Launch, RefreshMenu, MenuRestore, CliRestore, Start, diskVars,
         jobVars
<1>4. CASE WriteBack \/ BootmgfwLost \/ Killed
  BY <1>4 DEF WriteBack, BootmgfwLost, Killed, Ended, diskVars, jobVars
<1>5. CASE PowerLoss
  BY <1>5 DEF PowerLoss, Ended
<1>6. CASE UNCHANGED vars
  BY <1>6 DEF vars, diskVars, jobVars
<1> QED
  BY <1>1, <1>2, <1>3, <1>4, <1>5, <1>6 DEF Next, JobStep, Environment

\* With the menu as the only caller, no restore gets past its authorization
\* under a locked record.
THEOREM MenuGate ==
    ASSUME "cli" \notin Callers
    PROVE  Spec => MenuRespectsLock
<1>1. Init => MenuInv
  BY DEF Init, MenuInv
<1>2. TypeOK /\ MenuInv /\ [Next]_vars => MenuInv'
  BY MenuStep
<1>3. MenuInv /\ [Next]_vars
        => [pc = "authorize" /\ pc' = "validate"
              => ~Locked(Load(stateFile))]_vars
  BY DEF MenuInv
<1> QED
  BY <1>1, <1>2, <1>3, Invariance, PTL DEF Spec, MenuRespectsLock
=============================================================================
