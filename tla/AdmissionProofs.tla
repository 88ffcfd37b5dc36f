-------------------------- MODULE AdmissionProofs --------------------------
(***************************************************************************)
(* Theorems about what may be overwritten, for every number of jobs, every *)
(* size, margin and tolerance, and whatever disks are plugged in.          *)
(***************************************************************************)
EXTENDS Admission, FiniteSetTheorems, TLAPS

\* The records a job, the image and a disk can be.
Jobs ==
    {Idle}
    \cup [op : {"restore"}, pc : {"opened"}, by : {"tui", "gtk"}]
    \cup [op : {"restore"}, pc : {"planned", "authorized"}, full : BOOLEAN,
          compatible : BOOLEAN]
    \cup [op : {"restore"}, pc : {"resolved", "writing"}, target : {"home"}]
    \cup [op : {"extend"}, pc : {"shown"}]
    \cup [op : {"extend"}, pc : {"planned", "resized"}, goal : 1..Room, need : 0..Room]
    \cup [op : {"backup"}, pc : {"planned"}]
    \cup [op : {"backup"}, pc : {"copying", "copied"}, from : {"home"}, size : 1..Room]

ImageRecords ==
    [state : {"none", "incomplete", "published"},
     flaw : {"no", "type", "hash", "manifest"},
     device : {<<>>} \cup {"home"} \X (0..2) \X (1..Room),
     ids : {<<>>} \cup {"home"} \X (0..2) \X (1..2),
     source : 0..Room]

Shapes ==
    /\ TypeOK
    /\ job \in [Slots -> Jobs]
    /\ image \in ImageRecords
    /\ usb \in [vols : Sticks \cup {{}}, first : BOOLEAN, mounted : BOOLEAN]

\* What a job may rely on.  Jobs run under the recovery system only.  A goal
\* that was set covers the image and the NTFS, whatever becomes of them: a
\* backup gives the image the size of the NTFS, a restore the NTFS that of the
\* image.  An authorized restore has the unencrypted Windows of the machine
\* before it, and an image that fits what the kernel shows of it.
GoodJob(j) ==
    /\ j # Idle => os = "recovery"
    /\ j.op = "extend" /\ j.pc \in {"planned", "resized"} =>
          /\ image.source <= j.goal /\ win.ntfs <= j.goal
          /\ j.goal = j.need + Margin
    /\ j.op = "extend" /\ j.pc = "resized" /\ image.source = j.need
          => image.source <= win.table
    /\ j.op = "restore" /\ j.pc \in {"authorized", "resolved"} =>
          image.source <= win.kernel /\ win.fs = "ntfs"

GoodJobs == \A s \in Slots : GoodJob(job[s])

\* An image that fits what the kernel shows also fits the table: a smaller
\* table was written by a preparation whose goal covers the image.
TableFollows == image.source <= win.kernel => image.source <= win.table

\* PreparedIsEnough, whether the image is published yet or not.
PromiseHolds ==
    image.source = promise.need =>
        /\ promise.view = "kernel" => image.source <= win.kernel
        /\ promise.view # "none" => image.source <= win.table

AdmissionInv ==
    Shapes /\ GoodJobs /\ FileSystemFits /\ TableFollows /\ PromiseHolds

-----------------------------------------------------------------------------
(***************************************************************************)
(* What discover_layout finds.                                             *)
(***************************************************************************)
HomeWindows == [disk |-> "home", fs |-> win.fs, label |-> "", size |-> win.kernel]
HomeESP == [disk |-> "home", fs |-> "vfat", label |-> "", size |-> 1]
OnStick(fs) == [disk |-> "usb", fs |-> fs, label |-> "", size |-> Room]

LEMMA CandidateKinds ==
    ASSUME Shapes
    PROVE  /\ Candidates("ntfs") \subseteq {HomeWindows, OnStick("ntfs")}
           /\ Candidates("vfat") \subseteq {HomeESP, OnStick("vfat")}
           /\ HomeESP \in Candidates("vfat")
           /\ HomeWindows \in Candidates("ntfs") => win.fs = "ntfs"
<1>1. win.fs \in {"ntfs", "BitLocker"}
  BY DEF Shapes, TypeOK
<1>2. /\ HomeWindows.fs = win.fs
      /\ HomeESP.fs = "vfat"
      /\ \A f : OnStick(f).fs = f
  BY DEF HomeWindows, HomeESP, OnStick
<1>3. ASSUME NEW v \in Volumes, v.fs \in {"ntfs", "vfat"}
      PROVE  v \in {HomeWindows, HomeESP, OnStick(v.fs)}
  <2>1. \/ v \in {HomeESP, HomeWindows}
        \/ v \in {[disk |-> "home", fs |-> "ext4", label |-> "RECOVERY_IMAGE", size |-> 1],
                   [disk |-> "home", fs |-> "ext4", label |-> "RECOVERY_LINUX", size |-> 1]}
        \/ \E f : v = OnStick(f)
        \/ v = [disk |-> "usb", fs |-> "ext4", label |-> "RECOVERY_IMAGE", size |-> 1]
    BY DEF Volumes, HomeWindows, HomeESP, OnStick
  <2>2. v.fs # "ext4"
    BY <1>3
  <2>3. \/ v \in {HomeESP, HomeWindows}
        \/ \E f : v = OnStick(f)
    BY <2>1, <2>2
  <2> QED
    BY <1>2, <2>3
<1>4. Candidates("ntfs") \subseteq {HomeWindows, OnStick("ntfs")}
  <2>1. ASSUME NEW v \in Candidates("ntfs")
        PROVE  v \in Volumes /\ v.fs = "ntfs"
    BY DEF Candidates
  <2> QED
    BY <1>2, <1>3, <2>1
<1>5. Candidates("vfat") \subseteq {HomeESP, OnStick("vfat")}
  <2>1. ASSUME NEW v \in Candidates("vfat")
        PROVE  v \in Volumes /\ v.fs = "vfat"
    BY DEF Candidates
  <2>2. win.fs # "vfat"
    BY <1>1
  <2> QED
    BY <1>2, <1>3, <2>1, <2>2
<1>6. HomeESP \in Candidates("vfat")
  <2>1. HomeESP.fs = "vfat" /\ HomeESP.label = "" /\ HomeESP \in Volumes
    BY DEF Volumes, HomeESP
  <2> QED
    BY <2>1 DEF Candidates, RecoveryLabels
<1>7. HomeWindows \in Candidates("ntfs") => win.fs = "ntfs"
  BY <1>2 DEF Candidates
<1> QED
  BY <1>4, <1>5, <1>6, <1>7

LEMMA OnlyOne ==
    ASSUME NEW S, NEW a, NEW b, S \subseteq {a, b}, Cardinality(S) = 1
    PROVE  \E x : S = {x}
<1>1. IsFiniteSet({a}) /\ {a, b} = {a} \cup {b}
  BY FS_Singleton
<1>2. IsFiniteSet({a, b})
  BY <1>1, FS_AddElement
<1>3. IsFiniteSet(S)
  BY <1>2, FS_Subset
<1> QED
  BY <1>3, FS_Singleton

\* The EFI partition of the machine is always there, so that a second one, or
\* a Windows or RECOVERY_IMAGE on another disk, leaves no layout: the layout
\* is that of the machine, with its Windows unencrypted.
LEMMA LayoutIsHome ==
    ASSUME Shapes, Layout # NoLayout
    PROVE  Layout.windows = HomeWindows /\ win.fs = "ntfs"
<1>1. /\ Cardinality(Candidates("ntfs")) = 1
      /\ Cardinality(Candidates("vfat")) = 1
      /\ \A w \in Candidates("ntfs"), e \in Candidates("vfat") : SameDisk(w, e)
      /\ Layout = [windows |-> CHOOSE w \in Candidates("ntfs") : TRUE,
                   recovery |-> RecoveryImage]
  BY DEF Layout
<1>2. PICK w : Candidates("ntfs") = {w}
  BY <1>1, CandidateKinds, OnlyOne
<1>3. Layout.windows = w
  BY <1>1, <1>2
<1>4. SameDisk(w, HomeESP)
  BY <1>1, <1>2, CandidateKinds
<1>5. w.disk = "home"
  BY <1>4 DEF SameDisk, HomeESP
<1>6. OnStick("ntfs").disk = "usb"
  BY DEF OnStick
<1>7. w \in {HomeWindows, OnStick("ntfs")}
  BY <1>2, CandidateKinds
<1>8. w = HomeWindows
  BY <1>5, <1>6, <1>7
<1>9. HomeWindows \in Candidates("ntfs")
  BY <1>2, <1>8
<1> QED
  BY <1>3, <1>8, <1>9, CandidateKinds

-----------------------------------------------------------------------------
(***************************************************************************)
(* Steps of a job.                                                         *)
(***************************************************************************)
\* How the sizes may move without a job losing what it relies on.
SizesFollow ==
    /\ os' = os /\ win'.fs = win.fs /\ win'.table \in 1..Room
    /\ image'.source \in {0, image.source, win.ntfs}
    /\ win'.ntfs \in {win.ntfs, image.source}
    /\ image.source <= win.kernel => image'.source <= win'.kernel
    /\ \/ image'.source <= win'.table
       \/ image'.source = image.source /\ win'.table >= win.table

LEMMA SizeTypes ==
    ASSUME Shapes
    PROVE  /\ win.table \in 1..Room /\ win.kernel \in 1..Room /\ win.ntfs \in 1..Room
           /\ win.fs \in {"ntfs", "BitLocker"}
           /\ image.source \in 0..Room
           /\ promise.need \in 0..Room
           /\ promise.view \in {"none", "table", "kernel"}
           /\ Room \in Nat \ {0} /\ Margin \in Nat \ {0}
  BY SizesAssumption DEF Shapes, TypeOK

LEMMA GoalTypes ==
    ASSUME NEW STATE j, j \in Jobs, j.op = "extend", j.pc \in {"planned", "resized"}
    PROVE  j \in [op : {"extend"}, pc : {"planned", "resized"}, goal : 1..Room, need : 0..Room]
<1>1. Idle.op = "none"
  BY DEF Idle
<1> QED
  BY <1>1 DEF Jobs

LEMMA JobStaysGood ==
    ASSUME NEW x \in Slots, Shapes, GoodJob(job[x]), job'[x] = job[x], SizesFollow
    PROVE  GoodJob(job[x])'
<1>1. job[x] \in Jobs
  BY DEF Shapes
<1>2. job[x] # Idle => os' = "recovery"
  BY DEF GoodJob, SizesFollow
<1>3. ASSUME job[x].op = "extend", job[x].pc \in {"planned", "resized"}
      PROVE  /\ image'.source <= job[x].goal /\ win'.ntfs <= job[x].goal
             /\ job[x].goal = job[x].need + Margin
             /\ job[x].pc = "resized" /\ image'.source = job[x].need
                   => image'.source <= win'.table
  <2>1. job[x].goal \in 1..Room /\ job[x].need \in 0..Room
    BY <1>1, <1>3, GoalTypes
  <2>2. /\ image.source <= job[x].goal /\ win.ntfs <= job[x].goal
        /\ job[x].goal = job[x].need + Margin
        /\ job[x].pc = "resized" /\ image.source = job[x].need => image.source <= win.table
    BY <1>3 DEF GoodJob
  <2>3. image'.source <= job[x].goal /\ win'.ntfs <= job[x].goal
    BY <2>1, <2>2, SizeTypes DEF SizesFollow
  <2>4. job[x].pc = "resized" /\ image'.source = job[x].need => image'.source <= win'.table
    BY <2>1, <2>2, SizeTypes DEF SizesFollow
  <2> QED
    BY <2>2, <2>3, <2>4
<1>4. job[x].op = "restore" /\ job[x].pc \in {"authorized", "resolved"} =>
          image'.source <= win'.kernel /\ win'.fs = "ntfs"
  BY DEF GoodJob, SizesFollow
<1> QED
  BY <1>2, <1>3, <1>4 DEF GoodJob

LEMMA JobsStayGood ==
    ASSUME Shapes, GoodJobs, SizesFollow, NEW s \in Slots, GoodJob(job[s])',
           \A x \in Slots \ {s} : job'[x] = job[x]
    PROVE  GoodJobs'
<1>1. ASSUME NEW x \in Slots
      PROVE  GoodJob(job[x])'
  <2>1. CASE x = s
    BY <2>1
  <2>2. CASE x # s
    BY <2>2, JobStaysGood DEF GoodJobs
  <2> QED
    BY <2>1, <2>2
<1> QED
  BY <1>1 DEF GoodJobs

LEMMA BecomeShapes ==
    ASSUME NEW s \in Slots, NEW STATE new, new \in Jobs,
           job \in [Slots -> Jobs], Become(s, new)
    PROVE  /\ job' \in [Slots -> Jobs]
           /\ job'[s] = new
           /\ \A x \in Slots \ {s} : job'[x] = job[x]
  BY DEF Become

LEMMA JobOps == \A j \in Jobs : j.op \in {"none", "restore", "extend", "backup"}
<1>1. Idle.op = "none"
  BY DEF Idle
<1> QED
  BY <1>1 DEF Jobs

\* A step that changes nothing but one job.
LEMMA JobOnly ==
    ASSUME AdmissionInv, NEW s \in Slots, NEW STATE new, new \in Jobs, GoodJob(new),
           Become(s, new), UNCHANGED <<machine, image, promise, spent>>
    PROVE  AdmissionInv'
<1>1. UNCHANGED <<os, win, reports, ident, usb, mounted, image, promise, spent>>
  BY DEF machine
<1>2. /\ job' \in [Slots -> Jobs]
      /\ job'[s] = new
      /\ \A x \in Slots \ {s} : job'[x] = job[x]
  BY BecomeShapes DEF AdmissionInv, Shapes
<1>3. Shapes'
  BY <1>1, <1>2, JobOps DEF AdmissionInv, Shapes, TypeOK
<1>4. SizesFollow
  BY <1>1, SizeTypes DEF SizesFollow, AdmissionInv
<1>5. GoodJob(job[s])'
  BY <1>1, <1>2 DEF GoodJob
<1>6. GoodJobs'
  BY <1>2, <1>4, <1>5, JobsStayGood DEF AdmissionInv
<1>7. (FileSystemFits /\ TableFollows /\ PromiseHolds)'
  BY <1>1 DEF AdmissionInv, FileSystemFits, TableFollows, PromiseHolds
<1> QED
  BY <1>3, <1>6, <1>7 DEF AdmissionInv

LEMMA IdleIsGood == Idle \in Jobs /\ GoodJob(Idle)
  BY DEF Jobs, GoodJob, Idle

\* A job that runs has the recovery system under it.
LEMMA RunsInRecovery ==
    ASSUME AdmissionInv, NEW s \in Slots, job[s] # Idle
    PROVE  os = "recovery"
  BY DEF AdmissionInv, GoodJobs, GoodJob

LEMMA LayoutFacts ==
    ASSUME Shapes, Layout # NoLayout
    PROVE  /\ Layout.windows.disk = "home" /\ Layout.windows.size = win.kernel
           /\ win.fs = "ntfs"
<1>1. HomeWindows.disk = "home" /\ HomeWindows.size = win.kernel
  BY DEF HomeWindows
<1> QED
  BY <1>1, LayoutIsHome

LEMMA OpenRestoreStep ==
    ASSUME AdmissionInv, NEW s \in Slots, NEW by \in {"tui", "gtk"}, OpenRestore(s, by)
    PROVE  AdmissionInv'
<1> DEFINE new == [op |-> "restore", pc |-> "opened", by |-> by]
<1>1. new \in Jobs
  BY DEF Jobs
<1>2. GoodJob(new)
  BY DEF OpenRestore, Free, GoodJob
<1>3. Become(s, new) /\ UNCHANGED <<machine, image, promise, spent>>
  BY DEF OpenRestore
<1> HIDE DEF new
<1> QED
  BY <1>1, <1>2, <1>3, JobOnly

LEMMA PlanBoolean == Plan.compatible \in BOOLEAN
  BY DEF Plan

LEMMA TakePlanStep ==
    ASSUME AdmissionInv, NEW s \in Slots, TakePlan(s)
    PROVE  AdmissionInv'
<1> DEFINE new == [op |-> "restore", pc |-> "planned", full |-> FALSE,
                   compatible |-> Plan.compatible]
<1>0. job[s] # Idle
  BY DEF TakePlan, At, Idle
<1>1. new \in Jobs
  BY PlanBoolean DEF Jobs
<1>2. GoodJob(new)
  BY <1>0, RunsInRecovery DEF GoodJob
<1>3. /\ Become(s, Idle) \/ Become(s, new)
      /\ UNCHANGED <<machine, image, promise, spent>>
  BY DEF TakePlan
<1> HIDE DEF new
<1>4. CASE Become(s, Idle)
  BY <1>3, <1>4, IdleIsGood, JobOnly
<1>5. CASE Become(s, new)
  BY <1>1, <1>2, <1>3, <1>5, JobOnly
<1> QED
  BY <1>3, <1>4, <1>5

LEMMA RunCommandStep ==
    ASSUME AdmissionInv, NEW s \in Slots, NEW compatible \in BOOLEAN,
           RunCommand(s, compatible)
    PROVE  AdmissionInv'
<1> DEFINE new == [op |-> "restore", pc |-> "planned", full |-> TRUE,
                   compatible |-> compatible]
<1>1. new \in Jobs
  BY DEF Jobs
<1>2. GoodJob(new)
  BY DEF RunCommand, Free, GoodJob
<1>3. Become(s, new) /\ UNCHANGED <<machine, image, promise, spent>>
  BY DEF RunCommand
<1> HIDE DEF new
<1> QED
  BY <1>1, <1>2, <1>3, JobOnly

\* The gate: its layout is that of the machine, and the image fits into it.
LEMMA AuthorizeStep ==
    ASSUME AdmissionInv, NEW s \in Slots, Authorize(s)
    PROVE  AdmissionInv'
<1> DEFINE new == [job[s] EXCEPT !.pc = "authorized"]
<1>0. job[s].op = "restore" /\ job[s].pc = "planned" /\ job[s] # Idle
  BY DEF Authorize, At, Idle
<1>1. job[s] \in [op : {"restore"}, pc : {"planned", "authorized"}, full : BOOLEAN,
                  compatible : BOOLEAN]
  BY <1>0 DEF AdmissionInv, Shapes, Jobs
<1>2. /\ new \in [op : {"restore"}, pc : {"planned", "authorized"}, full : BOOLEAN,
                  compatible : BOOLEAN]
      /\ new.op = "restore" /\ new.pc = "authorized"
  BY <1>1
<1>3. new \in Jobs
  BY <1>2 DEF Jobs
<1>4. /\ Become(s, Idle) \/ (Authorized(job[s].compatible) /\ Become(s, new))
      /\ UNCHANGED <<machine, image, promise, spent>>
  BY DEF Authorize
<1>5. ASSUME Authorized(job[s].compatible)
      PROVE  GoodJob(new)
  <2>1. Layout # NoLayout /\ image.source <= Layout.windows.size
    BY <1>5 DEF Authorized, Fits
  <2>2. image.source <= win.kernel /\ win.fs = "ntfs"
    BY <2>1, LayoutFacts DEF AdmissionInv
  <2>3. os = "recovery"
    BY <1>0, RunsInRecovery
  <2> HIDE DEF new
  <2> QED
    BY <1>2, <2>2, <2>3 DEF GoodJob
<1> HIDE DEF new
<1>6. CASE Become(s, Idle)
  BY <1>4, <1>6, IdleIsGood, JobOnly
<1>7. CASE Authorized(job[s].compatible) /\ Become(s, new)
  BY <1>3, <1>4, <1>5, <1>7, JobOnly
<1> QED
  BY <1>4, <1>6, <1>7

\* The target is looked for once more, and can only be the machine's.
LEMMA ResolveStep ==
    ASSUME AdmissionInv, NEW s \in Slots, Resolve(s)
    PROVE  AdmissionInv'
<1> DEFINE new == [op |-> "restore", pc |-> "resolved", target |-> "home"]
<1>0. job[s].op = "restore" /\ job[s].pc = "authorized" /\ job[s] # Idle
  BY DEF Resolve, At, Idle
<1>1. new \in Jobs
  BY DEF Jobs
<1>2. GoodJob(new)
  <2>1. GoodJob(job[s]) /\ os = "recovery"
    BY <1>0, RunsInRecovery DEF AdmissionInv, GoodJobs
  <2>2. image.source <= win.kernel /\ win.fs = "ntfs"
    BY <1>0, <2>1 DEF GoodJob
  <2> QED
    BY <2>1, <2>2 DEF GoodJob
<1>3. /\ Become(s, Idle) \/ Become(s, new)
      /\ UNCHANGED <<machine, image, promise, spent>>
  BY LayoutFacts DEF Resolve, AdmissionInv
<1> HIDE DEF new
<1>4. CASE Become(s, Idle)
  BY <1>3, <1>4, IdleIsGood, JobOnly
<1>5. CASE Become(s, new)
  BY <1>1, <1>2, <1>3, <1>5, JobOnly
<1> QED
  BY <1>3, <1>4, <1>5

LEMMA EndStep ==
    ASSUME AdmissionInv, NEW s \in Slots, EndWrite(s) \/ ExtendFails(s) \/ Dies(s)
    PROVE  AdmissionInv'
<1>1. Become(s, Idle) /\ UNCHANGED <<machine, image, promise, spent>>
  BY DEF EndWrite, ExtendFails, Dies
<1> QED
  BY <1>1, IdleIsGood, JobOnly

LEMMA ShowExtendStep ==
    ASSUME AdmissionInv, NEW s \in Slots, ShowExtend(s)
    PROVE  AdmissionInv'
<1> DEFINE new == [op |-> "extend", pc |-> "shown"]
<1>1. new \in Jobs
  BY DEF Jobs
<1>2. GoodJob(new)
  BY DEF ShowExtend, Free, GoodJob
<1>3. Become(s, new) /\ UNCHANGED <<machine, image, promise, spent>>
  BY DEF ShowExtend
<1> HIDE DEF new
<1> QED
  BY <1>1, <1>2, <1>3, JobOnly

LEMMA PlanBackupStep ==
    ASSUME AdmissionInv, NEW s \in Slots, PlanBackup(s)
    PROVE  AdmissionInv'
<1> DEFINE new == [op |-> "backup", pc |-> "planned"]
<1>1. new \in Jobs
  BY DEF Jobs
<1>2. GoodJob(new)
  BY DEF PlanBackup, Free, GoodJob
<1>3. Become(s, new) /\ UNCHANGED <<machine, image, promise, spent>>
  BY DEF PlanBackup
<1> HIDE DEF new
<1> QED
  BY <1>1, <1>2, <1>3, JobOnly

\* The goal covers the image and, by FileSystemFits and the guard on the
\* table, the NTFS.
LEMMA PlanExtendStep ==
    ASSUME AdmissionInv, NEW s \in Slots, PlanExtend(s)
    PROVE  AdmissionInv'
<1> DEFINE new == [op |-> "extend", pc |-> "planned", goal |-> Goal, need |-> image.source]
<1>0. job[s] # Idle
  BY DEF PlanExtend, At, Idle
<1>1. /\ Become(s, Idle) \/ (CanExtend /\ Become(s, new))
      /\ UNCHANGED <<machine, image, promise, spent>>
  BY DEF PlanExtend
<1>2. ASSUME CanExtend
      PROVE  new \in Jobs /\ GoodJob(new)
  <2>1. /\ image.source \in 0..Room /\ Goal \in 1..Room
        /\ image.source <= Goal /\ win.ntfs <= Goal /\ Goal = image.source + Margin
    BY <1>2, SizeTypes DEF CanExtend, Goal, NextPartitionAllows, AdmissionInv, FileSystemFits
  <2>2. os = "recovery"
    BY <1>0, RunsInRecovery
  <2>3. new \in [op : {"extend"}, pc : {"planned", "resized"}, goal : 1..Room, need : 0..Room]
    BY <2>1
  <2>4. new \in Jobs
    BY <2>3 DEF Jobs
  <2>5. GoodJob(new)
    BY <2>1, <2>2 DEF GoodJob
  <2> QED
    BY <2>4, <2>5
<1> HIDE DEF new
<1>3. CASE Become(s, Idle)
  BY <1>1, <1>3, IdleIsGood, JobOnly
<1>4. CASE CanExtend /\ Become(s, new)
  BY <1>1, <1>2, <1>4, JobOnly
<1> QED
  BY <1>1, <1>3, <1>4

\* The NTFS takes the size of the image: the image fits what the kernel shows
\* and therefore, by TableFollows, the table.
LEMMA StartWriteStep ==
    ASSUME AdmissionInv, NEW s \in Slots, StartWrite(s)
    PROVE  AdmissionInv'
<1> DEFINE new == [job[s] EXCEPT !.pc = "writing"]
<1>0. job[s].op = "restore" /\ job[s].pc = "resolved" /\ job[s] # Idle
  BY DEF StartWrite, At, Idle
<1>1. job[s] \in [op : {"restore"}, pc : {"resolved", "writing"}, target : {"home"}]
  BY <1>0 DEF AdmissionInv, Shapes, Jobs
<1>2. /\ new \in [op : {"restore"}, pc : {"resolved", "writing"}, target : {"home"}]
      /\ new.op = "restore" /\ new.pc = "writing" /\ job[s].target = "home"
  BY <1>1
<1>3. new \in Jobs
  BY <1>2 DEF Jobs
<1>4. UNCHANGED <<os, reports, ident, usb, mounted, image, promise, spent>>
  BY DEF StartWrite
<1>5. \/ Become(s, Idle) /\ win' = win
      \/ image.source # 0 /\ Become(s, new) /\ win' = [win EXCEPT !.ntfs = image.source]
  BY <1>2 DEF StartWrite
<1> HIDE DEF new
<1>6. CASE Become(s, Idle) /\ win' = win
  BY <1>4, <1>6, IdleIsGood, JobOnly DEF machine
<1>7. CASE image.source # 0 /\ Become(s, new) /\ win' = [win EXCEPT !.ntfs = image.source]
  <2>1. os = "recovery" /\ image.source <= win.kernel
    BY <1>0, RunsInRecovery DEF AdmissionInv, GoodJobs, GoodJob
  <2>2. image.source <= win.table /\ image.source \in 1..Room
    BY <1>7, <2>1, SizeTypes DEF AdmissionInv, TableFollows
  <2>3. win \in [fs : {"ntfs", "BitLocker"}, table : 1..Room, kernel : 1..Room, ntfs : 1..Room]
    BY DEF AdmissionInv, Shapes, TypeOK
  <2>4. /\ win' \in [fs : {"ntfs", "BitLocker"}, table : 1..Room, kernel : 1..Room,
                     ntfs : 1..Room]
        /\ win'.ntfs = image.source /\ win'.table = win.table
        /\ win'.kernel = win.kernel /\ win'.fs = win.fs
    BY <1>7, <2>2, <2>3
  <2>5. /\ job' \in [Slots -> Jobs] /\ job'[s] = new
        /\ \A x \in Slots \ {s} : job'[x] = job[x]
    BY <1>3, <1>7, BecomeShapes DEF AdmissionInv, Shapes
  <2>6. Shapes'
    BY <1>4, <2>4, <2>5, JobOps DEF AdmissionInv, Shapes, TypeOK
  <2>7. SizesFollow
    BY <1>4, <2>4, SizeTypes DEF SizesFollow, AdmissionInv
  <2>8. GoodJob(job[s])'
    BY <1>2, <1>4, <2>1, <2>5 DEF GoodJob
  <2>9. GoodJobs'
    BY <2>5, <2>7, <2>8, JobsStayGood DEF AdmissionInv
  <2>10. (FileSystemFits /\ TableFollows /\ PromiseHolds)'
    BY <1>4, <2>1, <2>2, <2>4
       DEF AdmissionInv, FileSystemFits, TableFollows, PromiseHolds
  <2> QED
    BY <2>6, <2>9, <2>10 DEF AdmissionInv
<1> QED
  BY <1>5, <1>6, <1>7

LEMMA ExtendJob ==
    ASSUME AdmissionInv, NEW s \in Slots, job[s].op = "extend",
           job[s].pc \in {"planned", "resized"}
    PROVE  /\ job[s] \in [op : {"extend"}, pc : {"planned", "resized"}, goal : 1..Room,
                         need : 0..Room]
           /\ job[s] # Idle /\ os = "recovery"
           /\ image.source <= job[s].goal /\ win.ntfs <= job[s].goal
           /\ job[s].goal = job[s].need + Margin
           /\ job[s].pc = "resized" /\ image.source = job[s].need
                 => image.source <= win.table
<1>1. job[s] \in Jobs /\ GoodJob(job[s])
  BY DEF AdmissionInv, Shapes, GoodJobs
<1>2. job[s] # Idle
  BY DEF Idle
<1> QED
  BY <1>1, <1>2, GoalTypes DEF GoodJob

\* The new end of the partition is the goal, which covers the image and the
\* NTFS of now, whatever they were when the goal was set.
LEMMA ResizeStep ==
    ASSUME AdmissionInv, NEW s \in Slots, Resize(s)
    PROVE  AdmissionInv'
<1> DEFINE new == [job[s] EXCEPT !.pc = "resized"]
<1>0. job[s].op = "extend" /\ job[s].pc = "planned"
  BY DEF Resize, At
<1>1. /\ job[s] \in [op : {"extend"}, pc : {"planned", "resized"}, goal : 1..Room,
                     need : 0..Room]
      /\ os = "recovery"
      /\ image.source <= job[s].goal /\ win.ntfs <= job[s].goal
      /\ job[s].goal = job[s].need + Margin
  BY <1>0, ExtendJob
<1>2. /\ new \in [op : {"extend"}, pc : {"planned", "resized"}, goal : 1..Room, need : 0..Room]
      /\ new.op = "extend" /\ new.pc = "resized"
      /\ new.goal = job[s].goal /\ new.need = job[s].need
  BY <1>1
<1>3. new \in Jobs
  BY <1>2 DEF Jobs
<1>4. /\ Become(s, new)
      /\ UNCHANGED <<os, reports, ident, usb, mounted, image, promise, spent>>
  BY DEF Resize
<1>5. PICK k \in {win.kernel, job[s].goal} :
          win' = [win EXCEPT !.table = job[s].goal, !.kernel = k]
  BY DEF Resize
<1> HIDE DEF new
<1>6. win \in [fs : {"ntfs", "BitLocker"}, table : 1..Room, kernel : 1..Room, ntfs : 1..Room]
  BY DEF AdmissionInv, Shapes, TypeOK
<1>7. /\ win' \in [fs : {"ntfs", "BitLocker"}, table : 1..Room, kernel : 1..Room, ntfs : 1..Room]
      /\ win'.table = job[s].goal /\ win'.kernel = k
      /\ win'.ntfs = win.ntfs /\ win'.fs = win.fs
  BY <1>1, <1>5, <1>6
<1>8. /\ job' \in [Slots -> Jobs] /\ job'[s] = new
      /\ \A x \in Slots \ {s} : job'[x] = job[x]
  BY <1>3, <1>4, BecomeShapes DEF AdmissionInv, Shapes
<1>9. Shapes'
  BY <1>4, <1>7, <1>8, JobOps DEF AdmissionInv, Shapes, TypeOK
<1>10. /\ image'.source = image.source
       /\ image.source <= win.kernel => image.source <= win'.kernel
  BY <1>1, <1>4, <1>7
<1>11. SizesFollow
  BY <1>1, <1>4, <1>7, <1>10, SizeTypes DEF SizesFollow
<1>12. GoodJob(job[s])'
  BY <1>1, <1>2, <1>4, <1>7, <1>8 DEF GoodJob
<1>13. GoodJobs'
  BY <1>8, <1>11, <1>12, JobsStayGood DEF AdmissionInv
<1>14. (FileSystemFits /\ TableFollows /\ PromiseHolds)'
  BY <1>1, <1>4, <1>7, <1>10
     DEF AdmissionInv, FileSystemFits, TableFollows, PromiseHolds
<1> QED
  BY <1>9, <1>13, <1>14 DEF AdmissionInv

\* COMPLETED is said of what the kernel shows, PENDING_REBOOT of the table.
LEMMA SettleStep ==
    ASSUME AdmissionInv, NEW s \in Slots, Settle(s)
    PROVE  AdmissionInv'
<1>0. job[s].op = "extend" /\ job[s].pc = "resized"
  BY DEF Settle, At
<1>1. /\ job[s].goal \in 1..Room /\ job[s].need \in 0..Room
      /\ image.source <= job[s].goal
      /\ image.source = job[s].need => image.source <= win.table
  BY <1>0, ExtendJob
<1>2. /\ Become(s, Idle)
      /\ UNCHANGED <<os, reports, ident, usb, mounted, image, spent>>
      /\ promise' = [view |-> IF win'.kernel >= job[s].goal THEN "kernel" ELSE "table",
                     need |-> job[s].need]
  BY DEF Settle, Detected
<1>3. PICK k \in {win.kernel, win.table} : win' = [win EXCEPT !.kernel = k]
  BY DEF Settle
<1>4. win \in [fs : {"ntfs", "BitLocker"}, table : 1..Room, kernel : 1..Room, ntfs : 1..Room]
  BY DEF AdmissionInv, Shapes, TypeOK
<1>5. /\ win' \in [fs : {"ntfs", "BitLocker"}, table : 1..Room, kernel : 1..Room, ntfs : 1..Room]
      /\ win'.table = win.table /\ win'.kernel = k
      /\ win'.ntfs = win.ntfs /\ win'.fs = win.fs
  BY <1>3, <1>4
<1>6. /\ promise' \in [view : {"none", "table", "kernel"}, need : 0..Room]
      /\ promise'.need = job[s].need
      /\ promise'.view = "kernel" => win'.kernel >= job[s].goal
  BY <1>1, <1>2
<1>7. /\ job' \in [Slots -> Jobs] /\ job'[s] = Idle
      /\ \A x \in Slots \ {s} : job'[x] = job[x]
  BY <1>2, IdleIsGood, BecomeShapes DEF AdmissionInv, Shapes
<1>8. Shapes'
  BY <1>2, <1>5, <1>6, <1>7, JobOps DEF AdmissionInv, Shapes, TypeOK
<1>9. image'.source = image.source /\ (image.source <= win.kernel => image.source <= win'.kernel)
  BY <1>2, <1>5 DEF AdmissionInv, TableFollows
<1>10. SizesFollow
  BY <1>2, <1>5, <1>9, SizeTypes DEF SizesFollow, AdmissionInv
<1>11. GoodJob(job[s])'
  BY <1>7 DEF GoodJob, Idle
<1>12. GoodJobs'
  BY <1>7, <1>10, <1>11, JobsStayGood DEF AdmissionInv
<1>13. FileSystemFits' /\ TableFollows'
  BY <1>2, <1>5, <1>9, SizeTypes DEF AdmissionInv, FileSystemFits, TableFollows
<1>14. PromiseHolds'
  <2>1. ASSUME image'.source = promise'.need, promise'.view = "kernel"
        PROVE  image'.source <= win'.kernel
    BY <1>1, <1>2, <1>5, <1>6, <2>1, SizeTypes DEF AdmissionInv
  <2>2. ASSUME image'.source = promise'.need
        PROVE  image'.source <= win'.table
    BY <1>1, <1>5, <1>6, <1>9, <2>2
  <2> QED
    BY <2>1, <2>2 DEF PromiseHolds
<1> QED
  BY <1>8, <1>12, <1>13, <1>14 DEF AdmissionInv

\* Steps on the image, which may empty it or give it the size of the NTFS.
LEMMA ImageStep ==
    ASSUME AdmissionInv, job' \in [Slots -> Jobs], GoodJobs',
           image' \in ImageRecords, image'.source \in {0, image.source, win.ntfs},
           UNCHANGED <<os, win, reports, ident, usb, promise>>,
           mounted' \in BOOLEAN, spent' \in 0..Budget
    PROVE  AdmissionInv'
<1>1. Shapes'
  BY JobOps DEF AdmissionInv, Shapes, TypeOK, ImageRecords
<1>2. FileSystemFits'
  BY DEF AdmissionInv, FileSystemFits
<1>3. CASE image'.source = image.source
  <2>1. TableFollows' /\ PromiseHolds'
    BY <1>3 DEF AdmissionInv, TableFollows, PromiseHolds
  <2> QED
    BY <1>1, <1>2, <2>1 DEF AdmissionInv
<1>4. CASE image'.source \in {0, win.ntfs}
  <2>1. image'.source <= win'.table /\ image'.source <= win'.kernel
    BY <1>4, SizeTypes DEF AdmissionInv, FileSystemFits
  <2>2. TableFollows' /\ PromiseHolds'
    BY <2>1 DEF TableFollows, PromiseHolds
  <2> QED
    BY <1>1, <1>2, <2>2 DEF AdmissionInv
<1> QED
  BY <1>3, <1>4

LEMMA ImageFollows ==
    ASSUME AdmissionInv, image'.source \in {0, image.source, win.ntfs}, UNCHANGED <<os, win>>
    PROVE  SizesFollow
<1>1. CASE image'.source = image.source
  BY <1>1, SizeTypes DEF SizesFollow, AdmissionInv
<1>2. CASE image'.source \in {0, win.ntfs}
  BY <1>2, SizeTypes DEF SizesFollow, AdmissionInv, FileSystemFits
<1> QED
  BY <1>1, <1>2

\* ... taken by one job, which then is one without claims on the sizes.
LEMMA ImageJobStep ==
    ASSUME AdmissionInv, NEW s \in Slots, NEW STATE new, new \in Jobs, Become(s, new),
           new.op \in {"none", "backup"}, os = "recovery",
           image' \in ImageRecords, image'.source \in {0, image.source, win.ntfs},
           UNCHANGED <<os, win, reports, ident, usb, promise, spent>>,
           mounted' \in BOOLEAN
    PROVE  AdmissionInv'
<1>1. /\ job' \in [Slots -> Jobs] /\ job'[s] = new
      /\ \A x \in Slots \ {s} : job'[x] = job[x]
  BY BecomeShapes DEF AdmissionInv, Shapes
<1>2. GoodJob(job[s])'
  BY <1>1 DEF GoodJob
<1>3. GoodJobs'
  BY <1>1, <1>2, ImageFollows, JobsStayGood DEF AdmissionInv
<1>4. spent' \in 0..Budget
  BY DEF AdmissionInv, Shapes, TypeOK
<1> QED
  BY <1>1, <1>3, <1>4, ImageStep

LEMMA BackupJob ==
    ASSUME Shapes, NEW s \in Slots, job[s].op = "backup", job[s].pc \in {"copying", "copied"}
    PROVE  job[s] \in [op : {"backup"}, pc : {"copying", "copied"}, from : {"home"}, size : 1..Room]
<1>1. job[s] \in Jobs
  BY DEF Shapes
<1>2. Idle.op = "none"
  BY DEF Idle
<1> QED
  BY <1>1, <1>2 DEF Jobs

LEMMA BeginBackupStep ==
    ASSUME AdmissionInv, NEW s \in Slots, BeginBackup(s)
    PROVE  AdmissionInv'
<1> DEFINE new == [op |-> "backup", pc |-> "copying", from |-> "home", size |-> win.kernel]
<1>0. job[s] # Idle
  BY DEF BeginBackup, At, Idle
<1>1. os = "recovery" /\ UNCHANGED <<os, win, reports, ident, usb, promise, spent>>
  BY <1>0, RunsInRecovery DEF BeginBackup
<1>2. image \in ImageRecords /\ mounted \in BOOLEAN /\ Idle.op = "none"
  BY DEF AdmissionInv, Shapes, TypeOK, Idle
<1>3. /\ [image EXCEPT !.state = "incomplete"] \in ImageRecords
      /\ [image EXCEPT !.state = "incomplete"].source = image.source
  BY <1>2 DEF ImageRecords
<1>4. /\ mounted' \in BOOLEAN
      /\ image' \in {image, [image EXCEPT !.state = "incomplete"]}
      /\ Become(s, Idle) \/ Become(s, new)
  BY <1>2, LayoutFacts DEF BeginBackup, AdmissionInv
<1>5. new \in Jobs /\ new.op = "backup"
  BY SizeTypes DEF Jobs, AdmissionInv
<1> HIDE DEF new
<1>6. image' \in ImageRecords /\ image'.source = image.source
  BY <1>2, <1>3, <1>4
<1>7. CASE Become(s, Idle)
  BY <1>1, <1>2, <1>4, <1>6, <1>7, IdleIsGood, ImageJobStep
<1>8. CASE Become(s, new)
  BY <1>1, <1>4, <1>5, <1>6, <1>8, ImageJobStep
<1> QED
  BY <1>4, <1>7, <1>8

\* The image is as large as the NTFS of now, for which a preparation beside
\* it has room: its goal covers the NTFS.
LEMMA CopyWindowsStep ==
    ASSUME AdmissionInv, NEW s \in Slots, CopyWindows(s)
    PROVE  AdmissionInv'
<1> DEFINE new == [job[s] EXCEPT !.pc = "copied"]
<1>0. job[s].op = "backup" /\ job[s].pc = "copying" /\ job[s] # Idle
  BY DEF CopyWindows, At, Idle
<1>1. job[s] \in [op : {"backup"}, pc : {"copying", "copied"}, from : {"home"}, size : 1..Room]
  BY <1>0, BackupJob DEF AdmissionInv
<1>2. new \in [op : {"backup"}, pc : {"copying", "copied"}, from : {"home"}, size : 1..Room]
  BY <1>1
<1>3. new \in Jobs /\ new.op = "backup"
  BY <1>2 DEF Jobs
<1>4. /\ Become(s, new) /\ image' = [image EXCEPT !.source = win.ntfs]
      /\ UNCHANGED <<os, win, reports, ident, usb, promise, spent>> /\ mounted' = mounted
  BY DEF CopyWindows, machine
<1>5. os = "recovery" /\ image \in ImageRecords /\ mounted \in BOOLEAN /\ win.ntfs \in 0..Room
  BY <1>0, RunsInRecovery, SizeTypes DEF AdmissionInv, Shapes, TypeOK
<1>6. image' \in ImageRecords /\ image'.source = win.ntfs
  BY <1>4, <1>5 DEF ImageRecords
<1> HIDE DEF new
<1> QED
  BY <1>3, <1>4, <1>5, <1>6, ImageJobStep

LEMMA PublishStep ==
    ASSUME AdmissionInv, NEW s \in Slots, Publish(s)
    PROVE  AdmissionInv'
<1> DEFINE new == [Taken EXCEPT !.device = <<"home", DiskId, job[s].size>>, !.source = image.source]
<1>0. job[s].op = "backup" /\ job[s].pc = "copied" /\ job[s] # Idle
  BY DEF Publish, At, Idle
<1>1. job[s].size \in 1..Room
  BY <1>0, BackupJob DEF AdmissionInv
<1>2. /\ Become(s, Idle) /\ image' \in {image, new}
      /\ UNCHANGED <<os, win, reports, ident, usb, promise, spent>> /\ mounted' = mounted
  BY DEF Publish, machine
<1>3. /\ os = "recovery" /\ image \in ImageRecords /\ mounted \in BOOLEAN
      /\ Idle.op = "none" /\ image.source \in 0..Room
      /\ DiskId \in 0..2 /\ ident \in 1..2
  BY <1>0, RunsInRecovery, SizeTypes DEF AdmissionInv, Shapes, TypeOK, Idle, DiskId
<1>4. Taken \in ImageRecords
  BY <1>3, SizeTypes DEF Taken, ImageRecords, AdmissionInv
<1>5. new \in ImageRecords /\ new.source = image.source
  <2>1. <<"home", DiskId, job[s].size>> \in {"home"} \X (0..2) \X (1..Room)
    BY <1>1, <1>3
  <2> QED
    BY <1>3, <1>4, <2>1 DEF ImageRecords
<1> HIDE DEF new
<1>6. image' \in ImageRecords /\ image'.source = image.source
  BY <1>2, <1>3, <1>5
<1> QED
  BY <1>2, <1>3, <1>6, IdleIsGood, ImageJobStep

-----------------------------------------------------------------------------
(***************************************************************************)
(* Steps from outside.                                                     *)
(***************************************************************************)
LEMMA SpentTyped == ASSUME AdmissionInv, Spend PROVE spent' \in 0..Budget
  BY SizesAssumption DEF AdmissionInv, Shapes, TypeOK, Spend

\* Disks that come and go touch nothing of the machine.
LEMMA PlugStep ==
    ASSUME AdmissionInv, Unplug \/ \E stick \in Sticks : Plug(stick)
    PROVE  AdmissionInv'
<1>1. UNCHANGED <<os, win, reports, ident, mounted, image, job, promise>>
  BY DEF Unplug, Plug
<1>2. usb' \in [vols : Sticks \cup {{}}, first : BOOLEAN, mounted : BOOLEAN]
  <2>1. Unplugged \in [vols : Sticks \cup {{}}, first : BOOLEAN, mounted : BOOLEAN]
    BY DEF Unplugged
  <2>2. ASSUME NEW stick \in Sticks, Plug(stick)
        PROVE  usb' \in [vols : Sticks \cup {{}}, first : BOOLEAN, mounted : BOOLEAN]
    <3>1. PICK first \in BOOLEAN, there \in BOOLEAN :
              usb' = [vols |-> stick, first |-> first, mounted |-> there /\ "image" \in stick]
      BY <2>2 DEF Plug
    <3>2. PICK b \in BOOLEAN : b = (there /\ "image" \in stick)
      OBVIOUS
    <3>3. usb' = [vols |-> stick, first |-> first, mounted |-> b]
      BY <3>1, <3>2
    <3> QED
      BY <3>3
  <2> QED
    BY <2>1, <2>2 DEF Unplug
<1>3. spent' \in 0..Budget
  BY SpentTyped DEF Unplug, Plug, AdmissionInv, Shapes, TypeOK
<1>4. Shapes'
  BY <1>1, <1>2, <1>3 DEF AdmissionInv, Shapes, TypeOK
<1>5. (GoodJobs /\ FileSystemFits /\ TableFollows /\ PromiseHolds)'
  BY <1>1 DEF AdmissionInv, GoodJobs, GoodJob, FileSystemFits, TableFollows, PromiseHolds
<1> QED
  BY <1>4, <1>5 DEF AdmissionInv

LEMMA ImageLostStep ==
    ASSUME AdmissionInv, Delete \/ Rot
    PROVE  AdmissionInv'
<1>1. /\ UNCHANGED <<os, win, reports, ident, usb, mounted, job, promise>>
      /\ spent' \in 0..Budget
  BY SpentTyped DEF Delete, Rot, machine
<1>2. image \in ImageRecords /\ job \in [Slots -> Jobs] /\ mounted \in BOOLEAN
  BY DEF AdmissionInv, Shapes, TypeOK
<1>3. image' \in ImageRecords /\ image'.source \in {0, image.source}
  <2>1. NoImage \in ImageRecords /\ NoImage.source = 0
    BY SizesAssumption DEF ImageRecords, NoImage
  <2>2. ASSUME NEW f \in {"hash", "manifest"}
        PROVE  /\ [image EXCEPT !.flaw = f] \in ImageRecords
               /\ [image EXCEPT !.flaw = f].source = image.source
    BY <1>2 DEF ImageRecords
  <2> QED
    BY <2>1, <2>2 DEF Delete, Rot
<1>4. SizesFollow
  BY <1>1, <1>3, ImageFollows
<1>5. GoodJobs'
  BY <1>1, <1>4, JobStaysGood DEF GoodJobs, AdmissionInv
<1> QED
  BY <1>1, <1>2, <1>3, <1>5, ImageStep

LEMMA AllIdle ==
    ASSUME \A s \in Slots : job'[s] = Idle
    PROVE  GoodJobs'
  BY DEF GoodJobs, GoodJob, Idle

\* Under Windows no job runs.
LEMMA WindowsRuns ==
    ASSUME AdmissionInv, os = "windows", job' = job
    PROVE  GoodJobs'
<1>1. \A s \in Slots : job[s] = Idle
  BY RunsInRecovery
<1> QED
  BY <1>1, AllIdle

LEMMA RestartStep ==
    ASSUME AdmissionInv, Restart
    PROVE  AdmissionInv'
<1>1. /\ os' \in {"recovery", "windows"} /\ spent' \in 0..Budget /\ mounted' \in BOOLEAN
      /\ win' = [win EXCEPT !.kernel = win.table]
      /\ job' = [s \in Slots |-> Idle]
      /\ UNCHANGED <<reports, ident, usb, image, promise>>
  BY SpentTyped DEF Restart, AdmissionInv, Shapes, TypeOK
<1>2. win \in [fs : {"ntfs", "BitLocker"}, table : 1..Room, kernel : 1..Room, ntfs : 1..Room]
  BY DEF AdmissionInv, Shapes, TypeOK
<1>3. /\ win' \in [fs : {"ntfs", "BitLocker"}, table : 1..Room, kernel : 1..Room, ntfs : 1..Room]
      /\ win'.table = win.table /\ win'.kernel = win.table
      /\ win'.ntfs = win.ntfs /\ win'.fs = win.fs
  BY <1>1, <1>2
<1>4. job' \in [Slots -> Jobs]
  BY <1>1, IdleIsGood
<1>5. Shapes'
  BY <1>1, <1>3, <1>4, JobOps DEF AdmissionInv, Shapes, TypeOK
<1>6. GoodJobs'
  BY <1>1, AllIdle
<1>7. FileSystemFits' /\ TableFollows'
  BY <1>1, <1>3 DEF AdmissionInv, FileSystemFits, TableFollows
<1>8. PromiseHolds'
  BY <1>1, <1>3 DEF AdmissionInv, PromiseHolds
<1> QED
  BY <1>5, <1>6, <1>7, <1>8 DEF AdmissionInv

LEMMA WindowsResizesStep ==
    ASSUME AdmissionInv, WindowsResizes
    PROVE  AdmissionInv'
<1>1. PICK size \in Sizes : \E n \in {size, Min({win.ntfs, size})} :
          win' = [win EXCEPT !.table = size, !.kernel = size, !.ntfs = n]
  BY DEF WindowsResizes
<1>2. PICK n \in {size, Min({win.ntfs, size})} :
          win' = [win EXCEPT !.table = size, !.kernel = size, !.ntfs = n]
  BY <1>1
<1>3. size \in 1..Room /\ win.ntfs \in 1..Room
  BY SizesAssumption, SizeTypes DEF AdmissionInv
<1>4. n \in 1..Room /\ n <= size
  BY <1>2, <1>3 DEF Min
<1>5. win \in [fs : {"ntfs", "BitLocker"}, table : 1..Room, kernel : 1..Room, ntfs : 1..Room]
  BY DEF AdmissionInv, Shapes, TypeOK
<1>6. /\ win' \in [fs : {"ntfs", "BitLocker"}, table : 1..Room, kernel : 1..Room, ntfs : 1..Room]
      /\ win'.table = size /\ win'.kernel = size /\ win'.ntfs = n
  BY <1>2, <1>3, <1>4, <1>5
<1>7. /\ os = "windows" /\ spent' \in 0..Budget /\ promise' = NoPromise
      /\ UNCHANGED <<os, reports, ident, usb, mounted, image, job>>
  BY SpentTyped DEF WindowsResizes
<1>8. /\ NoPromise \in [view : {"none", "table", "kernel"}, need : 0..Room]
      /\ NoPromise.view = "none"
  BY SizesAssumption DEF NoPromise
<1>9. Shapes'
  BY <1>6, <1>7, <1>8 DEF AdmissionInv, Shapes, TypeOK
<1>10. GoodJobs'
  BY <1>7, WindowsRuns
<1>11. (FileSystemFits /\ TableFollows /\ PromiseHolds)'
  BY <1>4, <1>6, <1>7, <1>8 DEF FileSystemFits, TableFollows, PromiseHolds
<1> QED
  BY <1>9, <1>10, <1>11 DEF AdmissionInv

LEMMA WindowsChangesStep ==
    ASSUME AdmissionInv, ToggleBitLocker \/ CopyDisk
    PROVE  AdmissionInv'
<1>1. /\ os = "windows" /\ spent' \in 0..Budget
      /\ UNCHANGED <<os, reports, usb, mounted, image, job, promise>>
      /\ ident' \in 1..2
  BY SpentTyped DEF ToggleBitLocker, CopyDisk, AdmissionInv, Shapes, TypeOK
<1>2. win \in [fs : {"ntfs", "BitLocker"}, table : 1..Room, kernel : 1..Room, ntfs : 1..Room]
  BY DEF AdmissionInv, Shapes, TypeOK
<1>3. \/ win' = win
      \/ \E f \in {"ntfs", "BitLocker"} : win' = [win EXCEPT !.fs = f]
  BY DEF ToggleBitLocker, CopyDisk
<1>4. /\ win' \in [fs : {"ntfs", "BitLocker"}, table : 1..Room, kernel : 1..Room, ntfs : 1..Room]
      /\ win'.table = win.table /\ win'.kernel = win.kernel /\ win'.ntfs = win.ntfs
  BY <1>2, <1>3
<1>5. Shapes'
  BY <1>1, <1>4 DEF AdmissionInv, Shapes, TypeOK
<1>6. GoodJobs'
  BY <1>1, WindowsRuns
<1>7. (FileSystemFits /\ TableFollows /\ PromiseHolds)'
  BY <1>1, <1>4 DEF AdmissionInv, FileSystemFits, TableFollows, PromiseHolds
<1> QED
  BY <1>5, <1>6, <1>7 DEF AdmissionInv

-----------------------------------------------------------------------------
(***************************************************************************)
(* The invariant and what follows from it.                                 *)
(***************************************************************************)
LEMMA AdmissionInit == Init => AdmissionInv
<1> SUFFICES ASSUME Init PROVE AdmissionInv
  OBVIOUS
<1>1. PICK size \in Sizes :
          /\ win = [fs |-> "ntfs", table |-> size, kernel |-> size, ntfs |-> size]
          /\ image \in {NoImage, [Taken EXCEPT !.flaw = "type"]}
  BY DEF Init
<1>2. size \in 1..Room /\ Room \in Nat \ {0} /\ Budget \in Nat
  BY SizesAssumption
<1>3. /\ win \in [fs : {"ntfs", "BitLocker"}, table : 1..Room, kernel : 1..Room, ntfs : 1..Room]
      /\ win.table = size /\ win.kernel = size /\ win.ntfs = size
  BY <1>1, <1>2
<1>4. DiskId \in 0..2 /\ ident \in 1..2
  BY DEF Init, DiskId
<1>5. image \in ImageRecords /\ image.source \in {0, size}
  <2>1. NoImage \in ImageRecords /\ NoImage.source = 0
    BY <1>2 DEF ImageRecords, NoImage
  <2>2. Taken \in ImageRecords /\ Taken.source = size
    BY <1>2, <1>3, <1>4 DEF Taken, ImageRecords
  <2>3. /\ [Taken EXCEPT !.flaw = "type"] \in ImageRecords
        /\ [Taken EXCEPT !.flaw = "type"].source = size
    BY <2>2 DEF ImageRecords
  <2> QED
    BY <1>1, <2>1, <2>3
<1>6. /\ job \in [Slots -> Jobs] /\ \A s \in Slots : job[s] = Idle
  BY IdleIsGood DEF Init
<1>7. usb \in [vols : Sticks \cup {{}}, first : BOOLEAN, mounted : BOOLEAN]
  BY DEF Init, Unplugged
<1>8. /\ promise \in [view : {"none", "table", "kernel"}, need : 0..Room]
      /\ promise.view = "none"
  BY <1>2 DEF Init, NoPromise
<1>9. Shapes
  BY <1>2, <1>3, <1>4, <1>5, <1>6, <1>7, <1>8, JobOps
     DEF Shapes, TypeOK, Init, ImageRecords
<1>10. GoodJobs
  BY <1>6 DEF GoodJobs, GoodJob, Idle
<1>11. FileSystemFits /\ TableFollows /\ PromiseHolds
  BY <1>2, <1>3, <1>5, <1>8 DEF FileSystemFits, TableFollows, PromiseHolds
<1> QED
  BY <1>9, <1>10, <1>11 DEF AdmissionInv

LEMMA AdmissionNext == AdmissionInv /\ [Next]_vars => AdmissionInv'
<1> SUFFICES ASSUME AdmissionInv, [Next]_vars
             PROVE  AdmissionInv'
  OBVIOUS
<1>1. ASSUME NEW s \in Slots, Step(s)
      PROVE  AdmissionInv'
  <2>1. CASE \E by \in {"tui", "gtk"} : OpenRestore(s, by)
    BY <2>1, OpenRestoreStep
  <2>2. CASE TakePlan(s)
    BY <2>2, TakePlanStep
  <2>3. CASE \E compatible \in BOOLEAN : RunCommand(s, compatible)
    BY <2>3, RunCommandStep
  <2>4. CASE Authorize(s)
    BY <2>4, AuthorizeStep
  <2>5. CASE Resolve(s)
    BY <2>5, ResolveStep
  <2>6. CASE StartWrite(s)
    BY <2>6, StartWriteStep
  <2>7. CASE EndWrite(s) \/ ExtendFails(s) \/ Dies(s)
    BY <2>7, EndStep
  <2>8. CASE ShowExtend(s)
    BY <2>8, ShowExtendStep
  <2>9. CASE PlanExtend(s)
    BY <2>9, PlanExtendStep
  <2>10. CASE Resize(s)
    BY <2>10, ResizeStep
  <2>11. CASE Settle(s)
    BY <2>11, SettleStep
  <2>12. CASE PlanBackup(s)
    BY <2>12, PlanBackupStep
  <2>13. CASE BeginBackup(s)
    BY <2>13, BeginBackupStep
  <2>14. CASE CopyWindows(s)
    BY <2>14, CopyWindowsStep
  <2>15. CASE Publish(s)
    BY <2>15, PublishStep
  <2> QED
    BY <1>1, <2>1, <2>2, <2>3, <2>4, <2>5, <2>6, <2>7, <2>8, <2>9, <2>10, <2>11,
       <2>12, <2>13, <2>14, <2>15 DEF Step
<1>2. CASE Outside
  <2>1. CASE Unplug \/ \E stick \in Sticks : Plug(stick)
    BY <2>1, PlugStep
  <2>2. CASE Delete \/ Rot
    BY <2>2, ImageLostStep
  <2>3. CASE Restart
    BY <2>3, RestartStep
  <2>4. CASE WindowsResizes
    BY <2>4, WindowsResizesStep
  <2>5. CASE ToggleBitLocker \/ CopyDisk
    BY <2>5, WindowsChangesStep
  <2> QED
    BY <1>2, <2>1, <2>2, <2>3, <2>4, <2>5 DEF Outside
<1>3. CASE UNCHANGED vars
  <2>1. /\ UNCHANGED <<os, win, reports, ident, usb, mounted, image, job, promise, spent>>
    BY <1>3 DEF vars
  <2>2. Shapes'
    BY <2>1 DEF AdmissionInv, Shapes, TypeOK
  <2>3. (GoodJobs /\ FileSystemFits /\ TableFollows /\ PromiseHolds)'
    BY <2>1 DEF AdmissionInv, GoodJobs, GoodJob, FileSystemFits, TableFollows, PromiseHolds
  <2> QED
    BY <2>2, <2>3 DEF AdmissionInv
<1> QED
  BY <1>1, <1>2, <1>3 DEF Next

\* The inductive invariant of the jobs and of what they read.
THEOREM AdmissionInvariant == Spec => []AdmissionInv
  BY AdmissionInit, AdmissionNext, PTL DEF Spec

\* Every size and every answer is of its type; above all no partition ends
\* behind the start of the next one.
THEOREM AdmissionTypes == Spec => []TypeOK
<1>1. AdmissionInv => TypeOK
  BY DEF AdmissionInv, Shapes
<1> QED
  BY <1>1, AdmissionInvariant, PTL

\* No restore and no preparation leaves an NTFS longer than its partition,
\* neither as the table nor as the kernel has it, however many of them run
\* (_check_windows_target_geometry, plan_windows_partition_extend).
THEOREM WindowsFitsItsPartition == Spec => []FileSystemFits
<1>1. AdmissionInv => FileSystemFits
  BY DEF AdmissionInv
<1> QED
  BY <1>1, AdmissionInvariant, PTL

\* COMPLETED and PENDING_REBOOT of run_windows_partition_extend keep their
\* word until Windows resizes its partition or another image is taken.
THEOREM PreparationKeepsItsWord == Spec => []PreparedIsEnough
<1>1. AdmissionInv => PreparedIsEnough
  BY DEF AdmissionInv, PromiseHolds, PreparedIsEnough
<1> QED
  BY <1>1, AdmissionInvariant, PTL

\* One step of the job in slot s: partclone is started on the machine only.
AtHome(s) ==
    /\ job'[s].pc = "writing" /\ job[s].pc # "writing"
          => job[s].target = "home" /\ win.fs = "ntfs"
    /\ job'[s].pc = "copying" /\ job[s].pc # "copying"
          => job'[s].from = "home" /\ win.fs = "ntfs"

LEMMA QuietBecome ==
    ASSUME AdmissionInv, NEW s \in Slots, NEW STATE new, Become(s, new),
           new.pc \notin {"writing", "copying"}
    PROVE  AtHome(s)
  BY DEF AdmissionInv, Shapes, Become, AtHome

LEMMA StepAtHome ==
    ASSUME AdmissionInv, NEW s \in Slots, Step(s)
    PROVE  AtHome(s)
<1>0. Idle.pc = "idle"
  BY DEF Idle
<1>1. CASE Become(s, Idle)
  BY <1>0, <1>1, QuietBecome
<1>2. CASE \E by \in {"tui", "gtk"} : OpenRestore(s, by)
  <2>1. PICK by \in {"tui", "gtk"} : Become(s, [op |-> "restore", pc |-> "opened", by |-> by])
    BY <1>2 DEF OpenRestore
  <2> DEFINE new == [op |-> "restore", pc |-> "opened", by |-> by]
  <2>2. new.pc = "opened" /\ Become(s, new)
    BY <2>1
  <2> HIDE DEF new
  <2> QED
    BY <2>2, QuietBecome
<1>3. CASE TakePlan(s)
  <2> DEFINE new == [op |-> "restore", pc |-> "planned", full |-> FALSE,
                     compatible |-> Plan.compatible]
  <2>1. new.pc = "planned" /\ (Become(s, Idle) \/ Become(s, new))
    BY <1>3 DEF TakePlan
  <2> HIDE DEF new
  <2> QED
    BY <1>1, <2>1, QuietBecome
<1>4. CASE \E compatible \in BOOLEAN : RunCommand(s, compatible)
  <2>1. PICK compatible \in BOOLEAN : RunCommand(s, compatible)
    BY <1>4
  <2> DEFINE new == [op |-> "restore", pc |-> "planned", full |-> TRUE,
                     compatible |-> compatible]
  <2>2. new.pc = "planned" /\ Become(s, new)
    BY <2>1 DEF RunCommand
  <2> HIDE DEF new
  <2> QED
    BY <2>2, QuietBecome
<1>5. CASE Authorize(s)
  <2> DEFINE new == [job[s] EXCEPT !.pc = "authorized"]
  <2>1. job[s] \in [op : {"restore"}, pc : {"planned", "authorized"}, full : BOOLEAN,
                    compatible : BOOLEAN]
    BY <1>5 DEF Authorize, At, AdmissionInv, Shapes, Jobs, Idle
  <2>2. new.pc = "authorized" /\ (Become(s, Idle) \/ Become(s, new))
    BY <1>5, <2>1 DEF Authorize
  <2> HIDE DEF new
  <2> QED
    BY <1>1, <2>2, QuietBecome
<1>6. CASE Resolve(s)
  <2> DEFINE new == [op |-> "restore", pc |-> "resolved", target |-> Layout.windows.disk]
  <2>1. new.pc = "resolved" /\ (Become(s, Idle) \/ Become(s, new))
    BY <1>6 DEF Resolve
  <2> HIDE DEF new
  <2> QED
    BY <1>1, <2>1, QuietBecome
<1>7. CASE StartWrite(s)
  <2>1. job[s].op = "restore" /\ job[s].pc = "resolved"
    BY <1>7 DEF StartWrite, At
  <2>2. job[s] \in [op : {"restore"}, pc : {"resolved", "writing"}, target : {"home"}]
    BY <2>1 DEF AdmissionInv, Shapes, Jobs, Idle
  <2>3. GoodJob(job[s])
    BY DEF AdmissionInv, GoodJobs
  <2>4. job[s].target = "home" /\ win.fs = "ntfs"
    BY <2>1, <2>2, <2>3 DEF GoodJob
  <2> DEFINE new == [job[s] EXCEPT !.pc = "writing"]
  <2>5. new.pc = "writing" /\ (Become(s, Idle) \/ Become(s, new))
    BY <1>7, <2>2 DEF StartWrite
  <2> HIDE DEF new
  <2>6. CASE Become(s, new)
    <3>1. job'[s].pc = "writing"
      BY <2>5, <2>6 DEF Become, AdmissionInv, Shapes
    <3> QED
      BY <2>4, <3>1 DEF AtHome
  <2> QED
    BY <1>1, <2>5, <2>6
<1>8. CASE EndWrite(s) \/ ExtendFails(s) \/ Settle(s) \/ Publish(s) \/ Dies(s)
  BY <1>1, <1>8 DEF EndWrite, ExtendFails, Settle, Publish, Dies
<1>9. CASE ShowExtend(s)
  <2> DEFINE new == [op |-> "extend", pc |-> "shown"]
  <2>1. new.pc = "shown" /\ Become(s, new)
    BY <1>9 DEF ShowExtend
  <2> HIDE DEF new
  <2> QED
    BY <2>1, QuietBecome
<1>10. CASE PlanExtend(s)
  <2> DEFINE new == [op |-> "extend", pc |-> "planned", goal |-> Goal, need |-> image.source]
  <2>1. new.pc = "planned" /\ (Become(s, Idle) \/ Become(s, new))
    BY <1>10 DEF PlanExtend
  <2> HIDE DEF new
  <2> QED
    BY <1>1, <2>1, QuietBecome
<1>11. CASE Resize(s)
  <2> DEFINE new == [job[s] EXCEPT !.pc = "resized"]
  <2>1. job[s].op = "extend" /\ job[s].pc = "planned"
    BY <1>11 DEF Resize, At
  <2>2. job[s] \in [op : {"extend"}, pc : {"planned", "resized"}, goal : 1..Room, need : 0..Room]
    BY <2>1, ExtendJob
  <2>3. new.pc = "resized" /\ Become(s, new)
    BY <1>11, <2>2 DEF Resize
  <2> HIDE DEF new
  <2> QED
    BY <2>3, QuietBecome
<1>12. CASE PlanBackup(s)
  <2> DEFINE new == [op |-> "backup", pc |-> "planned"]
  <2>1. new.pc = "planned" /\ Become(s, new)
    BY <1>12 DEF PlanBackup
  <2> HIDE DEF new
  <2> QED
    BY <2>1, QuietBecome
<1>13. CASE BeginBackup(s)
  <2> DEFINE new == [op |-> "backup", pc |-> "copying", from |-> "home", size |-> win.kernel]
  <2>1. new.pc = "copying" /\ new.from = "home"
    OBVIOUS
  <2>2. Become(s, Idle) \/ (Become(s, new) /\ win.fs = "ntfs")
    BY <1>13, LayoutFacts DEF BeginBackup, AdmissionInv
  <2> HIDE DEF new
  <2>3. CASE Become(s, new) /\ win.fs = "ntfs"
    <3>1. job'[s].pc = "copying" /\ job'[s].from = "home"
      BY <2>1, <2>3 DEF Become, AdmissionInv, Shapes
    <3> QED
      BY <2>3, <3>1 DEF AtHome
  <2> QED
    BY <1>1, <2>2, <2>3
<1>14. CASE CopyWindows(s)
  <2> DEFINE new == [job[s] EXCEPT !.pc = "copied"]
  <2>1. job[s].op = "backup" /\ job[s].pc = "copying"
    BY <1>14 DEF CopyWindows, At
  <2>2. job[s] \in [op : {"backup"}, pc : {"copying", "copied"}, from : {"home"}, size : 1..Room]
    BY <2>1, BackupJob DEF AdmissionInv
  <2>3. new.pc = "copied" /\ Become(s, new)
    BY <1>14, <2>2 DEF CopyWindows
  <2> HIDE DEF new
  <2> QED
    BY <2>3, QuietBecome
<1> QED
  BY <1>2, <1>3, <1>4, <1>5, <1>6, <1>7, <1>8, <1>9, <1>10, <1>11, <1>12, <1>13, <1>14
     DEF Step

LEMMA OthersRest ==
    ASSUME AdmissionInv, NEW s \in Slots, Step(s), NEW x \in Slots, x # s
    PROVE  job'[x] = job[x]
<1>1. \E new : Become(s, new)
  BY DEF Step, OpenRestore, TakePlan, RunCommand, Authorize, Resolve, StartWrite, EndWrite,
         ShowExtend, PlanExtend, Resize, ExtendFails, Settle, PlanBackup, BeginBackup,
         CopyWindows, Publish, Dies
<1> QED
  BY <1>1 DEF Become, AdmissionInv, Shapes

\* Partclone never reads from or writes to a disk that was plugged in between
\* the discoveries of the plan, the gate and the execution context, nor an
\* encrypted Windows (build_execution_context, execute_backup_apply).
THEOREM PartcloneStaysHome == Spec => StaysOnHomeDisk
<1>1. ASSUME AdmissionInv, [Next]_vars
      PROVE  [\A s \in Slots : AtHome(s)]_vars
  <2>1. CASE UNCHANGED vars
    BY <2>1
  <2>2. CASE Next
    <3> SUFFICES ASSUME NEW x \in Slots PROVE AtHome(x)
      OBVIOUS
    <3>1. CASE job'[x] = job[x]
      BY <3>1 DEF AtHome
    <3>2. CASE Outside /\ job' # job
      <4>1. job' = [s \in Slots |-> Idle]
        BY <3>2 DEF Outside, Plug, Unplug, Delete, Rot, Restart, WindowsResizes,
                    ToggleBitLocker, CopyDisk
      <4>2. job'[x].pc = "idle"
        BY <4>1 DEF Idle
      <4> QED
        BY <4>2 DEF AtHome
    <3>3. CASE \E s \in Slots : Step(s)
      BY <1>1, <3>1, <3>3, StepAtHome, OthersRest
    <3> QED
      BY <2>2, <3>1, <3>2, <3>3 DEF Next
  <2> QED
    BY <1>1, <2>1, <2>2
<1> QED
  BY <1>1, AdmissionInvariant, PTL DEF Spec, StaysOnHomeDisk, AtHome
=============================================================================
