----------------------------- MODULE BootChain -----------------------------
(***************************************************************************)
(* The firmware's boot list and everybody who rewrites it.                 *)
(*                                                                         *)
(* Three programs of the project run under Windows and write the list:     *)
(*   "monitor"  the RecoveryBootMonitor scheduled task, once per boot.  It *)
(*              is the native writer itself when that is installed         *)
(*              (install_recoveryboot_monitor.ps1), else the Python agent, *)
(*              which calls the writer only to create a missing entry;     *)
(*   "task"     fix_bootorder_task --apply, run by an operator;            *)
(*   "setup"    the installer, which runs the writer and clears BootNext.  *)
(* Each reads the list, plans, and writes a whole new list later; none     *)
(* takes a lock, and the firmware, Windows and other systems write too.    *)
(* Under the recovery system, "reboot to Windows" sets BootNext.           *)
(***************************************************************************)
EXTENDS Naturals, Sequences, FiniteSets, SequencesExt

CONSTANTS
    Ids,            \* the Boot#### numbers a machine uses
    NoId,           \* no entry
    Budget          \* bound on outside changes, failures and power losses

ASSUME IdsAssumption == /\ IsFiniteSet(Ids) /\ Ids \subseteq Nat
                        /\ {0, 1} \subseteq Ids /\ NoId \notin Ids
ASSUME BudgetAssumption == Budget \in Nat

Actors == {"monitor", "task", "setup"}

VARIABLES
    nv,         \* [Ids -> kind]: the Boot#### variables
    order,      \* BootOrder
    bootNext,   \* BootNext, or NoId
    locked,     \* BitLocker encrypts the Windows volume
    os,         \* "off", "windows", "recovery" or "foreign"
    native,     \* the monitor task is the native writer itself
    due,        \* the monitor task has still to run in this Windows session
    job,        \* [Actors -> what a run of the program holds]
    promised,   \* the recovery system said that the next boot is Windows
    overlapped, \* two runs of the native writer have overlapped
    budget      \* outside changes, failures and power losses left

vars == <<nv, order, bootNext, locked, os, native, due, job, promised,
          overlapped, budget>>

Kinds == {"free", "windows", "recovery", "direct", "other"}

(* What a run holds: where it is, the BitLocker state it read, the list and
   the entries it found, and whether anybody else wrote since it read. *)
Idle == [pc |-> "idle", bl |-> "UNKNOWN", read |-> <<>>, win |-> NoId,
         rec |-> NoId, dir |-> NoId, raced |-> FALSE, said |-> "none"]

Ended(said) == [Idle EXCEPT !.said = said]

Writing == {"w_rec", "w_dir", "w_order"}

Entries(kind) == {i \in Ids : nv[i] = kind}

\* Mutation: the entries not in BootOrder are not read.
FoundListed(kind) ==
    LET listed == {n \in 1..Len(order) : nv[order[n]] = kind}
    IN  IF listed # {} THEN {order[CHOOSE n \in listed : \A m \in listed : n <= m]}
        ELSE {NoId}

(* Both the writer and the Python parser take the first match; the writer
   looks through BootOrder before the entries that are not listed. *)
Found(kind) ==
    LET listed == {n \in 1..Len(order) : nv[order[n]] = kind}
        rest   == Entries(kind) \ {order[n] : n \in 1..Len(order)}
    IN  IF listed # {} THEN {order[CHOOSE n \in listed : \A m \in listed : n <= m]}
        ELSE IF rest # {} THEN {CHOOSE i \in rest : \A j \in rest : i <= j}
        ELSE {NoId}

(* bcdedit prints its entries in an order of its own, so which of several
   entries of one kind the parser meets first is open. *)
Listed(kind) == IF Entries(kind) = {} THEN {NoId} ELSE Entries(kind)

(* What a list keeps of its places, in their order: the place of the m-th is
   the kept one with m kept places up to it. *)
Rank(places, n) == Cardinality({k \in places : k <= n})

Kept(list, places) ==
    [m \in 1..Cardinality(places) |->
        list[CHOOSE n \in places : Rank(places, n) = m]]

(* The entries of the list which are there: what the firmware tries, and
   what bcdedit shows, which knows no name for a number without an entry. *)
Present == Kept(order, {n \in 1..Len(order) : nv[order[n]] # "free"})

Without(s, gone) == Kept(s, {n \in 1..Len(s) : s[n] \notin gone})

\* Mutation: the rest of the list is dropped.
TargetOrderTwo(rec, win, read) == <<rec, win>>

\* Mutation: Windows is taken out of the list and not put back.
WriterOrderSwapped(rec, win, dir, read) ==
    <<rec, dir>> \o Without(read, {rec, win, dir})

(* The list build_target_boot_order and the agent aim at, and the writer's. *)
TargetOrder(rec, win, read) == <<rec, win>> \o Without(read, {rec, win})
WriterOrder(rec, win, dir, read) ==
    <<rec, win, dir>> \o Without(read, {rec, win, dir})

InTargetOrder(list) ==
    /\ Len(list) >= 2
    /\ nv[list[1]] = "recovery"
    /\ nv[list[2]] = "windows"

Init ==
    /\ \E w \in {0, 1} : \E o \in {1 - w, NoId} :
         /\ nv = [i \in Ids |-> IF i = w THEN "windows"
                                ELSE IF i = o THEN "other" ELSE "free"]
         /\ order \in IF o = NoId THEN {<<w>>} ELSE {<<w, o>>, <<o, w>>}
    /\ bootNext = NoId
    /\ locked \in BOOLEAN
    /\ os = "off"
    /\ native \in BOOLEAN
    /\ due = FALSE
    /\ job = [a \in Actors |-> Idle]
    /\ promised = FALSE
    /\ overlapped = FALSE
    /\ budget = Budget

-----------------------------------------------------------------------------
(* Helpers of the steps.  Any write to the list makes the runs in flight of
   the others stale. *)
RacedBy(a, jobs) ==
    [b \in Actors |-> IF b = a \/ jobs[b].pc = "idle" THEN jobs[b]
                      ELSE [jobs[b] EXCEPT !.raced = TRUE]]

Go(a, new) == job' = [job EXCEPT ![a] = new]
Write(a, new) == job' = RacedBy(a, [job EXCEPT ![a] = new])

Spend == budget > 0 /\ budget' = budget - 1

-----------------------------------------------------------------------------
(* The Python programs: probe BitLocker, read, plan, write.                *)

(* WindowsSystemProbes.bitlocker_state: "UNKNOWN" when neither command
   answers, and "OFF" for any text of manage-bde that is not the English one. *)
Probe == IF locked THEN {"ON", "OFF", "UNKNOWN"} ELSE {"OFF", "UNKNOWN"}

Start(a) ==
    /\ os = "windows"
    /\ job[a].pc = "idle"
    /\ \E bl \in Probe : Go(a, [Idle EXCEPT !.pc = "probed", !.bl = bl])

StartAgent ==
    /\ due /\ ~native
    /\ due' = FALSE
    /\ Start("monitor")
    /\ UNCHANGED <<nv, order, bootNext, locked, os, native, promised,
                   overlapped, budget>>

StartTask ==
    /\ budget > 0      \* bounds how often the operator starts it
    /\ Start("task")
    /\ budget' = budget - 1
    /\ UNCHANGED <<nv, order, bootNext, locked, os, native, due, promised,
                   overlapped>>

\* Mutation: only the first place counts.
ReorderRequiredHead(rec, win, list) ==
    ~(Len(list) >= 1 /\ list[1] = rec)

(* plan_bootorder_recovery's test of the two positions. *)
ReorderRequired(rec, win, list) ==
    ~(Len(list) >= 2 /\ list[1] = rec /\ list[2] = win)

\* Mutation: no test on the branch of the writer.
DecisionUnlocked(a, bl, rec, win, list) ==
    IF win = NoId THEN "blocked"
    ELSE IF rec = NoId THEN IF a = "monitor" THEN "w_read" ELSE "blocked"
    ELSE IF bl = "ON" THEN "blocked"
    ELSE IF ReorderRequired(rec, win, list) THEN "bcdedit"
    ELSE "done"

\* Mutation: blocked before the writer is tried.
DecisionNoWriter(a, bl, rec, win, list) ==
    IF win = NoId \/ rec = NoId \/ bl = "ON" THEN "blocked"
    ELSE IF ReorderRequired(rec, win, list) THEN "bcdedit"
    ELSE "done"

(* What the program does with a plan: "done" when the list is right,
   "blocked" when build_windows_state names a reason, else the writer it
   calls.  The agent creates a missing entry through the native writer, the
   task never does. *)
Decision(a, bl, rec, win, list) ==
    IF win = NoId THEN "blocked"
    ELSE IF rec = NoId
         THEN IF a = "monitor" /\ bl # "ON" THEN "w_read" ELSE "blocked"
    ELSE IF bl = "ON" THEN "blocked"
    ELSE IF ReorderRequired(rec, win, list) THEN "bcdedit"
    ELSE "done"

(* read_firmware_boot, plan and build_windows_state, one reading. *)
ReadAndPlan(a) ==
    /\ job[a].pc = "probed"
    /\ \E win \in Listed("windows"), rec \in Listed("recovery") :
         LET next == Decision(a, job[a].bl, rec, win, Present)
         IN  Go(a, IF next \in {"done", "blocked"} THEN Ended(next)
                   ELSE [Idle EXCEPT !.pc = next, !.bl = job[a].bl,
                             !.read = Present, !.win = win, !.rec = rec])
    /\ UNCHANGED <<nv, order, bootNext, locked, os, native, due, promised,
                   overlapped, budget>>

(* bcdedit does not answer: an empty list, no Windows entry, no repair. *)
ReadFails(a) ==
    /\ job[a].pc = "probed"
    /\ Spend
    /\ Go(a, Ended(Decision(a, job[a].bl, NoId, NoId, <<>>)))
    /\ UNCHANGED <<nv, order, bootNext, locked, os, native, due, promised,
                   overlapped>>

(* bcdedit /set {fwbootmgr} displayorder: the whole list of the plan.  It
   refuses an entry which is gone. *)
Bcdedit(a) ==
    LET j == job[a]
        target == TargetOrder(j.rec, j.win, j.read)
    IN  /\ j.pc = "bcdedit"
        /\ IF \A n \in 1..Len(target) : nv[target[n]] # "free"
           THEN /\ order' = target
                /\ Write(a, [Ended("repaired") EXCEPT !.raced = j.raced])
           ELSE /\ order' = order
                /\ Go(a, Ended("failed"))
        /\ UNCHANGED <<nv, bootNext, locked, os, native, due, promised,
                       overlapped, budget>>

BcdeditFails(a) ==
    /\ job[a].pc = "bcdedit"
    /\ Spend
    /\ Go(a, Ended("failed"))
    /\ UNCHANGED <<nv, order, bootNext, locked, os, native, due, promised,
                   overlapped>>

-----------------------------------------------------------------------------
(* The native writer, run_repair: read the list and every entry, create the
   entries which are missing, write the list.  Nothing ties the writes
   together.                                                               *)

StartWriter ==
    /\ os = "windows" /\ due /\ native
    /\ job["monitor"].pc = "idle"
    /\ due' = FALSE
    /\ Go("monitor", [Idle EXCEPT !.pc = "w_read"])
    /\ UNCHANGED <<nv, order, bootNext, locked, os, native, promised,
                   overlapped, budget>>

(* The installer refuses a C: whose status says "Protection On" in English;
   one in another language, or suspended, gets past that. *)
StartSetup ==
    /\ os = "windows"
    /\ job["setup"].pc = "idle"
    /\ Spend       \* bounds how often it is installed
    /\ Go("setup", [Idle EXCEPT !.pc = "w_read"])
    /\ UNCHANGED <<nv, order, bootNext, locked, os, native, due, promised,
                   overlapped>>

WriterReads(a) ==
    /\ job[a].pc = "w_read"
    /\ \E win \in Found("windows"), rec \in Found("recovery"),
          dir \in Found("direct") :
         Go(a, IF win = NoId THEN Ended("failed")
               ELSE [Idle EXCEPT !.pc = "w_rec", !.bl = job[a].bl,
                         !.read = order, !.win = win, !.rec = rec,
                         !.dir = dir])
    /\ overlapped' = (overlapped \/ \E b \in Actors \ {a} : job[b].pc \in Writing)
    /\ UNCHANGED <<nv, order, bootNext, locked, os, native, due, promised,
                   budget>>

(* find_free_boot_id.  A firmware's store is full long before its numbers
   are used up, and then refuses the write which creates the entry. *)
FreeId(reserved) ==
    LET free == {i \in Ids : nv[i] = "free" /\ i \notin reserved}
    IN  IF free = {} THEN NoId ELSE CHOOSE i \in free : \A j \in free : i <= j

\* Mutation: the new number is not kept.
EnsureDirectForgotten(a) ==
    /\ job[a].pc = "w_dir"
    /\ nv' = IF job[a].dir = NoId
             THEN [nv EXCEPT ![FreeId({job[a].rec})] = "direct"] ELSE nv
    /\ Go(a, [job[a] EXCEPT !.pc = "w_order"])
    /\ UNCHANGED <<order, bootNext, locked, os, native, due, promised,
                   overlapped, budget>>

(* ensure_boot_entry for the hot key entry, then for the direct one. *)
EnsureRecovery(a) ==
    /\ job[a].pc = "w_rec"
    /\ LET id == IF job[a].rec = NoId THEN FreeId({}) ELSE job[a].rec
       IN  /\ nv' = IF job[a].rec = NoId /\ id # NoId
                    THEN [nv EXCEPT ![id] = "recovery"] ELSE nv
           /\ Go(a, IF id = NoId THEN Ended("failed")
                    ELSE [job[a] EXCEPT !.pc = "w_dir", !.rec = id])
    /\ UNCHANGED <<order, bootNext, locked, os, native, due, promised,
                   overlapped, budget>>

EnsureDirect(a) ==
    /\ job[a].pc = "w_dir"
    /\ LET id == IF job[a].dir = NoId THEN FreeId({job[a].rec}) ELSE job[a].dir
       IN  /\ nv' = IF job[a].dir = NoId /\ id # NoId
                    THEN [nv EXCEPT ![id] = "direct"] ELSE nv
           /\ Go(a, IF id = NoId THEN Ended("failed")
                    ELSE [job[a] EXCEPT !.pc = "w_order", !.dir = id])
    /\ UNCHANGED <<order, bootNext, locked, os, native, due, promised,
                   overlapped, budget>>

WriteOrder(a) ==
    LET j == job[a]
    IN  /\ j.pc = "w_order"
        /\ order' = WriterOrder(j.rec, j.win, j.dir, j.read)
        /\ Write(a, IF a = "setup" THEN [j EXCEPT !.pc = "w_next"]
                    ELSE [Ended("repaired") EXCEPT !.raced = j.raced])
        /\ UNCHANGED <<nv, bootNext, locked, os, native, due, promised,
                       overlapped, budget>>

(* --clear-bootnext, then the installer runs the monitor task once. *)
ClearBootNext ==
    /\ job["setup"].pc = "w_next"
    /\ bootNext' = NoId
    /\ due' = TRUE
    /\ Go("setup", [Ended("repaired") EXCEPT !.raced = job["setup"].raced])
    /\ UNCHANGED <<nv, order, locked, os, native, promised, overlapped, budget>>

(* A write the firmware refuses ends the run; what was written stays. *)
WriterFails(a) ==
    /\ job[a].pc \in Writing \cup {"w_read", "w_next"}
    /\ Spend
    /\ Go(a, Ended("failed"))
    /\ UNCHANGED <<nv, order, bootNext, locked, os, native, due, promised,
                   overlapped>>

-----------------------------------------------------------------------------
(* The recovery system's reboot to Windows: efibootmgr -n, then a reboot.  *)

\* Mutation: the first Boot#### line, whatever its label.
SetBootNextFirst ==
    /\ os = "recovery"
    /\ ~promised
    /\ bootNext' \in {i \in Ids : nv[i] # "free" /\ \A j \in Ids : nv[j] # "free" => i <= j}
    /\ promised' = TRUE
    /\ UNCHANGED <<nv, order, locked, os, native, due, job, overlapped, budget>>

SetBootNext ==
    /\ os = "recovery"
    /\ ~promised
    /\ Entries("windows") # {}
    /\ bootNext' \in Entries("windows")
    /\ promised' = TRUE
    /\ UNCHANGED <<nv, order, locked, os, native, due, job, overlapped, budget>>

(* The machine reboots, is switched off or loses power.  What ends a run or
   comes before the monitor's is an interruption, and bounded. *)
Quiet == ~due /\ \A a \in Actors : job[a].pc = "idle"

PowerOff ==
    /\ os # "off"
    /\ IF Quiet THEN budget' = budget ELSE Spend
    /\ os' = "off"
    /\ due' = FALSE
    /\ job' = [a \in Actors |-> Idle]
    /\ UNCHANGED <<nv, order, bootNext, locked, native, promised, overlapped>>

(* The firmware: BootNext once, else the first entry of the list which is
   there.  The hot key entry starts GRUB, which starts Windows unless the
   key is pressed; the direct entry starts the recovery system. *)
Starts(kind) ==
    CASE kind = "windows"  -> {"windows"}
      [] kind = "recovery" -> {"windows", "recovery"}
      [] kind = "direct"   -> {"recovery"}
      [] OTHER             -> {"foreign"}

Boot ==
    /\ os = "off"
    /\ LET head == IF bootNext # NoId /\ nv[bootNext] # "free" THEN {bootNext}
                   ELSE IF Present # <<>> THEN {Head(Present)} ELSE {}
       IN  \E i \in head : os' \in Starts(nv[i])
    /\ due' = (os' = "windows")
    /\ bootNext' = NoId
    /\ promised' = FALSE
    /\ UNCHANGED <<nv, order, locked, native, job, overlapped, budget>>

-----------------------------------------------------------------------------
(* Everybody else.                                                         *)

EntryMoves ==   \* Windows, an update of it, or the firmware's setup screen
    /\ \E n \in 1..Len(order) :
         LET rest == Without(order, {order[n]})
         IN  order' \in {<<order[n]>> \o rest, Append(rest, order[n])} \ {order}
    /\ UNCHANGED nv

FirmwareForgets ==      \* a setup reset drops an entry of ours
    /\ \E i \in Entries("recovery") \cup Entries("direct") :
         /\ nv' = [nv EXCEPT ![i] = "free"]
         /\ order' = Without(order, {i})

SystemAdded ==          \* another system adds its entry
    /\ FreeId({}) # NoId
    /\ nv' = [nv EXCEPT ![FreeId({})] = "other"]
    /\ order' = Append(Without(order, {FreeId({})}), FreeId({}))

Outside ==
    /\ EntryMoves \/ FirmwareForgets \/ SystemAdded
    /\ Spend
    /\ job' = RacedBy("nobody", job)
    /\ UNCHANGED <<bootNext, locked, os, native, due, promised, overlapped>>

ToggleBitLocker ==
    /\ os = "windows"
    /\ Spend
    /\ locked' = ~locked
    /\ UNCHANGED <<nv, order, bootNext, os, native, due, job, promised,
                   overlapped>>

WriterStep(a) ==
    WriterReads(a) \/ EnsureRecovery(a) \/ EnsureDirect(a) \/ WriteOrder(a)

Runs(a) == ReadAndPlan(a) \/ Bcdedit(a) \/ WriterStep(a)

Fails(a) == ReadFails(a) \/ BcdeditFails(a) \/ WriterFails(a)

Next ==
    \/ StartAgent \/ StartWriter \/ StartTask \/ StartSetup
    \/ \E a \in Actors : Runs(a) \/ Fails(a)
    \/ ClearBootNext
    \/ SetBootNext \/ PowerOff \/ Boot
    \/ Outside \/ ToggleBitLocker

Spec == Init /\ [][Next]_vars

(* The scheduler runs the registered task and every started program; a
   machine that is off is switched on again. *)
Fairness ==
    /\ WF_vars(StartAgent) /\ WF_vars(StartWriter)
    /\ \A a \in Actors : WF_vars(Runs(a))
    /\ WF_vars(ClearBootNext)
    /\ WF_vars(Boot)

FairSpec == Spec /\ Fairness

-----------------------------------------------------------------------------
JobType ==
    [pc : {"idle", "probed", "bcdedit", "w_read", "w_rec", "w_dir", "w_order",
           "w_next"},
     bl : {"ON", "OFF", "UNKNOWN"}, read : Seq(Ids),
     win : Ids \cup {NoId}, rec : Ids \cup {NoId}, dir : Ids \cup {NoId},
     raced : BOOLEAN, said : {"none", "done", "blocked", "repaired", "failed"}]

(* Every variable keeps its type: in particular every number a stale plan or
   a writer puts into BootOrder is one the machine uses. *)
TypeOK ==
    /\ nv \in [Ids -> Kinds]
    /\ order \in Seq(Ids)
    /\ bootNext \in Ids \cup {NoId}
    /\ locked \in BOOLEAN
    /\ os \in {"off", "windows", "recovery", "foreign"}
    /\ native \in BOOLEAN /\ due \in BOOLEAN
    /\ job \in [Actors -> JobType]
    /\ promised \in BOOLEAN /\ overlapped \in BOOLEAN
    /\ budget \in 0..Budget

(* Windows can be booted through every crash, race and failed write: its
   entry never leaves BootOrder (build_target_boot_order and run_repair put
   it back second, whatever list they started from). *)
WindowsStaysListed ==
    \E n \in 1..Len(order) : nv[order[n]] = "windows"

(* Interrupted and repeated repairs create no second entry: the writer finds
   the one a run which died before BootOrder left unlisted.  Only two
   writers that ran at the same time may each create one. *)
NoSecondEntry ==
    ~overlapped => /\ Cardinality(Entries("recovery")) <= 1
                   /\ Cardinality(Entries("direct")) <= 1

(* The agent and the task leave the boot list alone when they read that
   BitLocker is on, through the plan as through the native writer. *)
BitLockerHonoured ==
    \A a \in Actors : job[a].bl = "ON" => job[a].pc \in {"idle", "probed"}

(* No write by any of the three programs drops an entry which was in the
   list both when the program read it and when it wrote: what a stale plan
   loses can only have been added in between. *)
NoKnownEntryLost ==
    [][\A a \in Actors :
         job[a].pc \in {"bcdedit", "w_order"} /\ job'[a].said # "failed"
           /\ job'[a].pc # job[a].pc /\ os' # "off" =>
             ToSet(order) \cap ToSet(job[a].read) \subseteq ToSet(order')]_vars

(* A run nobody raced which says that the list is right or repaired leaves
   the hot key entry first and Windows second. *)
SaidRepairedIsRepaired ==
    [][\A a \in Actors :
         /\ job'[a] # job[a]
         /\ job'[a].said \in {"done", "repaired"}
         /\ ~job'[a].raced
         => InTargetOrder(Present)']_vars

(* After the recovery system set BootNext and announced Windows, the next
   boot is Windows, also when power is lost before the reboot. *)
RebootReachesWindows ==
    [][promised /\ os = "off" /\ os' # "off" => os' = "windows"]_vars

(* Once the outside has calmed down, a monitor run that is due in a Windows
   without BitLocker brings the list into the intended order. *)
MonitorRepairs ==
    (os = "windows" /\ due /\ ~locked /\ budget = 0) ~> InTargetOrder(Present)

(* BITLOCKER_POLICY.md and WINDOWS_AGENT.md: with BitLocker on nothing
   repairs the boot list.  The native writer, which the monitor task starts
   when it is installed, does not look. *)
BitLockerBlocksRepair ==
    [][locked /\ native
         => ~(/\ job["monitor"].pc = "w_order"
              /\ job'["monitor"].said = "repaired")]_vars
=============================================================================
