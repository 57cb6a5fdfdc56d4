----------------------------- MODULE ModuleWatch -----------------------------
(***************************************************************************)
(* What the client does about the modules of its process, while the loader   *)
(* maps and unmaps them: the DLL notification queues every loaded module,    *)
(* the monitor thread checks the signatures of what is queued, the integrity *)
(* thread compares the sections of the modules that were there at the start  *)
(* with the checksums taken then, and main remaps the program's own image.   *)
(*                                                                           *)
(* Sections are numbered as the section headers list them; all are           *)
(* non-writable ones, and a number stands for the same name in every module. *)
(* The sum of the bytes of a section is <<module, sum of its content>>; the  *)
(* 0 that stands for "not found" in the code is <<>>.                        *)
(***************************************************************************)
EXTENDS Integers, Sequences, FiniteSets

CONSTANTS Main,        \* the program
          Records,     \* the modules of ModuleChecksums, in that order
          Later,       \* modules that are not loaded at the start
          Count,       \* how many sections a module has
          Signed,      \* the modules whose file has a good signature
          Bases, Home, \* addresses, and where a recorded module was at the start
          Contents, Original, Sum, \* contents of a section, and their byte sums
          PageChecked, \* the sections named .text and .rdata
          Game, Monitor,           \* threads that load modules
          Places,      \* bound: the addresses a module may be mapped at
          Changing,    \* bound: the sections that may change
          Worlds,      \* bound: what may happen around the client, see `world`
          None

Elements(s) == {s[i] : i \in DOMAIN s}
Tracked == Elements(Records)
Modules == Tracked \cup Later
Sections(m) == 1..Count[m]

AllSections == UNION {{m} \X Sections(m) : m \in Tracked}

ASSUME ModulesAssumption ==
  /\ Records \in Seq(Tracked)
  /\ Main \in Tracked /\ Tracked \cap Later = {} /\ None \notin Modules \cup {Game, Monitor}
  /\ Count \in [Modules -> Nat \ {0}] /\ Signed \subseteq Modules
  /\ Bases \subseteq Nat \ {0} /\ Home \in [Tracked -> Bases]
  /\ \A m, n \in Tracked : Home[m] = Home[n] => m = n
  /\ Places \in [Modules -> SUBSET Bases]
  /\ Original \in Contents /\ Sum \in [Contents -> Nat]
  /\ PageChecked \subseteq Nat /\ Changing \subseteq AllSections
  /\ Worlds \subseteq [release : BOOLEAN, dlls : BOOLEAN, disc : BOOLEAN, changes : Nat]

VARIABLES
  world,     \* release build (which remaps the image); whether modules come and
             \* go or sections change, and how often; whether disc reads may fail
  base,      \* where each module is mapped, 0 if it is not
  content, writable,   \* what a section holds, and whether a page of it is writable
  loading,   \* the load that holds the loader lock
  queue, qowner,       \* DLLVerificationQueue and who holds its mutex
  mpc, dll, unsigned, passed,  \* the monitor thread; UnsignedModulesLoaded, PassedCertCheckModules
  ipc, im, is, icount, round, expect, handle,  \* the integrity thread and its locals
  violations,
  bpc, header, copy, mapped,   \* main in DeployBarrier; NumberOfSections in the program's header
  crashed,
  changes,   \* bounded by world.changes
  \* history: loads; sections changed; modules unloaded; disc reads that failed
  notified, touched, moved, misread

memory == <<base, content, writable, changes, touched, moved>>
watch == <<queue, qowner, mpc, dll, unsigned, passed, notified>>
check == <<ipc, im, is, icount, round, expect, handle, violations, misread>>
barrier == <<bpc, header, copy, mapped>>
vars == <<world, memory, watch, check, barrier, loading, crashed>>
env == <<world, crashed>>

NumSections == Count[Main]   \* Process::NumSections, one number for all modules
NotFound == <<>>
SumOf(m, c) == <<m, Sum[c]>>
NoLoad == [by |-> None, name |-> None]
SumSet == {NotFound} \cup {SumOf(m, c) : m \in Modules, c \in Contents}

TypeOK ==
  /\ base \in [Modules -> Bases \cup {0}]
  /\ \A m \in Modules : content[m] \in [Sections(m) -> Contents]
  /\ \A m \in Modules : writable[m] \in [Sections(m) -> BOOLEAN]
  /\ loading \in [by : {Game, Monitor, None}, name : Modules \cup {None}]
  /\ queue \in Seq(Modules) /\ qowner \in {Game, Monitor, None}
  /\ mpc \in {"off", "away", "pop", "verify"} /\ dll \in Modules \cup {None}
  /\ unsigned \in Seq(Modules \ Signed) /\ passed \subseteq Signed
  /\ ipc \in {"sleep", "section", "lookup", "read", "pages"}
  /\ im \in 1..Len(Records) /\ is \in Nat /\ icount \in Nat /\ round \in 1..3
  /\ expect \in SumSet /\ handle \in Bases \cup {0}
  /\ violations \subseteq AllSections /\ touched \subseteq Modules \X Nat /\ moved \subseteq Modules
  /\ misread \subseteq AllSections
  /\ bpc \in {"start", "remap", "copied", "unmapped", "done"}
  /\ header \in {1, Count[Main]} /\ copy \in [Sections(Main) -> Contents]
  /\ mapped \in BOOLEAN /\ crashed \in BOOLEAN
  /\ changes \in 0..world.changes /\ world \in Worlds /\ notified \in Seq(Modules)

Fresh(m) == [s \in Sections(m) |-> Original]

Init ==
  /\ world \in Worlds
  /\ base = [m \in Modules |-> IF m \in Tracked THEN Home[m] ELSE 0]
  /\ content = [m \in Modules |-> Fresh(m)]
  /\ writable = [m \in Modules |-> [s \in Sections(m) |-> FALSE]]
  /\ loading = NoLoad
  /\ queue = <<>> /\ qowner = None
  /\ mpc = "off" /\ dll = None /\ unsigned = <<>> /\ passed = {}
  /\ ipc = "sleep" /\ im = 1 /\ is = 1 /\ icount = 0 /\ round = 1
  /\ expect = NotFound /\ handle = 0 /\ violations = {}
  /\ bpc = "start" /\ header = Count[Main] /\ copy = Fresh(Main) /\ mapped = TRUE
  /\ crashed = FALSE /\ changes = 0
  /\ notified = <<>> /\ touched = {} /\ moved = {} /\ misread = {}

-----------------------------------------------------------------------------
(* The loader.  Loading and unloading hold its lock, and the notification is  *)
(* called under it, by the thread that loads: also the monitor thread, when   *)
(* the signature check needs a DLL.                                           *)

BeginLoad(t, m, b) ==
  /\ ~crashed /\ world.dlls /\ loading = NoLoad /\ changes < world.changes
  /\ t = Monitor => mpc = "verify"
  /\ base[m] = 0 /\ \A n \in Modules : base[n] # b
  /\ base' = [base EXCEPT ![m] = b]
  /\ content' = [content EXCEPT ![m] = Fresh(m)]
  /\ writable' = [writable EXCEPT ![m] = [s \in Sections(m) |-> FALSE]]
  /\ loading' = [by |-> t, name |-> m]
  /\ changes' = changes + 1
  /\ UNCHANGED <<touched, moved, watch, check, barrier, env>>

NotifyLock ==
  /\ ~crashed /\ mapped /\ loading # NoLoad /\ qowner = None
  /\ qowner' = loading.by
  /\ UNCHANGED <<memory, queue, mpc, dll, unsigned, passed, notified, check, barrier, loading, env>>

NotifyPush ==
  /\ ~crashed /\ mapped /\ loading # NoLoad /\ qowner = loading.by
  /\ queue' = Append(queue, loading.name)
  /\ notified' = Append(notified, loading.name)
  /\ qowner' = None
  /\ loading' = NoLoad
  /\ UNCHANGED <<memory, mpc, dll, unsigned, passed, check, barrier, env>>

(* An unload is notified too, and the callback does nothing with it. *)
Unload(m) ==
  /\ ~crashed /\ world.dlls /\ loading = NoLoad /\ m # Main /\ base[m] # 0 /\ changes < world.changes
  /\ base' = [base EXCEPT ![m] = 0]
  /\ changes' = changes + 1
  /\ moved' = moved \cup {m}
  /\ UNCHANGED <<content, writable, touched, watch, check, barrier, loading, env>>

Patch(m, s, c) ==
  /\ ~crashed /\ ~world.dlls /\ mapped /\ base[m] # 0 /\ changes < world.changes /\ content[m][s] # c
  /\ content' = [content EXCEPT ![m][s] = c]
  /\ changes' = changes + 1
  /\ touched' = touched \cup {<<m, s>>}
  /\ UNCHANGED <<base, writable, moved, watch, check, barrier, loading, env>>

Reprotect(m, s) ==
  /\ ~crashed /\ ~world.dlls /\ mapped /\ base[m] # 0 /\ changes < world.changes
  /\ writable' = [writable EXCEPT ![m][s] = ~@]
  /\ changes' = changes + 1
  /\ touched' = touched \cup {<<m, s>>}
  /\ UNCHANGED <<base, content, moved, watch, check, barrier, loading, env>>

-----------------------------------------------------------------------------
(* CheckDLLSignature: its loop, and the monitor's loop that calls it again.   *)

LockQueue ==
  /\ ~crashed /\ mpc = "away" /\ qowner = None
  /\ qowner' = Monitor /\ mpc' = "pop"
  /\ UNCHANGED <<memory, queue, dll, unsigned, passed, notified, check, barrier, loading, env>>

(* The lock covers the signature check as well. *)
KeepQueueLocked == UNCHANGED qowner

ReleaseQueue == qowner' = None

PopOrLeave ==
  /\ ~crashed /\ mpc = "pop"
  /\ IF queue = <<>>
     THEN mpc' = "away" /\ qowner' = None /\ UNCHANGED <<queue, dll>>
     ELSE /\ dll' = Head(queue) /\ queue' = Tail(queue)
          /\ mpc' = "verify" /\ ReleaseQueue
  /\ UNCHANGED <<memory, unsigned, passed, notified, check, barrier, loading, env>>

(* A module is reported once, however often it is loaded. *)
ListedOnce(s, m) == IF m \in Elements(s) THEN s ELSE Append(s, m)

Listed(s, m) == Append(s, m)

(* Asks the loaded module for its signature, not its file. *)
WellSignedLoaded(m) == m \in Signed /\ base[m] # 0

WellSigned(m) == m \in Signed

Judge ==
  /\ ~crashed /\ mpc = "verify" /\ loading.by # Monitor
  /\ IF WellSigned(dll) THEN passed' = passed \cup {dll} /\ UNCHANGED unsigned
                        ELSE unsigned' = Listed(unsigned, dll) /\ UNCHANGED passed
  /\ dll' = None
  /\ mpc' = "away"
  /\ UNCHANGED <<memory, queue, qowner, notified, check, barrier, loading, env>>

-----------------------------------------------------------------------------
(* PeriodicIntegrityCheck.                                                    *)

Header(m) == IF m = Main THEN header ELSE Count[m]
Visible(s) == s <= NumSections
Mod == Records[im]

(* Sections taken as if they were numbered from 0. *)
ListSectionsPast(i) ==
  /\ im' = i
  /\ icount' = IF base[Records[i]] = 0 THEN 0 ELSE Header(Records[i])
  /\ is' = 2
  /\ ipc' = "section"

(* FindNonWritableSections, which believes the module's header. *)
ListSections(i) ==
  /\ im' = i
  /\ icount' = IF base[Records[i]] = 0 THEN 0 ELSE Header(Records[i])
  /\ is' = 1
  /\ ipc' = "section"

StartPass ==
  /\ ~crashed /\ mapped /\ ipc = "sleep"
  /\ ListSections(1)
  /\ UNCHANGED <<memory, watch, round, expect, handle, violations, misread, barrier, loading, env>>

LeaveModule ==
  /\ ~crashed /\ mapped /\ ipc = "section" /\ is > icount
  /\ IF im < Len(Records) THEN ListSections(im + 1)
     ELSE ipc' = "sleep" /\ im' = 1 /\ is' = 1 /\ icount' = 0
  /\ UNCHANGED <<memory, watch, round, expect, handle, violations, misread, barrier, loading, env>>

SkipSection ==
  /\ ~crashed /\ mapped /\ ipc = "section" /\ is <= icount /\ base[Mod] = 0
  /\ is' = is + 1
  /\ UNCHANGED <<memory, watch, ipc, im, icount, round, expect, handle, violations, misread, barrier, loading, env>>

(* Integrity's constructor before SetNumSections: the start sees all sections. *)
StartSumAll(m, s) == SumOf(m, Original)

(* What the constructor stored: a section beyond NumSections was not found.    *)
StartSum(m, s) == IF Visible(s) THEN SumOf(m, Original) ELSE NotFound

(* The record is found by the module's base.  One that now lies where another *)
(* was meets the other's sums, and a name the other has not throws.           *)
RetrieveModuleChecksum ==
  /\ ~crashed /\ mapped /\ ipc = "section" /\ is <= icount /\ base[Mod] # 0
  /\ LET owner == {r \in Tracked : Home[r] = base[Mod]}
     IN /\ crashed' = (\E r \in owner : is \notin Sections(r))
        /\ expect' = IF owner = {} \/ crashed' THEN NotFound
                     ELSE StartSum(CHOOSE r \in owner : TRUE, is)
  /\ round' = 1
  /\ ipc' = "lookup"
  /\ UNCHANGED <<memory, watch, im, is, icount, handle, violations, misread, barrier, loading, world>>

(* Each section is summed up three times: for the comparison with the start,  *)
(* for that with the disc, and in GetSectionChecksumFromDisc, which reads the *)
(* file and then returns the sum of the loaded module.                        *)
Compare(sum) ==
  /\ expect' = IF round = 2 THEN sum ELSE expect
  /\ violations' = IF round # 2 /\ sum # expect THEN violations \cup {<<Mod, is>>} ELSE violations
  /\ round' = IF round < 3 THEN round + 1 ELSE 3
  /\ ipc' = IF round < 3 THEN "lookup" ELSE "pages"

(* The file cannot be opened or read, or is no program: it sums to 0.         *)
DiscReadFails ==
  /\ ~crashed /\ mapped /\ ipc = "lookup" /\ round = 3 /\ world.disc
  /\ Compare(NotFound)
  /\ misread' = misread \cup {<<Mod, is>>}
  /\ UNCHANGED <<memory, watch, im, is, icount, handle, barrier, loading, env>>

LookUp ==
  /\ ~crashed /\ mapped /\ ipc = "lookup"
  /\ handle' = base[Mod]
  /\ IF base[Mod] = 0 \/ ~Visible(is)
     THEN Compare(NotFound)
     ELSE ipc' = "read" /\ UNCHANGED <<expect, violations, round>>
  /\ UNCHANGED <<memory, watch, im, is, icount, misread, barrier, loading, env>>

(* GetSections looks the module up again, and the bytes are read at the old   *)
(* handle.  If the module has gone, or gone and come back, in the meantime,   *)
(* there may be no section to read, or the bytes of the module that lies      *)
(* there now, or none, which faults.                                          *)
ReadSection ==
  /\ ~crashed /\ mapped /\ ipc = "read"
  /\ \/ /\ base[Mod] = handle
        /\ Compare(SumOf(Mod, content[Mod][is])) /\ UNCHANGED crashed
     \/ /\ base[Mod] # handle
        /\ \/ Compare(NotFound) /\ UNCHANGED crashed
           \/ /\ \E m \in Modules : \E s \in Sections(m) :
                   base[m] = handle /\ Compare(SumOf(m, content[m][s]))
              /\ UNCHANGED crashed
           \/ crashed' = TRUE /\ UNCHANGED <<ipc, expect, violations, round>>
  /\ UNCHANGED <<memory, watch, im, is, icount, handle, misread, barrier, loading, world>>

FindWritableAddress ==
  /\ ~crashed /\ mapped /\ ipc = "pages"
  /\ violations' = IF base[Mod] # 0 /\ is \in PageChecked /\ writable[Mod][is]
                   THEN violations \cup {<<Mod, is>>} ELSE violations
  /\ is' = is + 1
  /\ ipc' = "section" /\ round' = 1 /\ expect' = NotFound /\ handle' = 0
  /\ UNCHANGED <<memory, watch, im, icount, misread, barrier, loading, env>>

-----------------------------------------------------------------------------
(* DeployBarrier on the main thread, then StartMonitor.  While the image is   *)
(* unmapped any thread that runs its code faults.                             *)

ChangeNumberOfSections ==
  /\ ~crashed /\ bpc = "start"
  /\ header' = 1
  /\ bpc' = "remap"
  /\ UNCHANGED <<memory, watch, check, copy, mapped, loading, env>>

(* Debug build, sections not aligned, or no memory or section to be had. *)
RemapRefused ==
  /\ ~crashed /\ bpc \in {"remap", "copied"}
  /\ bpc' = "done" /\ mpc' = "away"
  /\ UNCHANGED <<memory, queue, qowner, dll, unsigned, passed, notified, check, header, copy, mapped, loading, env>>

CopyImage ==
  /\ ~crashed /\ world.release /\ bpc = "remap"
  /\ copy' = content[Main]
  /\ bpc' = "copied"
  /\ UNCHANGED <<memory, watch, check, header, mapped, loading, env>>

UnmapImage ==
  /\ ~crashed /\ bpc = "copied"
  /\ mapped' = FALSE
  /\ bpc' = "unmapped"
  /\ UNCHANGED <<memory, watch, check, header, copy, loading, env>>

(* A view per section, protected as its header says; the content is that of   *)
(* the copy.  The monitor starts after the barrier.                           *)
MapViews ==
  /\ ~crashed /\ bpc = "unmapped"
  /\ mapped' = TRUE
  /\ content' = [content EXCEPT ![Main] = copy]
  /\ writable' = [writable EXCEPT ![Main] = [s \in Sections(Main) |-> FALSE]]
  /\ bpc' = "done" /\ mpc' = "away"
  /\ UNCHANGED <<base, changes, touched, moved, queue, qowner, dll, unsigned, passed, notified,
                 check, header, copy, loading, env>>

(* A view cannot be mapped and the routine returns into nothing; or another   *)
(* thread runs code of the image.                                             *)
FaultUnmapped ==
  /\ ~crashed /\ ~mapped
  /\ crashed' = TRUE
  /\ UNCHANGED <<memory, watch, check, barrier, loading, world>>

-----------------------------------------------------------------------------
Loader ==
  \/ \E m \in Modules, t \in {Game, Monitor} : \E b \in Places[m] : BeginLoad(t, m, b)
  \/ NotifyLock \/ NotifyPush
  \/ \E m \in Modules : Unload(m)
  \/ \E v \in Changing : Reprotect(v[1], v[2]) \/ \E c \in Contents : Patch(v[1], v[2], c)

MonitorStep == LockQueue \/ PopOrLeave \/ Judge

IntegrityStep ==
  \/ StartPass \/ LeaveModule \/ SkipSection \/ RetrieveModuleChecksum
  \/ LookUp \/ DiscReadFails \/ ReadSection \/ FindWritableAddress

BarrierStep ==
  \/ ChangeNumberOfSections \/ RemapRefused \/ CopyImage \/ UnmapImage \/ MapViews
  \/ FaultUnmapped

Next == Loader \/ MonitorStep \/ IntegrityStep \/ BarrierStep

(* Threads are scheduled, and the queue's mutex starves nobody; nothing has   *)
(* to be loaded, unloaded or changed.                                         *)
Fairness ==
  /\ WF_vars(MonitorStep) /\ SF_vars(LockQueue)
  /\ WF_vars(NotifyPush) /\ SF_vars(NotifyLock)
  /\ WF_vars(IntegrityStep) /\ WF_vars(BarrierStep)

Spec == Init /\ [][Next]_vars /\ Fairness

-----------------------------------------------------------------------------
InHand == IF dll = None THEN <<>> ELSE <<dll>>
Judged == Len(notified) - Len(InHand \o queue)

(* u lists the unsigned ones of the first n of s, in their order.             *)
Refused(s, n) == Cardinality({i \in 1..n : s[i] \notin Signed})
Lists(u, s, n) ==
  /\ Len(u) = Refused(s, n)
  /\ \A i \in 1..n : s[i] \notin Signed => u[Refused(s, i)] = s[i]

(* Whoever loads, and however the loads meet the check of the queue, the      *)
(* loads are judged in their order, the unsigned modules are reported once    *)
(* per load, in that order, and no signed one is forgotten.                   *)
VerdictsInOrder ==
  /\ Judged \in Nat
  /\ \A i \in DOMAIN (InHand \o queue) : (InHand \o queue)[i] = notified[Judged + i]
  /\ Lists(unsigned, notified, Judged)
  /\ passed = {notified[i] : i \in 1..Judged} \cap Signed

Loads == Len(notified) + (IF loading = NoLoad THEN 0 ELSE 1)

(* Every load gets its verdict, although the callback and the check share a   *)
(* mutex, the loader holds its own, and checking a signature may load a DLL.  *)
LoadJudged ==
  \A n \in UNION {1..w.changes : w \in Worlds} :
    (Loads >= n) ~> (Judged >= n \/ crashed)

(* A recorded violation has a cause: the section was changed or its pages     *)
(* were, its module has been away since the start, or the file on disc could  *)
(* not be read, which the code takes for a change.  The client's own doings,  *)
(* a section count for all modules, a shortened header and a remapped image,  *)
(* are none.                                                                  *)
ViolationMeansChange ==
  \A v \in violations : v \in touched \/ v[1] \in moved \/ v \in misread

Tampered(m, s) ==
  /\ base[m] = Home[m] /\ Sum[content[m][s]] # Sum[Original]
  /\ Visible(s) /\ s <= Header(m)

(* A section whose bytes no longer have the sum they had at the start, and    *)
(* stay so, is recorded in the end; of the program only what its header still *)
(* admits to, of others as many sections as the program has.                  *)
TamperRecorded ==
  \A v \in Changing :
    Tampered(v[1], v[2]) ~> (v \in violations \/ ~Tampered(v[1], v[2]) \/ crashed)
=============================================================================
