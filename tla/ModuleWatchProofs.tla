-------------------------- MODULE ModuleWatchProofs --------------------------
(***************************************************************************)
(* Proofs about ModuleWatch for any modules, sections, contents, sums and   *)
(* addresses: the types, that every violation the integrity thread records  *)
(* has a cause outside the client or a file on disc that could not be read, *)
(* and that each loaded DLL is judged in turn.                              *)
(***************************************************************************)
EXTENDS ModuleWatch, FiniteSetTheorems, TLAPS

(* The types, by who changes the variables. *)
MemoryType ==
  /\ base \in [Modules -> Bases \cup {0}]
  /\ \A m \in Modules : content[m] \in [Sections(m) -> Contents]
  /\ \A m \in Modules : writable[m] \in [Sections(m) -> BOOLEAN]
  /\ touched \subseteq Modules \X Nat /\ moved \subseteq Modules
  /\ changes \in 0..world.changes /\ world \in Worlds /\ crashed \in BOOLEAN

WatchType ==
  /\ loading \in [by : {Game, Monitor, None}, name : Modules \cup {None}]
  /\ queue \in Seq(Modules) /\ notified \in Seq(Modules)
  /\ qowner \in {Game, Monitor, None}
  /\ mpc \in {"off", "away", "pop", "verify"} /\ dll \in Modules \cup {None}
  /\ unsigned \in Seq(Modules \ Signed) /\ passed \subseteq Signed

CheckType ==
  /\ ipc \in {"sleep", "section", "lookup", "read", "pages"}
  /\ im \in 1..Len(Records) /\ is \in Nat /\ icount \in Nat /\ round \in 1..3
  /\ expect \in SumSet /\ handle \in Bases \cup {0}
  /\ violations \subseteq AllSections /\ misread \subseteq AllSections

BarrierType ==
  /\ bpc \in {"start", "remap", "copied", "unmapped", "done"}
  /\ header \in {1, Count[Main]} /\ copy \in [Sections(Main) -> Contents]
  /\ mapped \in BOOLEAN

(* The functions of a module have that domain. *)
ShapeInv == DOMAIN content = Modules /\ DOMAIN writable = Modules

(* Who holds a module in hand has one. *)
HandInv ==
  /\ mpc = "verify" => dll \in Modules
  /\ loading # NoLoad => loading.name \in Modules

(* The section the integrity thread is at is one of its module. *)
PlaceInv ==
  /\ icount <= Count[Mod] /\ is >= 1
  /\ ipc \in {"lookup", "read", "pages"} => is <= icount
  /\ ipc = "read" => Visible(is)

(* A module that was never unloaded is where it was, a section that was never *)
(* changed is as it was, also in the copy that is to replace the image.       *)
OriginInv ==
  /\ \A m \in Tracked \ moved : base[m] = Home[m]
  /\ \A m \in Modules : \A s \in Sections(m) :
       <<m, s>> \notin touched => content[m][s] = Original /\ ~ writable[m][s]
  /\ \A s \in Sections(Main) : <<Main, s>> \notin touched => copy[s] = Original

(* What a section will be compared with, if it has no cause to differ, and    *)
(* where it will be read, if its module has stayed.                           *)
ExpectInv ==
  /\ ipc \in {"lookup", "read", "pages"} /\ Mod \notin moved /\ <<Mod, is>> \notin touched
       => expect = StartSum(Mod, is)
  /\ ipc = "read" /\ Mod \notin moved => handle = Home[Mod]

IInv ==
  /\ MemoryType /\ WatchType /\ CheckType /\ BarrierType
  /\ ShapeInv /\ HandInv /\ PlaceInv
  /\ OriginInv /\ ExpectInv /\ ViolationMeansChange

-----------------------------------------------------------------------------
LEMMA RecordsAre ==
  /\ Len(Records) \in Nat /\ DOMAIN Records = 1..Len(Records)
  /\ Len(Records) >= 1
  /\ \A i \in 1..Len(Records) : Records[i] \in Tracked
  /\ Tracked \subseteq Modules /\ Main \in Modules /\ Original \in Contents
  /\ \A m \in Modules : Count[m] \in Nat /\ Count[m] >= 1
  /\ \A m \in Tracked : Home[m] \in Bases /\ Home[m] \in Nat /\ Home[m] # 0
  <1>1. Records \in Seq(Tracked) /\ Main \in Tracked
    BY ModulesAssumption
  <1>2. Len(Records) \in Nat /\ DOMAIN Records = 1..Len(Records)
    BY <1>1
  <1>3. \A i \in 1..Len(Records) : Records[i] \in Tracked
    BY <1>1
  <1>4. Len(Records) >= 1
    BY <1>1, <1>2 DEF Tracked, Elements
  <1>5. Tracked \subseteq Modules /\ Main \in Modules /\ Original \in Contents
    BY <1>1, ModulesAssumption DEF Modules
  <1>6. \A m \in Modules : Count[m] \in Nat /\ Count[m] >= 1
    BY ModulesAssumption
  <1>7. \A m \in Tracked : Home[m] \in Bases /\ Home[m] \in Nat /\ Home[m] # 0
    BY ModulesAssumption
  <1> QED BY <1>1, <1>2, <1>3, <1>4, <1>5, <1>6, <1>7

LEMMA WorldIs ==
  ASSUME MemoryType
  PROVE  world.changes \in Nat /\ changes \in Nat
  BY ModulesAssumption DEF MemoryType

LEMMA InSections ==
  ASSUME NEW m \in Tracked, NEW s \in Nat, s >= 1, s <= Count[m]
  PROVE  s \in Sections(m) /\ <<m, s>> \in AllSections
  <1>1. s \in Sections(m)
    BY RecordsAre DEF Sections
  <1> QED BY <1>1 DEF AllSections

LEMMA FreshType == \A m \in Modules : Fresh(m) \in [Sections(m) -> Contents]
  BY RecordsAre DEF Fresh

LEMMA SumType ==
  ASSUME NEW m \in Modules, NEW c \in Contents
  PROVE  SumOf(m, c) \in SumSet
  BY DEF SumSet

LEMMA InvInit == Init => IInv
  <1> SUFFICES ASSUME Init PROVE IInv
    OBVIOUS
  <1> USE RecordsAre
  <1>1. MemoryType
    <2>1. world \in Worlds /\ world.changes \in Nat
      BY ModulesAssumption DEF Init
    <2>2. base \in [Modules -> Bases \cup {0}]
      BY DEF Init
    <2>3. \A m \in Modules : content[m] \in [Sections(m) -> Contents]
      BY FreshType DEF Init
    <2>4. \A m \in Modules : writable[m] \in [Sections(m) -> BOOLEAN]
      BY DEF Init
    <2>5. changes \in 0..world.changes
      BY <2>1 DEF Init
    <2>6. touched = {} /\ moved = {} /\ crashed = FALSE
      BY DEF Init
    <2> QED BY <2>1, <2>2, <2>3, <2>4, <2>5, <2>6 DEF MemoryType
  <1>2. WatchType
    <2>1. /\ loading \in [by : {Game, Monitor, None}, name : Modules \cup {None}]
          /\ qowner = None /\ mpc = "off" /\ dll = None
      BY DEF Init, NoLoad
    <2>2. queue = <<>> /\ notified = <<>> /\ unsigned = <<>> /\ passed = {}
      BY DEF Init
    <2>3. <<>> \in Seq(Modules) /\ <<>> \in Seq(Modules \ Signed)
      OBVIOUS
    <2> QED BY <2>1, <2>2, <2>3 DEF WatchType
  <1>3. CheckType
    BY DEF Init, CheckType, SumSet
  <1>4. BarrierType
    BY FreshType DEF Init, BarrierType
  <1>5. ShapeInv /\ HandInv /\ PlaceInv
    BY DEF Init, ShapeInv, HandInv, PlaceInv, Mod
  <1>6. OriginInv
    BY DEF Init, OriginInv, Fresh
  <1>7. ExpectInv /\ ViolationMeansChange
    BY DEF Init, ExpectInv, ViolationMeansChange
  <1> QED BY <1>1, <1>2, <1>3, <1>4, <1>5, <1>6, <1>7 DEF IInv

-----------------------------------------------------------------------------
(* What a step leaves alone stays right. *)

LEMMA MemoryKept ==
  ASSUME MemoryType, ShapeInv, OriginInv,
         UNCHANGED <<memory, world>>, crashed' \in BOOLEAN, copy' = copy
  PROVE  MemoryType' /\ ShapeInv' /\ OriginInv'
  BY DEF memory, MemoryType, ShapeInv, OriginInv

LEMMA WatchKept ==
  ASSUME WatchType, HandInv, UNCHANGED <<watch, loading>>
  PROVE  WatchType' /\ HandInv'
  BY DEF watch, WatchType, HandInv

(* What has no cause now had none before. *)
LEMMA CheckKept ==
  ASSUME CheckType, PlaceInv, ExpectInv, ViolationMeansChange,
         UNCHANGED check, touched \subseteq touched', moved \subseteq moved'
  PROVE  CheckType' /\ PlaceInv' /\ ExpectInv' /\ ViolationMeansChange'
  <1>1. CheckType'
    BY DEF check, CheckType
  <1>2. PlaceInv'
    BY DEF check, PlaceInv, Mod
  <1>3. ExpectInv'
    BY DEF check, ExpectInv, Mod
  <1>4. ViolationMeansChange'
    BY DEF check, ViolationMeansChange
  <1> QED BY <1>1, <1>2, <1>3, <1>4

LEMMA BarrierKept ==
  ASSUME BarrierType, UNCHANGED barrier
  PROVE  BarrierType'
  BY DEF barrier, BarrierType

-----------------------------------------------------------------------------
(* The loader, and what changes the loaded modules. *)

LEMMA BeginLoadKeeps ==
  ASSUME IInv, NEW t \in {Game, Monitor}, NEW m \in Modules, NEW b \in Places[m],
         BeginLoad(t, m, b)
  PROVE  IInv'
  <1>1. /\ base[m] = 0
        /\ base' = [base EXCEPT ![m] = b]
        /\ content' = [content EXCEPT ![m] = Fresh(m)]
        /\ writable' = [writable EXCEPT ![m] = [s \in Sections(m) |-> FALSE]]
        /\ loading' = [by |-> t, name |-> m]
        /\ changes < world.changes /\ changes' = changes + 1
        /\ UNCHANGED <<touched, moved, watch, check, barrier, world, crashed>>
    BY DEF BeginLoad, env
  <1>2. b \in Bases
    BY ModulesAssumption
  <1>3. MemoryType'
    <2>1. base' \in [Modules -> Bases \cup {0}]
      BY <1>1, <1>2 DEF IInv, MemoryType
    <2>2. \A n \in Modules : content'[n] \in [Sections(n) -> Contents]
      BY <1>1, FreshType DEF IInv, MemoryType, ShapeInv
    <2>3. \A n \in Modules : writable'[n] \in [Sections(n) -> BOOLEAN]
      BY <1>1 DEF IInv, MemoryType, ShapeInv
    <2>4. changes' \in 0..world.changes
      BY <1>1, WorldIs DEF IInv, MemoryType
    <2> QED BY <1>1, <2>1, <2>2, <2>3, <2>4 DEF IInv, MemoryType
  <1>4. WatchType' /\ HandInv'
    BY <1>1 DEF watch, IInv, WatchType, HandInv, NoLoad
  <1>5. ShapeInv'
    BY <1>1 DEF IInv, ShapeInv
  <1>6. OriginInv'
    <2>1. \A n \in Tracked \ moved : n # m
      BY <1>1, RecordsAre DEF IInv, OriginInv
    <2>2. \A n \in Tracked \ moved : base'[n] = Home[n]
      BY <1>1, <2>1, RecordsAre DEF IInv, OriginInv, MemoryType
    <2>3. \A n \in Modules : \A s \in Sections(n) :
            <<n, s>> \notin touched => content'[n][s] = Original /\ ~ writable'[n][s]
      BY <1>1 DEF IInv, OriginInv, ShapeInv, Fresh
    <2>4. copy' = copy
      BY <1>1 DEF barrier
    <2> QED BY <1>1, <2>2, <2>3, <2>4 DEF IInv, OriginInv
  <1>7. CheckType' /\ PlaceInv' /\ ExpectInv' /\ ViolationMeansChange'
    BY <1>1, CheckKept DEF IInv
  <1>8. BarrierType'
    BY <1>1, BarrierKept DEF IInv
  <1> QED BY <1>3, <1>4, <1>5, <1>6, <1>7, <1>8 DEF IInv

LEMMA NotifyKeeps ==
  ASSUME IInv, NotifyLock \/ NotifyPush
  PROVE  IInv'
  <1>1. /\ UNCHANGED <<memory, mpc, dll, unsigned, passed, check, barrier, world, crashed>>
        /\ loading # NoLoad
    BY DEF NotifyLock, NotifyPush, env
  <1>2. loading.name \in Modules
    BY <1>1 DEF IInv, HandInv
  <1>3. WatchType'
    <2>1. CASE NotifyLock
      BY <1>1, <2>1 DEF NotifyLock, IInv, WatchType
    <2>2. CASE NotifyPush
      <3>1. queue' \in Seq(Modules) /\ notified' \in Seq(Modules)
        BY <1>2, <2>2 DEF NotifyPush, IInv, WatchType
      <3>2. loading' = NoLoad /\ qowner' = None
        BY <2>2 DEF NotifyPush
      <3> QED BY <1>1, <3>1, <3>2 DEF IInv, WatchType, NoLoad
    <2> QED BY <2>1, <2>2
  <1>4. HandInv'
    BY <1>1 DEF NotifyLock, NotifyPush, IInv, HandInv
  <1>5. copy' = copy /\ touched' = touched /\ moved' = moved
    BY <1>1 DEF barrier, memory
  <1>6. MemoryType' /\ ShapeInv' /\ OriginInv'
    <2>1. crashed' \in BOOLEAN
      BY <1>1 DEF IInv, MemoryType
    <2> QED BY <1>1, <1>5, <2>1, MemoryKept DEF IInv
  <1>7. CheckType' /\ PlaceInv' /\ ExpectInv' /\ ViolationMeansChange'
    BY <1>1, <1>5, CheckKept DEF IInv
  <1>8. BarrierType'
    BY <1>1, BarrierKept DEF IInv
  <1> QED BY <1>3, <1>4, <1>6, <1>7, <1>8 DEF IInv

LEMMA UnloadKeeps ==
  ASSUME IInv, NEW m \in Modules, Unload(m)
  PROVE  IInv'
  <1>1. /\ base' = [base EXCEPT ![m] = 0]
        /\ moved' = moved \cup {m}
        /\ changes < world.changes /\ changes' = changes + 1
        /\ UNCHANGED <<content, writable, touched, watch, check, barrier, loading, world, crashed>>
    BY DEF Unload, env
  <1>2. MemoryType'
    <2>1. base' \in [Modules -> Bases \cup {0}]
      BY <1>1 DEF IInv, MemoryType
    <2>2. changes' \in 0..world.changes
      BY <1>1, WorldIs DEF IInv, MemoryType
    <2> QED BY <1>1, <2>1, <2>2 DEF IInv, MemoryType
  <1>3. ShapeInv'
    BY <1>1 DEF IInv, ShapeInv
  <1>4. OriginInv'
    <2>1. \A n \in Tracked \ moved' : base'[n] = Home[n]
      BY <1>1, RecordsAre DEF IInv, OriginInv, MemoryType
    <2>2. copy' = copy
      BY <1>1 DEF barrier
    <2> QED BY <1>1, <2>1, <2>2 DEF IInv, OriginInv
  <1>5. CheckType' /\ PlaceInv' /\ ExpectInv' /\ ViolationMeansChange'
    BY <1>1, CheckKept DEF IInv
  <1>6. BarrierType' /\ WatchType' /\ HandInv'
    BY <1>1, BarrierKept, WatchKept DEF IInv
  <1> QED BY <1>2, <1>3, <1>4, <1>5, <1>6 DEF IInv

(* A section that is changed has a cause from then on. *)
LEMMA TouchKeeps ==
  ASSUME IInv, NEW m \in Modules, NEW s \in Sections(m),
         \/ (\E c \in Contents : Patch(m, s, c))
         \/ Reprotect(m, s)
  PROVE  IInv'
  <1>1. /\ touched' = touched \cup {<<m, s>>}
        /\ changes < world.changes /\ changes' = changes + 1
        /\ UNCHANGED <<base, moved, watch, check, barrier, loading, world, crashed>>
    BY DEF Patch, Reprotect, env
  <1>2. \/ (\E c \in Contents : content' = [content EXCEPT ![m][s] = c] /\ writable' = writable)
        \/ (content' = content /\ writable' = [writable EXCEPT ![m][s] = ~@])
    BY DEF Patch, Reprotect
  <1>3. s \in Nat /\ m \in DOMAIN content /\ m \in DOMAIN writable
    BY RecordsAre DEF IInv, ShapeInv, Sections
  <1>4. \A n \in Modules : content'[n] \in [Sections(n) -> Contents]
    <2>1. CASE content' = content
      BY <2>1 DEF IInv, MemoryType
    <2>2. ASSUME NEW c \in Contents, content' = [content EXCEPT ![m][s] = c]
          PROVE  \A n \in Modules : content'[n] \in [Sections(n) -> Contents]
      <3>1. content'[m] = [content[m] EXCEPT ![s] = c]
        BY <1>3, <2>2
      <3>2. content'[m] \in [Sections(m) -> Contents]
        BY <3>1 DEF IInv, MemoryType
      <3>3. \A n \in Modules : n # m => content'[n] = content[n]
        BY <2>2 DEF IInv, ShapeInv
      <3> QED BY <3>2, <3>3 DEF IInv, MemoryType
    <2> QED BY <1>2, <2>1, <2>2
  <1>5. \A n \in Modules : writable'[n] \in [Sections(n) -> BOOLEAN]
    <2>1. CASE writable' = writable
      BY <2>1 DEF IInv, MemoryType
    <2>2. CASE writable' = [writable EXCEPT ![m][s] = ~@]
      <3>1. writable'[m] = [writable[m] EXCEPT ![s] = ~@]
        BY <1>3, <2>2
      <3>2. writable'[m] \in [Sections(m) -> BOOLEAN]
        BY <3>1 DEF IInv, MemoryType
      <3>3. \A n \in Modules : n # m => writable'[n] = writable[n]
        BY <2>2 DEF IInv, ShapeInv
      <3> QED BY <3>2, <3>3 DEF IInv, MemoryType
    <2> QED BY <1>2, <2>1, <2>2
  <1>6. MemoryType'
    <2>1. changes' \in 0..world.changes
      BY <1>1, WorldIs DEF IInv, MemoryType
    <2>2. touched' \subseteq Modules \X Nat
      BY <1>1, <1>3 DEF IInv, MemoryType
    <2> QED BY <1>1, <1>4, <1>5, <2>1, <2>2 DEF IInv, MemoryType
  <1>7. ShapeInv'
    BY <1>2 DEF IInv, ShapeInv
  <1>8. OriginInv'
    <2>1. \A n \in Modules : \A r \in Sections(n) :
            <<n, r>> # <<m, s>> => content'[n][r] = content[n][r] /\ writable'[n][r] = writable[n][r]
      BY <1>2, <1>3 DEF IInv, ShapeInv, MemoryType
    <2>2. copy' = copy
      BY <1>1 DEF barrier
    <2> QED BY <1>1, <2>1, <2>2 DEF IInv, OriginInv
  <1>9. CheckType' /\ PlaceInv' /\ ExpectInv' /\ ViolationMeansChange'
    BY <1>1, CheckKept DEF IInv
  <1>10. BarrierType' /\ WatchType' /\ HandInv'
    BY <1>1, BarrierKept, WatchKept DEF IInv
  <1> QED BY <1>6, <1>7, <1>8, <1>9, <1>10 DEF IInv

-----------------------------------------------------------------------------
(* The monitor thread and the barrier. *)

LEMMA MonitorKeeps ==
  ASSUME IInv, MonitorStep
  PROVE  IInv'
  <1>1. UNCHANGED <<memory, notified, check, barrier, loading, world, crashed>>
    BY DEF MonitorStep, LockQueue, PopOrLeave, Judge, env
  <1>2. WatchType' /\ HandInv'
    <2>1. CASE LockQueue
      BY <2>1 DEF LockQueue, IInv, WatchType, HandInv
    <2>2. CASE PopOrLeave
      <3>1. CASE queue = <<>>
        BY <2>2, <3>1 DEF PopOrLeave, IInv, WatchType, HandInv
      <3>2. CASE queue # <<>>
        <4>1. Head(queue) \in Modules /\ Tail(queue) \in Seq(Modules)
          BY <3>2 DEF IInv, WatchType
        <4>2. /\ dll' = Head(queue) /\ queue' = Tail(queue) /\ mpc' = "verify" /\ qowner' = None
              /\ UNCHANGED <<unsigned, passed, notified, loading>>
          BY <2>2, <3>2 DEF PopOrLeave, ReleaseQueue
        <4> QED BY <4>1, <4>2 DEF IInv, WatchType, HandInv
      <3> QED BY <3>1, <3>2
    <2>3. CASE Judge
      <3>1. dll \in Modules
        BY <2>3 DEF Judge, IInv, HandInv
      <3>2. unsigned' \in Seq(Modules \ Signed) /\ passed' \subseteq Signed
        <4>1. CASE dll \in Signed
          BY <2>3, <4>1 DEF Judge, WellSigned, IInv, WatchType
        <4>2. CASE dll \notin Signed
          <5>1. unsigned' = Append(unsigned, dll) /\ passed' = passed
            BY <2>3, <4>2 DEF Judge, WellSigned, Listed
          <5>2. dll \in Modules \ Signed /\ unsigned \in Seq(Modules \ Signed)
            BY <3>1, <4>2 DEF IInv, WatchType
          <5>3. Append(unsigned, dll) \in Seq(Modules \ Signed)
            BY <5>2
          <5> QED BY <5>1, <5>3 DEF IInv, WatchType
        <4> QED BY <4>1, <4>2
      <3>3. dll' = None /\ mpc' = "away" /\ UNCHANGED <<queue, qowner, notified, loading>>
        BY <2>3 DEF Judge
      <3> QED BY <3>2, <3>3 DEF IInv, WatchType, HandInv
    <2> QED BY <2>1, <2>2, <2>3 DEF MonitorStep
  <1>3. copy' = copy /\ touched' = touched /\ moved' = moved
    BY <1>1 DEF barrier, memory
  <1>4. crashed' \in BOOLEAN
    BY <1>1 DEF IInv, MemoryType
  <1>5. MemoryType' /\ ShapeInv' /\ OriginInv'
    BY <1>1, <1>3, <1>4, MemoryKept DEF IInv
  <1>6. CheckType' /\ PlaceInv' /\ ExpectInv' /\ ViolationMeansChange'
    BY <1>1, <1>3, CheckKept DEF IInv
  <1>7. BarrierType'
    BY <1>1, BarrierKept DEF IInv
  <1> QED BY <1>2, <1>5, <1>6, <1>7 DEF IInv

LEMMA BarrierKeeps ==
  ASSUME IInv, BarrierStep
  PROVE  IInv'
  <1>1. /\ UNCHANGED <<check, loading, world, base, changes, touched, moved>>
        /\ UNCHANGED <<queue, qowner, dll, unsigned, passed, notified>>
    BY DEF BarrierStep, ChangeNumberOfSections, RemapRefused, CopyImage, UnmapImage, MapViews,
           FaultUnmapped, env, memory, watch
  <1>2. CheckType' /\ PlaceInv' /\ ExpectInv' /\ ViolationMeansChange'
    BY <1>1, CheckKept DEF IInv
  <1>3. WatchType' /\ HandInv'
    <2>1. mpc' \in {mpc, "away"}
      BY DEF BarrierStep, ChangeNumberOfSections, RemapRefused, CopyImage, UnmapImage, MapViews,
             FaultUnmapped, watch
    <2> QED BY <1>1, <2>1 DEF IInv, WatchType, HandInv
  <1>4. ASSUME UNCHANGED memory, copy' = copy, crashed' \in BOOLEAN
        PROVE  MemoryType' /\ ShapeInv' /\ OriginInv'
    BY <1>1, <1>4, MemoryKept DEF IInv
  <1>5. crashed' \in BOOLEAN
    BY DEF BarrierStep, ChangeNumberOfSections, RemapRefused, CopyImage, UnmapImage, MapViews,
           FaultUnmapped, env, IInv, MemoryType
  <1>6. CASE ChangeNumberOfSections
    <2>1. BarrierType'
      BY <1>6 DEF ChangeNumberOfSections, IInv, BarrierType
    <2>2. UNCHANGED memory /\ copy' = copy
      BY <1>6 DEF ChangeNumberOfSections
    <2> QED BY <1>2, <1>3, <1>4, <1>5, <2>1, <2>2 DEF IInv
  <1>7. CASE RemapRefused
    <2>1. BarrierType'
      BY <1>7 DEF RemapRefused, IInv, BarrierType
    <2>2. UNCHANGED memory /\ copy' = copy
      BY <1>7 DEF RemapRefused
    <2> QED BY <1>2, <1>3, <1>4, <1>5, <2>1, <2>2 DEF IInv
  <1>8. CASE CopyImage
    <2>1. copy' = content[Main] /\ UNCHANGED <<memory, crashed>>
      BY <1>8 DEF CopyImage, env
    <2>2. BarrierType'
      BY <1>8, <2>1, RecordsAre DEF CopyImage, IInv, MemoryType, BarrierType
    <2>3. MemoryType' /\ ShapeInv'
      BY <1>1, <2>1 DEF memory, IInv, MemoryType, ShapeInv
    <2>4. OriginInv'
      BY <2>1, RecordsAre DEF memory, IInv, OriginInv
    <2> QED BY <1>2, <1>3, <2>2, <2>3, <2>4 DEF IInv
  <1>9. CASE UnmapImage
    <2>1. BarrierType'
      BY <1>9 DEF UnmapImage, IInv, BarrierType
    <2>2. UNCHANGED memory /\ copy' = copy
      BY <1>9 DEF UnmapImage
    <2> QED BY <1>2, <1>3, <1>4, <1>5, <2>1, <2>2 DEF IInv
  <1>10. CASE MapViews
    <2>1. /\ content' = [content EXCEPT ![Main] = copy]
          /\ writable' = [writable EXCEPT ![Main] = [s \in Sections(Main) |-> FALSE]]
          /\ copy' = copy /\ mapped' = TRUE /\ header' = header /\ bpc' = "done"
      BY <1>10 DEF MapViews
    <2>2. BarrierType'
      BY <2>1 DEF IInv, BarrierType
    <2>3. \A m \in Modules : /\ content'[m] \in [Sections(m) -> Contents]
                             /\ writable'[m] \in [Sections(m) -> BOOLEAN]
      BY <2>1 DEF IInv, MemoryType, ShapeInv, BarrierType
    <2>4. MemoryType'
      BY <1>1, <1>5, <2>3 DEF IInv, MemoryType
    <2>5. ShapeInv'
      BY <2>1 DEF IInv, ShapeInv
    <2>6. \A m \in Modules : \A s \in Sections(m) :
            <<m, s>> \notin touched => content'[m][s] = Original /\ ~ writable'[m][s]
      BY <2>1 DEF IInv, OriginInv, ShapeInv
    <2>7. OriginInv'
      BY <1>1, <2>1, <2>6 DEF IInv, OriginInv
    <2> QED BY <1>2, <1>3, <2>2, <2>4, <2>5, <2>7 DEF IInv
  <1>11. CASE FaultUnmapped
    <2>1. UNCHANGED <<memory, barrier>>
      BY <1>11 DEF FaultUnmapped
    <2>2. BarrierType'
      BY <2>1, BarrierKept DEF IInv
    <2>3. copy' = copy
      BY <2>1 DEF barrier
    <2> QED BY <1>2, <1>3, <1>4, <1>5, <2>1, <2>2, <2>3 DEF IInv
  <1> QED BY <1>6, <1>7, <1>8, <1>9, <1>10, <1>11 DEF BarrierStep

-----------------------------------------------------------------------------
(* The integrity thread.  It changes nothing but its own locals. *)

LEMMA OnlyChecks ==
  ASSUME IInv, UNCHANGED <<memory, watch, barrier, loading, world>>, crashed' \in BOOLEAN
  PROVE  /\ MemoryType' /\ WatchType' /\ BarrierType' /\ ShapeInv' /\ HandInv' /\ OriginInv'
         /\ touched' = touched /\ moved' = moved
  <1>1. copy' = copy /\ touched' = touched /\ moved' = moved
    BY DEF barrier, memory
  <1>2. MemoryType' /\ ShapeInv' /\ OriginInv'
    BY <1>1, MemoryKept DEF IInv
  <1>3. WatchType' /\ HandInv' /\ BarrierType'
    BY WatchKept, BarrierKept DEF IInv
  <1> QED BY <1>1, <1>2, <1>3

LEMMA ListedAre ==
  ASSUME IInv, NEW i \in 1..Len(Records), ListSections(i),
         UNCHANGED <<round, expect, handle, violations, misread>>, touched' = touched, moved' = moved
  PROVE  CheckType' /\ PlaceInv' /\ ExpectInv' /\ ViolationMeansChange'
  <1>1. Records[i] \in Modules /\ Count[Records[i]] \in Nat
    BY RecordsAre
  <1>2. Header(Records[i]) \in Nat /\ Header(Records[i]) <= Count[Records[i]]
    BY <1>1, RecordsAre DEF Header, IInv, BarrierType
  <1>3. icount' \in Nat /\ icount' <= Count[Records[i]]
    BY <1>1, <1>2 DEF ListSections
  <1>4. im' = i /\ is' = 1 /\ ipc' = "section"
    BY DEF ListSections
  <1>5. CheckType'
    BY <1>3, <1>4 DEF IInv, CheckType
  <1>6. PlaceInv'
    BY <1>3, <1>4 DEF PlaceInv, Mod
  <1>7. ExpectInv'
    BY <1>4 DEF ExpectInv
  <1>8. ViolationMeansChange'
    BY DEF IInv, ViolationMeansChange
  <1> QED BY <1>5, <1>6, <1>7, <1>8

LEMMA ModIs ==
  ASSUME IInv
  PROVE  /\ Mod \in Tracked /\ Mod \in Modules /\ Count[Mod] \in Nat
         /\ is \in Nat /\ icount \in Nat
         /\ (is <= icount => is \in Sections(Mod) /\ <<Mod, is>> \in AllSections)
  <1>1. Mod \in Tracked /\ Mod \in Modules /\ Count[Mod] \in Nat /\ is \in Nat /\ icount \in Nat
    BY RecordsAre DEF IInv, CheckType, Mod
  <1>2. is <= icount => is <= Count[Mod]
    BY <1>1 DEF IInv, PlaceInv
  <1>3. is >= 1
    BY DEF IInv, PlaceInv
  <1> QED BY <1>1, <1>2, <1>3, InSections

LEMMA PassKeeps ==
  ASSUME IInv, StartPass \/ LeaveModule \/ SkipSection
  PROVE  IInv'
  <1>1. /\ UNCHANGED <<memory, watch, barrier, loading, world, crashed>>
        /\ UNCHANGED <<round, expect, handle, violations, misread>>
    BY DEF StartPass, LeaveModule, SkipSection, env
  <1>2. crashed' \in BOOLEAN
    BY <1>1 DEF IInv, MemoryType
  <1>3. touched' = touched /\ moved' = moved
    BY <1>1 DEF memory
  <1>4. CheckType' /\ PlaceInv' /\ ExpectInv' /\ ViolationMeansChange'
    <2>1. CASE StartPass
      BY <1>1, <1>3, <2>1, ListedAre, RecordsAre DEF StartPass
    <2>2. CASE LeaveModule /\ im < Len(Records)
      <3>1. im + 1 \in 1..Len(Records) /\ ListSections(im + 1)
        BY <2>2, RecordsAre DEF LeaveModule, IInv, CheckType
      <3> QED BY <1>1, <1>3, <3>1, ListedAre
    <2>3. CASE LeaveModule /\ ~ (im < Len(Records))
      <3>1. ipc' = "sleep" /\ im' = 1 /\ is' = 1 /\ icount' = 0
        BY <2>3 DEF LeaveModule
      <3>2. CheckType'
        BY <1>1, <3>1, RecordsAre DEF IInv, CheckType
      <3>3. PlaceInv' /\ ExpectInv'
        BY <3>1, RecordsAre DEF PlaceInv, ExpectInv, Mod
      <3>4. ViolationMeansChange'
        BY <1>1, <1>3 DEF IInv, ViolationMeansChange
      <3> QED BY <3>2, <3>3, <3>4
    <2>4. CASE SkipSection
      <3>1. is' = is + 1 /\ ipc = "section" /\ UNCHANGED <<ipc, im, icount>>
        BY <2>4 DEF SkipSection
      <3>2. CheckType'
        BY <1>1, <3>1 DEF IInv, CheckType
      <3>3. PlaceInv' /\ ExpectInv'
        BY <3>1 DEF IInv, CheckType, PlaceInv, ExpectInv, Mod
      <3>4. ViolationMeansChange'
        BY <1>1, <1>3 DEF IInv, ViolationMeansChange
      <3> QED BY <3>2, <3>3, <3>4
    <2> QED BY <2>1, <2>2, <2>3, <2>4
  <1> QED BY <1>1, <1>2, <1>4, OnlyChecks DEF IInv

(* A module that was never away is found by its own base, and by no other's. *)
LEMMA RetrieveKeeps ==
  ASSUME IInv, RetrieveModuleChecksum
  PROVE  IInv'
  <1> DEFINE owner == {r \in Tracked : Home[r] = base[Mod]}
  <1>1. /\ UNCHANGED <<memory, watch, im, is, icount, handle, violations, misread, barrier, loading, world>>
        /\ ipc = "section" /\ is <= icount /\ round' = 1 /\ ipc' = "lookup"
        /\ crashed' = (\E r \in owner : is \notin Sections(r))
        /\ expect' = IF owner = {} \/ crashed' THEN NotFound
                     ELSE StartSum(CHOOSE r \in owner : TRUE, is)
    BY DEF RetrieveModuleChecksum
  <1>2. crashed' \in BOOLEAN
    BY <1>1
  <1>3. touched' = touched /\ moved' = moved
    BY <1>1 DEF memory
  <1>4. /\ Mod \in Tracked /\ is \in Nat /\ icount \in Nat /\ Mod' = Mod
        /\ is \in Sections(Mod)
    BY <1>1, ModIs DEF Mod
  <1>5. expect' \in SumSet
    <2>1. CASE owner = {} \/ crashed'
      BY <1>1, <2>1 DEF SumSet
    <2>2. CASE ~ (owner = {} \/ crashed')
      <3>1. (CHOOSE r \in owner : TRUE) \in Tracked
        BY <2>2
      <3> HIDE DEF owner
      <3>2. expect' \in {NotFound, SumOf(CHOOSE r \in owner : TRUE, Original)}
        BY <1>1, <2>2 DEF StartSum
      <3>3. SumOf(CHOOSE r \in owner : TRUE, Original) \in SumSet
        BY <3>1, RecordsAre, SumType
      <3>4. NotFound \in SumSet
        BY DEF SumSet
      <3> QED BY <3>2, <3>3, <3>4
    <2> QED BY <2>1, <2>2
  <1>6. ASSUME Mod \notin moved PROVE expect' = StartSum(Mod, is)
    <2>1. base[Mod] = Home[Mod]
      BY <1>4, <1>6 DEF IInv, OriginInv
    <2>2. owner = {Mod}
      BY <1>4, <2>1, ModulesAssumption
    <2> HIDE DEF owner
    <2>3. ~ crashed'
      BY <1>1, <1>4, <2>2
    <2>4. (CHOOSE r \in owner : TRUE) = Mod
      BY <2>2
    <2> QED BY <1>1, <2>2, <2>3, <2>4
  <1>7. CheckType'
    BY <1>1, <1>5 DEF IInv, CheckType
  <1>8. PlaceInv'
    BY <1>1, <1>4 DEF IInv, PlaceInv
  <1>9. ExpectInv'
    BY <1>1, <1>3, <1>4, <1>6 DEF ExpectInv
  <1>10. ViolationMeansChange'
    BY <1>1, <1>3 DEF IInv, ViolationMeansChange
  <1> QED BY <1>1, <1>2, <1>7, <1>8, <1>9, <1>10, OnlyChecks DEF IInv

(* All three comparisons get the sum of the start, if nothing has happened.  *)
LEMMA CompareKeeps ==
  ASSUME IInv, NEW sum \in SumSet, Compare(sum), ipc \in {"lookup", "read"},
         UNCHANGED <<im, is, icount>>, touched' = touched, moved' = moved,
         handle' \in Bases \cup {0}, misread' \in {misread, misread \cup {<<Mod, is>>}},
         \/ Mod \notin moved /\ <<Mod, is>> \notin touched => sum = StartSum(Mod, is)
         \/ round = 3 /\ <<Mod, is>> \in misread'
  PROVE  CheckType' /\ PlaceInv' /\ ExpectInv' /\ ViolationMeansChange'
  <1>1. /\ is <= icount /\ Mod' = Mod /\ <<Mod, is>> \in AllSections
    BY ModIs DEF IInv, PlaceInv, Mod
  <1>2. ipc' \in {"lookup", "pages"}
    BY DEF Compare
  <1>3. round \in 1..3 /\ round' \in 1..3
    BY DEF Compare, IInv, CheckType
  <1>4. expect' \in {sum, expect}
    BY DEF Compare
  <1>5. violations' \in {violations, violations \cup {<<Mod, is>>}}
    BY DEF Compare
  <1>6. Mod \notin moved /\ <<Mod, is>> \notin touched => expect = StartSum(Mod, is)
    BY DEF IInv, ExpectInv
  <1>7. CheckType'
    BY <1>1, <1>2, <1>3, <1>4, <1>5 DEF IInv, CheckType
  <1>8. PlaceInv'
    BY <1>1, <1>2 DEF IInv, PlaceInv
  <1>9. ExpectInv'
    <2>1. round = 3 => expect' = expect
      BY DEF Compare
    <2> QED BY <1>1, <1>2, <1>4, <1>6, <2>1 DEF ExpectInv
  <1>10. ViolationMeansChange'
    <2>1. Mod \notin moved /\ <<Mod, is>> \notin touched
            => violations' = violations \/ <<Mod, is>> \in misread'
      BY <1>6 DEF Compare
    <2> QED BY <1>5, <2>1 DEF IInv, ViolationMeansChange
  <1> QED BY <1>7, <1>8, <1>9, <1>10

LEMMA LookUpKeeps ==
  ASSUME IInv, LookUp
  PROVE  IInv'
  <1>1. /\ UNCHANGED <<memory, watch, im, is, icount, misread, barrier, loading, world, crashed>>
        /\ ipc = "lookup" /\ handle' = base[Mod]
    BY DEF LookUp, env
  <1>2. crashed' \in BOOLEAN
    BY <1>1 DEF IInv, MemoryType
  <1>3. touched' = touched /\ moved' = moved
    BY <1>1 DEF memory
  <1>4. Mod \in Tracked /\ Mod \in Modules /\ Mod' = Mod /\ is <= icount
    BY <1>1, ModIs DEF Mod, IInv, PlaceInv
  <1>5. handle' \in Bases \cup {0}
    BY <1>1, <1>4 DEF IInv, MemoryType
  <1>6. CheckType' /\ PlaceInv' /\ ExpectInv' /\ ViolationMeansChange'
    <2>1. CASE base[Mod] = 0 \/ ~ Visible(is)
      <3>1. Mod \notin moved => base[Mod] # 0
        BY <1>4, RecordsAre DEF IInv, OriginInv
      <3>2. Mod \notin moved => NotFound = StartSum(Mod, is)
        BY <2>1, <3>1 DEF StartSum
      <3>3. Compare(NotFound)
        BY <2>1 DEF LookUp
      <3>4. NotFound \in SumSet
        BY DEF SumSet
      <3> QED BY <1>1, <1>3, <1>5, <3>2, <3>3, <3>4, CompareKeeps
    <2>2. CASE ~ (base[Mod] = 0 \/ ~ Visible(is))
      <3>1. ipc' = "read" /\ UNCHANGED <<expect, violations, round>>
        BY <2>2 DEF LookUp
      <3>2. CheckType'
        BY <1>1, <1>5, <3>1 DEF IInv, CheckType
      <3>3. PlaceInv'
        BY <1>1, <1>4, <2>2, <3>1 DEF IInv, PlaceInv, Visible
      <3>4. ExpectInv'
        <4>1. Mod \notin moved => base[Mod] = Home[Mod]
          BY <1>4 DEF IInv, OriginInv
        <4> QED BY <1>1, <1>3, <1>4, <3>1, <4>1 DEF IInv, ExpectInv
      <3>5. ViolationMeansChange'
        BY <1>1, <1>3, <3>1 DEF IInv, ViolationMeansChange
      <3> QED BY <3>2, <3>3, <3>4, <3>5
    <2> QED BY <2>1, <2>2
  <1> QED BY <1>1, <1>2, <1>6, OnlyChecks DEF IInv

(* A disc read that fails leaves what it makes of the section on record.      *)
LEMMA DiscKeeps ==
  ASSUME IInv, DiscReadFails
  PROVE  IInv'
  <1>1. /\ UNCHANGED <<memory, watch, im, is, icount, handle, barrier, loading, world, crashed>>
        /\ ipc = "lookup" /\ round = 3 /\ Compare(NotFound)
        /\ misread' = misread \cup {<<Mod, is>>}
    BY DEF DiscReadFails, env
  <1>2. crashed' \in BOOLEAN
    BY <1>1 DEF IInv, MemoryType
  <1>3. touched' = touched /\ moved' = moved
    BY <1>1 DEF memory
  <1>4. handle' \in Bases \cup {0} /\ NotFound \in SumSet
    BY <1>1 DEF IInv, CheckType, SumSet
  <1>5. <<Mod, is>> \in misread'
    BY <1>1
  <1>6. CheckType' /\ PlaceInv' /\ ExpectInv' /\ ViolationMeansChange'
    BY <1>1, <1>3, <1>4, <1>5, CompareKeeps
  <1> QED BY <1>1, <1>2, <1>6, OnlyChecks DEF IInv

LEMMA ReadKeeps ==
  ASSUME IInv, ReadSection
  PROVE  IInv'
  <1>1. /\ UNCHANGED <<memory, watch, im, is, icount, handle, misread, barrier, loading, world>>
        /\ ipc = "read"
    BY DEF ReadSection
  <1>2. crashed' \in BOOLEAN
    BY DEF ReadSection, IInv, MemoryType
  <1>3. touched' = touched /\ moved' = moved
    BY <1>1 DEF memory
  <1>4. Mod \in Modules /\ Mod \in Tracked /\ is \in Sections(Mod) /\ Visible(is)
    BY <1>1, ModIs DEF IInv, PlaceInv
  <1>5. handle' \in Bases \cup {0}
    BY <1>1 DEF IInv, CheckType
  <1>6. CASE base[Mod] = handle
    <2> DEFINE sum == SumOf(Mod, content[Mod][is])
    <2>1. content[Mod][is] \in Contents
      BY <1>4 DEF IInv, MemoryType
    <2>2. sum \in SumSet
      BY <1>4, <2>1, SumType
    <2>3. <<Mod, is>> \notin touched => content[Mod][is] = Original
      BY <1>4 DEF IInv, OriginInv
    <2>4. <<Mod, is>> \notin touched => sum = StartSum(Mod, is)
      BY <1>4, <2>3 DEF StartSum
    <2>5. Compare(sum)
      BY <1>6 DEF ReadSection
    <2> HIDE DEF sum
    <2>6. CheckType' /\ PlaceInv' /\ ExpectInv' /\ ViolationMeansChange'
      BY <1>1, <1>3, <1>5, <2>2, <2>4, <2>5, CompareKeeps
    <2> QED BY <1>1, <1>2, <2>6, OnlyChecks DEF IInv
  (* A module that is not where it was looked up has been away. *)
  <1>7. CASE base[Mod] # handle
    <2>1. Mod \in moved
      BY <1>1, <1>4, <1>7 DEF IInv, OriginInv, ExpectInv
    <2>2. ASSUME NEW sum \in SumSet, Compare(sum)
          PROVE  CheckType' /\ PlaceInv' /\ ExpectInv' /\ ViolationMeansChange'
      BY <1>1, <1>3, <1>5, <2>1, <2>2, CompareKeeps
    <2>3. NotFound \in SumSet
      BY DEF SumSet
    <2>4. ASSUME NEW m \in Modules, NEW s \in Sections(m) PROVE SumOf(m, content[m][s]) \in SumSet
      <3>1. content[m][s] \in Contents
        BY DEF IInv, MemoryType
      <3> QED BY <3>1, SumType
    <2>5. ASSUME UNCHANGED <<ipc, expect, violations, round>>
          PROVE  CheckType' /\ PlaceInv' /\ ExpectInv' /\ ViolationMeansChange'
      <3>1. UNCHANGED check
        BY <1>1, <2>5 DEF check
      <3> QED BY <1>3, <3>1, CheckKept DEF IInv
    <2>6. \/ Compare(NotFound)
          \/ \E m \in Modules : \E s \in Sections(m) : Compare(SumOf(m, content[m][s]))
          \/ UNCHANGED <<ipc, expect, violations, round>>
      BY <1>7 DEF ReadSection
    <2>7. CheckType' /\ PlaceInv' /\ ExpectInv' /\ ViolationMeansChange'
      <3>1. CASE Compare(NotFound)
        BY <2>2, <2>3, <3>1
      <3>2. ASSUME NEW m \in Modules, NEW s \in Sections(m), Compare(SumOf(m, content[m][s]))
            PROVE  CheckType' /\ PlaceInv' /\ ExpectInv' /\ ViolationMeansChange'
        BY <2>2, <2>4, <3>2
      <3> QED BY <2>5, <2>6, <3>1, <3>2
    <2> QED BY <1>1, <1>2, <2>7, OnlyChecks DEF IInv
  <1> QED BY <1>6, <1>7

LEMMA PagesKeep ==
  ASSUME IInv, FindWritableAddress
  PROVE  IInv'
  <1>1. /\ UNCHANGED <<memory, watch, im, icount, misread, barrier, loading, world, crashed>>
        /\ ipc = "pages" /\ is' = is + 1
        /\ ipc' = "section" /\ round' = 1 /\ expect' = NotFound /\ handle' = 0
        /\ violations' = IF base[Mod] # 0 /\ is \in PageChecked /\ writable[Mod][is]
                         THEN violations \cup {<<Mod, is>>} ELSE violations
    BY DEF FindWritableAddress, env
  <1>2. crashed' \in BOOLEAN
    BY <1>1 DEF IInv, MemoryType
  <1>3. touched' = touched /\ moved' = moved
    BY <1>1 DEF memory
  <1>4. Mod \in Modules /\ is \in Sections(Mod) /\ <<Mod, is>> \in AllSections /\ is \in Nat
    BY <1>1, ModIs DEF IInv, PlaceInv
  <1>5. CheckType'
    BY <1>1, <1>4 DEF IInv, CheckType, SumSet
  <1>6. PlaceInv' /\ ExpectInv'
    BY <1>1, <1>4 DEF IInv, PlaceInv, ExpectInv, Mod
  <1>7. ViolationMeansChange'
    <2>1. writable[Mod][is] => <<Mod, is>> \in touched
      BY <1>4 DEF IInv, OriginInv
    <2> QED BY <1>1, <1>3, <2>1 DEF IInv, ViolationMeansChange
  <1> QED BY <1>1, <1>2, <1>5, <1>6, <1>7, OnlyChecks DEF IInv

-----------------------------------------------------------------------------
LEMMA StepKeeps == IInv /\ [Next]_vars => IInv'
  <1> SUFFICES ASSUME IInv, [Next]_vars PROVE IInv'
    OBVIOUS
  <1>1. CASE Loader
    <2>1. CASE \E v \in Changing : Reprotect(v[1], v[2]) \/ \E c \in Contents : Patch(v[1], v[2], c)
      <3>1. PICK v \in Changing :
              Reprotect(v[1], v[2]) \/ \E c \in Contents : Patch(v[1], v[2], c)
        BY <2>1
      <3>2. v[1] \in Modules /\ v[2] \in Sections(v[1])
        BY ModulesAssumption, RecordsAre DEF AllSections
      <3> QED BY <3>1, <3>2, TouchKeeps
    <2>2. CASE \E m \in Modules, t \in {Game, Monitor} : \E b \in Places[m] : BeginLoad(t, m, b)
      BY <2>2, BeginLoadKeeps
    <2>3. CASE \E m \in Modules : Unload(m)
      BY <2>3, UnloadKeeps
    <2> QED BY <1>1, <2>1, <2>2, <2>3, NotifyKeeps DEF Loader
  <1>2. CASE IntegrityStep
    BY <1>2, PassKeeps, RetrieveKeeps, LookUpKeeps, DiscKeeps, ReadKeeps, PagesKeep
    DEF IntegrityStep
  <1>3. CASE UNCHANGED vars
    <2>1. /\ UNCHANGED <<memory, watch, check, barrier, loading, world, crashed>>
          /\ touched' = touched /\ moved' = moved
      BY <1>3 DEF vars, memory
    <2>2. crashed' \in BOOLEAN
      BY <2>1 DEF IInv, MemoryType
    <2>3. CheckType' /\ PlaceInv' /\ ExpectInv' /\ ViolationMeansChange'
      BY <2>1, CheckKept DEF IInv
    <2> QED BY <2>1, <2>2, <2>3, OnlyChecks DEF IInv
  <1> QED BY <1>1, <1>2, <1>3, MonitorKeeps, BarrierKeeps DEF Next

LEMMA Always == Spec => []IInv
  <1>1. Init => IInv
    BY InvInit
  <1>2. IInv /\ [Next]_vars => IInv'
    BY StepKeeps
  <1> QED BY <1>1, <1>2, PTL DEF Spec

(* Every reachable state has its types: whatever is loaded, unloaded or       *)
(* changed at any moment, the integrity thread stands at a section its module *)
(* has, and what the monitor has put on its list is unsigned.                 *)
THEOREM TypeCorrect == Spec => []TypeOK
  <1>1. IInv => TypeOK
    BY DEF IInv, MemoryType, WatchType, CheckType, BarrierType, TypeOK
  <1> QED BY <1>1, Always, PTL

(* What the integrity thread records as a violation, in its comparison with   *)
(* the start, with the disc or of the pages, was changed from outside, was    *)
(* unloaded before, or belongs to a module whose file could not be opened,    *)
(* mapped or parsed; never a section the client itself has hidden, remapped   *)
(* or not summed up, nor one that another module's record was taken for.      *)
THEOREM ViolationsHaveCause == Spec => []ViolationMeansChange
  <1>1. IInv => ViolationMeansChange
    BY DEF IInv
  <1> QED BY <1>1, Always, PTL

-----------------------------------------------------------------------------
(* How many of the first n are unsigned. *)

LEMMA RefusedIs ==
  ASSUME NEW s, NEW n \in Nat
  PROVE  /\ Refused(s, n) \in Nat
         /\ \A m \in 0..n : Refused(s, m) <= Refused(s, n)
         /\ Refused(s, n + 1) = Refused(s, n) + (IF s[n + 1] \in Signed THEN 0 ELSE 1)
         /\ \A i \in 1..n : s[i] \notin Signed => Refused(s, i) >= 1
  <1> DEFINE R(m) == {i \in 1..m : s[i] \notin Signed}
  <1>1. \A m \in Nat : IsFiniteSet(R(m)) /\ Cardinality(R(m)) \in Nat
    <2> TAKE m \in Nat
    <2>1. IsFiniteSet(1..m) /\ R(m) \in SUBSET (1..m)
      BY FS_Interval
    <2>2. IsFiniteSet(R(m))
      BY <2>1, FS_Subset
    <2> QED BY <2>2, FS_CardinalityType
  <1>2. ASSUME NEW m \in 0..n PROVE Refused(s, m) <= Refused(s, n)
    <2>1. R(m) \in SUBSET R(n) /\ IsFiniteSet(R(n))
      BY <1>1, <1>2
    <2> HIDE DEF R
    <2>2. Cardinality(R(m)) <= Cardinality(R(n))
      BY <2>1, FS_Subset
    <2> QED BY <2>2 DEF Refused, R
  <1>3. Refused(s, n + 1) = Refused(s, n) + (IF s[n + 1] \in Signed THEN 0 ELSE 1)
    <2>1. CASE s[n + 1] \in Signed
      <3>1. R(n + 1) = R(n)
        BY <2>1
      <3>2. Cardinality(R(n)) \in Nat
        BY <1>1
      <3> QED BY <2>1, <3>1, <3>2 DEF Refused
    <2>2. CASE s[n + 1] \notin Signed
      <3>1. R(n + 1) = R(n) \cup {n + 1} /\ n + 1 \notin R(n) /\ IsFiniteSet(R(n))
        BY <1>1, <2>2
      <3> HIDE DEF R
      <3>2. Cardinality(R(n + 1)) = Cardinality(R(n)) + 1
        BY <3>1, FS_AddElement
      <3> QED BY <2>2, <3>2 DEF Refused, R
    <2> QED BY <2>1, <2>2
  <1>4. ASSUME NEW i \in 1..n, s[i] \notin Signed PROVE Refused(s, i) >= 1
    <2>1. i \in R(i) /\ IsFiniteSet(R(i)) /\ Cardinality(R(i)) \in Nat
      BY <1>1, <1>4
    <2> HIDE DEF R
    <2>2. Cardinality(R(i)) # 0
      BY <2>1, FS_EmptySet
    <2>3. Cardinality(R(i)) >= 1
      BY <2>1, <2>2
    <2> QED BY <2>3 DEF Refused, R
  <1>5. Refused(s, n) \in Nat
    BY <1>1 DEF Refused
  <1> QED BY <1>2, <1>3, <1>4, <1>5

(* A list of the first n is one of every sequence that begins with them. *)
LEMMA ListsLonger ==
  ASSUME NEW u, NEW s, NEW t, NEW n \in Nat, \A i \in 1..n : t[i] = s[i], Lists(u, s, n)
  PROVE  Lists(u, t, n)
  <1>1. \A m \in 0..n : {i \in 1..m : t[i] \notin Signed} = {i \in 1..m : s[i] \notin Signed}
    OBVIOUS
  <1>2. \A m \in 0..n : Refused(t, m) = Refused(s, m)
    BY <1>1 DEF Refused
  <1> QED BY <1>2 DEF Lists

(* One more is judged, and listed if it is unsigned. *)
LEMMA ListsNext ==
  ASSUME NEW S, NEW u \in Seq(S), NEW s, NEW n \in Nat, s[n + 1] \in S, Lists(u, s, n)
  PROVE  Lists(IF s[n + 1] \in Signed THEN u ELSE Append(u, s[n + 1]), s, n + 1)
  <1> DEFINE v == IF s[n + 1] \in Signed THEN u ELSE Append(u, s[n + 1])
             r == Refused(s, n)
  <1>1. /\ r \in Nat /\ Len(u) = r
        /\ Refused(s, n + 1) = r + (IF s[n + 1] \in Signed THEN 0 ELSE 1)
    BY RefusedIs DEF Lists
  <1>2. \A i \in 1..n : s[i] \notin Signed => Refused(s, i) \in 1..r
    <2> SUFFICES ASSUME NEW i \in 1..n, s[i] \notin Signed PROVE Refused(s, i) \in 1..r
      OBVIOUS
    <2>1. i \in 0..n /\ i \in Nat
      OBVIOUS
    <2>2. Refused(s, i) <= r
      BY <2>1, RefusedIs
    <2>3. Refused(s, i) >= 1
      BY RefusedIs
    <2>4. Refused(s, i) \in Nat
      BY <2>1, RefusedIs
    <2> QED BY <1>1, <2>2, <2>3, <2>4
  <1> HIDE DEF r
  <1>3. CASE s[n + 1] \in Signed
    <2>1. \A i \in 1..(n + 1) : s[i] \notin Signed => i \in 1..n
      BY <1>3
    <2>2. v = u
      BY <1>3
    <2> QED BY <1>1, <1>3, <2>1, <2>2 DEF Lists
  <1>4. CASE s[n + 1] \notin Signed
    <2>1. v = Append(u, s[n + 1])
      BY <1>4
    <2>2. Len(v) = r + 1 /\ v[r + 1] = s[n + 1] /\ \A k \in 1..r : v[k] = u[k]
      BY <1>1, <2>1
    <2>3. \A i \in 1..n : s[i] \notin Signed => v[Refused(s, i)] = s[i]
      BY <1>2, <2>2 DEF Lists
    <2>4. \A i \in 1..(n + 1) : s[i] \notin Signed => v[Refused(s, i)] = s[i]
      <3> SUFFICES ASSUME NEW i \in 1..(n + 1), s[i] \notin Signed PROVE v[Refused(s, i)] = s[i]
        OBVIOUS
      <3>1. i \in 1..n \/ i = n + 1
        OBVIOUS
      <3>2. Refused(s, n + 1) = r + 1
        BY <1>1, <1>4
      <3> QED BY <2>2, <2>3, <3>1, <3>2
    <2> QED BY <1>1, <1>4, <2>2, <2>4 DEF Lists
  <1> QED BY <1>3, <1>4

(* What waits is behind what is in hand. *)
LEMMA WaitIs ==
  ASSUME NEW q \in Seq(Modules), NEW d \in Modules
  PROVE  /\ Len(<<>> \o q) = Len(q) /\ DOMAIN (<<>> \o q) = 1..Len(q)
         /\ \A i \in 1..Len(q) : (<<>> \o q)[i] = q[i]
         /\ Len(<<d>> \o q) = Len(q) + 1 /\ DOMAIN (<<d>> \o q) = 1..(Len(q) + 1)
         /\ (<<d>> \o q)[1] = d
         /\ \A i \in 1..Len(q) : (<<d>> \o q)[i + 1] = q[i]
  <1>1. <<d>> \in Seq(Modules) /\ <<>> \in Seq(Modules) /\ Len(<<d>>) = 1 /\ Len(<<>>) = 0
    OBVIOUS
  <1>2. Len(q) \in Nat
    OBVIOUS
  <1>3. <<>> \o q = q
    OBVIOUS
  <1>4. /\ <<d>> \o q \in Seq(Modules) /\ Len(<<d>> \o q) = 1 + Len(q)
        /\ \A i \in 1..(1 + Len(q)) :
             (<<d>> \o q)[i] = IF i <= 1 THEN <<d>>[i] ELSE q[i - 1]
    BY <1>1
  <1>5. \A i \in 1..Len(q) : i + 1 \in 1..(1 + Len(q)) /\ ~ (i + 1 <= 1) /\ (i + 1) - 1 = i
    BY <1>2
  <1>6. \A i \in 1..Len(q) : (<<d>> \o q)[i + 1] = q[i]
    BY <1>4, <1>5
  <1>7. (<<d>> \o q)[1] = d
    BY <1>2, <1>4
  <1>8. DOMAIN q = 1..Len(q) /\ DOMAIN (<<d>> \o q) = 1..(Len(q) + 1)
    BY <1>2, <1>4
  <1>9. Len(<<d>> \o q) = Len(q) + 1
    BY <1>2, <1>4
  <1> QED BY <1>3, <1>6, <1>7, <1>8, <1>9

-----------------------------------------------------------------------------
(* Only what the monitor verifies is in its hand, and it starts after the     *)
(* barrier.                                                                   *)
TurnInv == (mpc # "verify" => dll = None) /\ (bpc # "done" => mpc = "off")

(* The first `judged` of the notified modules have their verdict; then comes  *)
(* the one in hand, then the queue.                                           *)
Waiting(judged) ==
  IF dll = None
  THEN /\ Len(notified) = judged + Len(queue)
       /\ \A i \in 1..Len(queue) : queue[i] = notified[judged + i]
  ELSE /\ Len(notified) = judged + 1 + Len(queue)
       /\ dll = notified[judged + 1]
       /\ \A i \in 1..Len(queue) : queue[i] = notified[judged + 1 + i]

VerdictInv ==
  \E judged \in Nat :
    /\ Waiting(judged)
    /\ Lists(unsigned, notified, judged)
    /\ passed = {notified[i] : i \in 1..judged} \cap Signed

LEMMA VerdictInit == Init => TurnInv /\ VerdictInv
  <1> SUFFICES ASSUME Init PROVE TurnInv /\ VerdictInv
    OBVIOUS
  <1>1. TurnInv
    BY DEF Init, TurnInv
  <1>2. /\ dll = None /\ queue = <<>> /\ notified = <<>> /\ unsigned = <<>> /\ passed = {}
    BY DEF Init
  <1>3. Waiting(0)
    BY <1>2 DEF Waiting
  <1>4. Lists(unsigned, notified, 0)
    <2>1. Refused(notified, 0) = 0
      <3>1. {i \in 1..0 : notified[i] \notin Signed} = {}
        OBVIOUS
      <3> QED BY <3>1, FS_EmptySet DEF Refused
    <2> QED BY <1>2, <2>1 DEF Lists
  <1>5. passed = {notified[i] : i \in 1..0} \cap Signed
    BY <1>2
  <1>6. VerdictInv
    BY <1>3, <1>4, <1>5 DEF VerdictInv
  <1> QED BY <1>1, <1>6

LEMMA TurnStep ==
  ASSUME IInv, TurnInv, [Next]_vars
  PROVE  TurnInv'
  <1>1. CASE MonitorStep
    BY <1>1 DEF MonitorStep, LockQueue, PopOrLeave, Judge, barrier, TurnInv
  <1>2. CASE BarrierStep
    BY <1>2 DEF BarrierStep, ChangeNumberOfSections, RemapRefused, CopyImage, UnmapImage, MapViews,
       FaultUnmapped, watch, barrier, TurnInv
  <1>3. CASE Loader \/ IntegrityStep \/ UNCHANGED vars
    <2>1. UNCHANGED <<mpc, dll, barrier>>
      BY <1>3 DEF Loader, BeginLoad, NotifyLock, NotifyPush, Unload, Reprotect, Patch,
         IntegrityStep, StartPass, LeaveModule, SkipSection, RetrieveModuleChecksum, LookUp,
         DiscReadFails, ReadSection, FindWritableAddress, vars, watch
    <2> QED BY <2>1 DEF TurnInv, barrier
  <1> QED BY <1>1, <1>2, <1>3 DEF Next

LEMMA VerdictStep ==
  ASSUME IInv, TurnInv, VerdictInv, [Next]_vars
  PROVE  VerdictInv'
  <1> USE DEF WatchType
  <1>0. /\ queue \in Seq(Modules) /\ notified \in Seq(Modules) /\ unsigned \in Seq(Modules \ Signed)
        /\ None \notin Modules /\ (mpc = "verify" => dll \in Modules)
    BY ModulesAssumption DEF IInv, HandInv
  <1>1. PICK judged \in Nat :
          /\ Waiting(judged)
          /\ Lists(unsigned, notified, judged)
          /\ passed = {notified[i] : i \in 1..judged} \cap Signed
    BY DEF VerdictInv
  <1>2. CASE NotifyPush
    <2>1. /\ queue' = Append(queue, loading.name) /\ notified' = Append(notified, loading.name)
          /\ UNCHANGED <<dll, unsigned, passed>> /\ loading.name \in Modules
      BY <1>2 DEF NotifyPush, IInv, HandInv
    <2>2. /\ Len(queue) \in Nat /\ Len(notified) \in Nat
          /\ Len(queue') = Len(queue) + 1 /\ Len(notified') = Len(notified) + 1
          /\ \A i \in 1..Len(queue) : queue'[i] = queue[i]
          /\ \A i \in 1..Len(notified) : notified'[i] = notified[i]
          /\ queue'[Len(queue) + 1] = loading.name
          /\ notified'[Len(notified) + 1] = loading.name
      BY <1>0, <2>1
    <2>3. Waiting(judged)' /\ judged <= Len(notified)
      <3>1. CASE dll = None
        <4>1. /\ Len(notified) = judged + Len(queue)
              /\ \A i \in 1..Len(queue) : queue[i] = notified[judged + i]
          BY <1>1, <3>1 DEF Waiting
        <4>2. \A i \in 1..Len(queue) : judged + i \in 1..Len(notified)
          BY <2>2, <4>1
        <4>3. \A i \in 1..(Len(queue) + 1) : queue'[i] = notified'[judged + i]
          <5> SUFFICES ASSUME NEW i \in 1..(Len(queue) + 1)
                       PROVE  queue'[i] = notified'[judged + i]
            OBVIOUS
          <5>1. CASE i \in 1..Len(queue)
            BY <2>2, <4>1, <4>2, <5>1
          <5>2. CASE i = Len(queue) + 1
            <6>1. judged + i = Len(notified) + 1
              BY <2>2, <4>1, <5>2
            <6> QED BY <2>2, <5>2, <6>1
          <5> QED BY <2>2, <5>1, <5>2
        <4>4. Len(notified') = judged + Len(queue')
          BY <2>2, <4>1
        <4>5. judged <= Len(notified)
          BY <2>2, <4>1
        <4> QED BY <2>1, <2>2, <3>1, <4>3, <4>4, <4>5 DEF Waiting
      <3>2. CASE dll # None
        <4>1. /\ Len(notified) = judged + 1 + Len(queue)
              /\ dll = notified[judged + 1]
              /\ \A i \in 1..Len(queue) : queue[i] = notified[judged + 1 + i]
          BY <1>1, <3>2 DEF Waiting
        <4>2. \A i \in 1..Len(queue) : judged + 1 + i \in 1..Len(notified)
          BY <2>2, <4>1
        <4>3. \A i \in 1..(Len(queue) + 1) : queue'[i] = notified'[judged + 1 + i]
          <5> SUFFICES ASSUME NEW i \in 1..(Len(queue) + 1)
                       PROVE  queue'[i] = notified'[judged + 1 + i]
            OBVIOUS
          <5>1. CASE i \in 1..Len(queue)
            BY <2>2, <4>1, <4>2, <5>1
          <5>2. CASE i = Len(queue) + 1
            <6>1. judged + 1 + i = Len(notified) + 1
              BY <2>2, <4>1, <5>2
            <6> QED BY <2>2, <5>2, <6>1
          <5> QED BY <2>2, <5>1, <5>2
        <4>4. Len(notified') = judged + 1 + Len(queue')
          BY <2>2, <4>1
        <4>5. judged + 1 \in 1..Len(notified)
          BY <2>2, <4>1
        <4>6. dll' = notified'[judged + 1] /\ judged <= Len(notified)
          BY <2>1, <2>2, <4>1, <4>5
        <4> QED BY <2>1, <2>2, <3>2, <4>3, <4>4, <4>6 DEF Waiting
      <3> QED BY <3>1, <3>2
    <2>4. \A i \in 1..judged : notified'[i] = notified[i]
      BY <2>2, <2>3
    <2>5. Lists(unsigned', notified', judged)
      BY <1>1, <2>1, <2>4, ListsLonger
    <2>6. passed' = {notified'[i] : i \in 1..judged} \cap Signed
      BY <1>1, <2>1, <2>4
    <2> QED BY <2>3, <2>5, <2>6 DEF VerdictInv
  <1>3. CASE PopOrLeave /\ queue # <<>>
    <2>1. /\ dll = None /\ dll' = Head(queue) /\ queue' = Tail(queue)
          /\ UNCHANGED <<notified, unsigned, passed>>
      BY <1>3 DEF PopOrLeave, TurnInv
    <2>2. /\ Len(queue) \in Nat \ {0} /\ Head(queue) = queue[1] /\ Head(queue) \in Modules
          /\ Len(queue') = Len(queue) - 1
          /\ \A i \in 1..(Len(queue) - 1) : queue'[i] = queue[i + 1]
      BY <1>0, <1>3, <2>1
    <2>3. /\ Len(notified) = judged + Len(queue)
          /\ \A i \in 1..Len(queue) : queue[i] = notified[judged + i]
      BY <1>1, <2>1 DEF Waiting
    <2>4. dll' = notified[judged + 1]
      BY <2>1, <2>2, <2>3
    <2>5. Len(notified) = judged + 1 + Len(queue')
      BY <2>2, <2>3
    <2>6. \A i \in 1..Len(queue') : queue'[i] = notified[judged + 1 + i]
      <3> SUFFICES ASSUME NEW i \in 1..Len(queue') PROVE queue'[i] = notified[judged + 1 + i]
        OBVIOUS
      <3>1. i + 1 \in 1..Len(queue) /\ judged + (i + 1) = judged + 1 + i
        BY <2>2
      <3>2. queue[i + 1] = notified[judged + (i + 1)]
        BY <2>3, <3>1
      <3> QED BY <2>2, <3>1, <3>2
    <2>7. Waiting(judged)'
      BY <1>0, <2>1, <2>2, <2>4, <2>5, <2>6 DEF Waiting
    <2> QED BY <1>1, <2>1, <2>7 DEF VerdictInv
  <1>4. CASE Judge
    <2>1. /\ dll \in Modules /\ dll # None /\ dll' = None
          /\ UNCHANGED <<queue, notified>>
          /\ unsigned' = (IF dll \in Signed THEN unsigned ELSE Append(unsigned, dll))
          /\ passed' = (IF dll \in Signed THEN passed \cup {dll} ELSE passed)
      BY <1>0, <1>4 DEF Judge, WellSigned, Listed
    <2>2. /\ Len(notified) = judged + 1 + Len(queue)
          /\ dll = notified[judged + 1]
          /\ \A i \in 1..Len(queue) : queue[i] = notified[judged + 1 + i]
      BY <1>1, <2>1 DEF Waiting
    <2>3. Waiting(judged + 1)'
      BY <2>1, <2>2 DEF Waiting
    <2>4. Lists(unsigned', notified', judged + 1)
      <3>1. unsigned \in Seq(Modules)
        BY <1>0
      <3>2. Lists(IF notified[judged + 1] \in Signed THEN unsigned
                  ELSE Append(unsigned, notified[judged + 1]), notified, judged + 1)
        BY <1>1, <2>1, <2>2, <3>1, ListsNext
      <3> QED BY <2>1, <2>2, <3>2
    <2>5. passed' = {notified'[i] : i \in 1..(judged + 1)} \cap Signed
      <3>1. {notified[i] : i \in 1..(judged + 1)} = {notified[i] : i \in 1..judged} \cup {dll}
        BY <2>2
      <3> QED BY <1>1, <2>1, <3>1
    <2>6. judged + 1 \in Nat
      OBVIOUS
    <2> QED BY <2>3, <2>4, <2>5, <2>6 DEF VerdictInv
  <1>5. ASSUME UNCHANGED <<dll, queue, notified, unsigned, passed>> PROVE VerdictInv'
    <2>1. Waiting(judged)'
      BY <1>1, <1>5 DEF Waiting
    <2>2. Lists(unsigned', notified', judged)
      BY <1>1, <1>5
    <2>3. passed' = {notified'[i] : i \in 1..judged} \cap Signed
      BY <1>1, <1>5
    <2> QED BY <2>1, <2>2, <2>3 DEF VerdictInv
  <1>6. CASE MonitorStep
    <2>1. CASE LockQueue \/ (PopOrLeave /\ queue = <<>>)
      BY <1>5, <2>1 DEF LockQueue, PopOrLeave
    <2> QED BY <1>3, <1>4, <1>6, <2>1 DEF MonitorStep
  <1>7. CASE BarrierStep
    BY <1>5, <1>7 DEF BarrierStep, ChangeNumberOfSections, RemapRefused, CopyImage, UnmapImage,
       MapViews, FaultUnmapped, watch
  <1>8. CASE (Loader /\ ~ NotifyPush) \/ IntegrityStep \/ UNCHANGED vars
    <2>1. UNCHANGED <<dll, queue, notified, unsigned, passed>>
      BY <1>8 DEF Loader, BeginLoad, NotifyLock, Unload, Reprotect, Patch,
         IntegrityStep, StartPass, LeaveModule, SkipSection, RetrieveModuleChecksum, LookUp,
         DiscReadFails, ReadSection, FindWritableAddress, vars, watch
    <2> QED BY <1>5, <2>1
  <1> QED BY <1>2, <1>6, <1>7, <1>8 DEF Next

LEMMA VerdictAlways == Spec => [](IInv /\ TurnInv /\ VerdictInv)
  <1>1. Init => TurnInv /\ VerdictInv
    BY VerdictInit
  <1>2. IInv /\ TurnInv /\ VerdictInv /\ [Next]_vars => TurnInv' /\ VerdictInv'
    BY TurnStep, VerdictStep
  <1>3. Spec => []IInv
    BY Always
  <1> QED BY <1>1, <1>2, <1>3, PTL DEF Spec

(* Whoever loads, and however loads, notifications and checks interleave,     *)
(* modules get their verdicts in the order in which they were notified, every *)
(* load of an unsigned one is listed once and no module skips the check.      *)
THEOREM VerdictsFollowLoads == Spec => []VerdictsInOrder
  <1>1. IInv /\ TurnInv /\ VerdictInv => VerdictsInOrder
    <2> SUFFICES ASSUME IInv, TurnInv, VerdictInv PROVE VerdictsInOrder
      OBVIOUS
    <2>1. queue \in Seq(Modules) /\ notified \in Seq(Modules) /\ dll \in Modules \cup {None}
      BY DEF IInv, WatchType
    <2>2. Len(queue) \in Nat /\ Len(notified) \in Nat
      BY <2>1
    <2>3. PICK judged \in Nat :
            /\ Waiting(judged)
            /\ Lists(unsigned, notified, judged)
            /\ passed = {notified[i] : i \in 1..judged} \cap Signed
      BY DEF VerdictInv
    <2>4. /\ Judged = judged
          /\ \A i \in DOMAIN (InHand \o queue) : (InHand \o queue)[i] = notified[judged + i]
      <3>1. CASE dll = None
        <4>1. /\ Len(notified) = judged + Len(queue)
              /\ \A i \in 1..Len(queue) : queue[i] = notified[judged + i]
          BY <2>3, <3>1 DEF Waiting
        <4>2. InHand \o queue = queue /\ DOMAIN queue = 1..Len(queue)
          BY <2>1, <3>1 DEF InHand
        <4>3. Judged = judged
          BY <2>2, <4>1, <4>2 DEF Judged
        <4> QED BY <4>1, <4>2, <4>3
      <3>2. CASE dll # None
        <4> DEFINE w == InHand \o queue
        <4>1. /\ Len(notified) = judged + 1 + Len(queue)
              /\ dll = notified[judged + 1]
              /\ \A i \in 1..Len(queue) : queue[i] = notified[judged + 1 + i]
          BY <2>3, <3>2 DEF Waiting
        <4>2. InHand = <<dll>> /\ dll \in Modules
          BY <2>1, <3>2 DEF InHand
        <4>3. /\ Len(w) = Len(queue) + 1 /\ DOMAIN w = 1..(Len(queue) + 1)
              /\ w[1] = dll /\ \A i \in 1..Len(queue) : w[i + 1] = queue[i]
          BY <2>1, <4>2, WaitIs
        <4>4. Judged = judged
          BY <2>2, <4>1, <4>3 DEF Judged
        <4> HIDE DEF w
        <4>5. ASSUME NEW i \in DOMAIN w PROVE w[i] = notified[judged + i]
          <5>1. CASE i = 1
            BY <4>1, <4>3, <5>1
          <5>2. CASE i # 1
            <6>1. i - 1 \in 1..Len(queue) /\ (i - 1) + 1 = i /\ judged + 1 + (i - 1) = judged + i
              BY <2>2, <4>3, <5>2
            <6>2. w[(i - 1) + 1] = notified[judged + 1 + (i - 1)]
              BY <4>1, <4>3, <6>1
            <6> QED BY <6>1, <6>2
          <5> QED BY <5>1, <5>2
        <4> QED BY <4>4, <4>5 DEF w
      <3> QED BY <3>1, <3>2
    <2> QED BY <2>3, <2>4 DEF VerdictsInOrder
  <1> QED BY <1>1, VerdictAlways, PTL
=============================================================================
