---------------------------- MODULE HwScanProofs -----------------------------
(***************************************************************************)
(* Proofs about HwScan for any detection threads, any order in which        *)
(* IsAnyThreadSuspended asks about them, and any finite number of scans     *)
(* that overlap as they like: the types, and that every suspension is taken *)
(* back.                                                                    *)
(***************************************************************************)
EXTENDS HwScan, FiniteSetTheorems, TLAPS

(* Where each kind of thread can stand; a scan that logs found something, or  *)
(* could not open the thread; and nobody's target is a scan still to begin.   *)
PlaceInv ==
  /\ \A t \in Loggers : pc[t] \in {"run", "lock", "log", "print", "inside"}
  /\ pc[Main] \in {"calling", "resume", "lock", "log", "print", "passed", "inside", "told",
                   "alarmed"}
  /\ \A s \in Scans : pc[s] \in {"none", "begin", "pick", "calling", "context", "resume",
                                 "lock", "log", "print", "found", "inside", "done"}
  /\ \A s \in Scans : pc[s] \in {"lock", "log", "print"} => found[s] \in {"set", "failed", "gone"}
  /\ target[Main] \in Loggers
  /\ \A s \in Scans : IF pc[s] = "none" THEN target[s] = s ELSE pc[target[s]] # "none"

(* The types, but for the bound of the counts. *)
TypeInv ==
  /\ pc \in [Threads -> {"none", "begin", "pick", "calling", "context", "resume",
                         "found", "done", "run", "lock", "log", "print", "inside",
                         "passed", "told", "alarmed"}]
  /\ suspends \in [Threads -> Nat]
  /\ consoleMutex \in Threads \cup {NoThread}
  /\ runtime \in Threads \cup {NoThread}
  /\ target \in [Examiners -> Threads]
  /\ found \in [Examiners -> Contexts \cup {"gone"}]
  /\ left \in [Scans -> SUBSET Threads]
  /\ checkIt \in DOMAIN Checked

(* The kinds of threads do not meet. *)
LEMMA Kinds ==
  /\ Main \in Examiners /\ Main \in Threads /\ Main \notin Scans /\ Main \notin Loggers
  /\ AntiDebug \in Loggers /\ Loggers \subseteq Threads /\ Scans \subseteq Examiners
  /\ Examiners \subseteq Threads
  /\ \A t \in Loggers : t \notin Examiners
  BY DistinctThreads DEF Loggers, Examiners, Threads

LEMMA CheckedIs ==
  /\ Len(Checked) \in Nat /\ 1 \in DOMAIN Checked /\ DOMAIN Checked = 1..Len(Checked)
  /\ \A i \in DOMAIN Checked : Checked[i] \in Loggers
  BY CheckedAssumption

LEMMA InvInit == Init => TypeInv /\ PlaceInv
  <1> SUFFICES ASSUME Init PROVE TypeInv /\ PlaceInv
    OBVIOUS
  <1>1. TypeInv
    BY Kinds, CheckedIs DEF Init, TypeInv, Contexts
  <1>2. PlaceInv
    BY Kinds, CheckedIs DEF Init, PlaceInv
  <1> QED BY <1>1, <1>2

LEMMA InvStep ==
  ASSUME TypeInv, PlaceInv, [Next]_vars,
         \A t \in Threads : suspends'[t] \in Nat
  PROVE  TypeInv' /\ PlaceInv'
  <1> USE Kinds
  <1>1. ASSUME NEW t \in Loggers, Log(t) PROVE TypeInv' /\ PlaceInv'
    BY <1>1 DEF Log, Goto, Runs, TypeInv, PlaceInv
  <1>2. ASSUME NEW t \in Threads, LockConsole(t) PROVE TypeInv' /\ PlaceInv'
    BY <1>2 DEF LockConsole, Goto, Runs, TypeInv, PlaceInv, Threads, Examiners
  <1>3. ASSUME NEW t \in Threads, UnlockConsole(t) PROVE TypeInv' /\ PlaceInv'
    BY <1>3 DEF UnlockConsole, AfterLog, Goto, Runs, TypeInv, PlaceInv, Threads, Examiners
  <1>4. ASSUME NEW s \in Scans, StartScan(s) PROVE TypeInv' /\ PlaceInv'
    BY <1>4 DEF StartScan, Goto, Runs, TypeInv, PlaceInv
  <1>5. ASSUME NEW s \in Scans, TakeSnapshot(s) PROVE TypeInv' /\ PlaceInv'
    BY <1>5 DEF TakeSnapshot, Goto, Runs, TypeInv, PlaceInv
  <1>6. ASSUME NEW s \in Scans, PickThread(s) PROVE TypeInv' /\ PlaceInv'
    <2>1. PICK t \in left[s] :
            /\ left' = [left EXCEPT ![s] = @ \ {t}]
            /\ \/ /\ Alive(t)
                  /\ target' = [target EXCEPT ![s] = t]
                  /\ found' = [found EXCEPT ![s] = "clear"]
                  /\ Goto(s, "calling")
               \/ /\ ~ Alive(t)
                  /\ found' = [found EXCEPT ![s] = "gone"]
                  /\ Goto(s, "lock")
                  /\ UNCHANGED target
      BY <1>6 DEF PickThread
    <2>2. t \in Threads /\ pc[s] = "pick" /\ UNCHANGED <<suspends, consoleMutex, runtime, checkIt>>
      BY <1>6 DEF PickThread, TypeInv
    <2>3. TypeInv'
      BY <2>1, <2>2 DEF Goto, Contexts, TypeInv
    <2>4. PlaceInv'
      BY <2>1, <2>2 DEF Goto, Alive, TypeInv, PlaceInv
    <2> QED BY <2>3, <2>4
  <1>7. ASSUME NEW s \in Scans, SuspendTarget(s) PROVE TypeInv' /\ PlaceInv'
    <2>1. suspends' \in [Threads -> Nat]
      BY <1>7 DEF SuspendTarget, TypeInv
    <2> QED BY <1>7, <2>1 DEF SuspendTarget, Goto, TypeInv, PlaceInv
  <1>8. ASSUME NEW s \in Scans, ReadContext(s) PROVE TypeInv' /\ PlaceInv'
    <2>1. target[s] \in Threads
      BY DEF TypeInv
    <2>2. PICK c \in IF Alive(target[s]) THEN ContextOf[target[s]] ELSE {"failed"} :
            /\ found' = [found EXCEPT ![s] = c]
            /\ Goto(s, IF c = "clear" THEN "resume" ELSE "lock")
      BY <1>8 DEF ReadContext
    <2>3. c \in Contexts
      BY <2>1, <2>2, ContextAssumption DEF Contexts
    <2>4. pc[s] = "context" /\ UNCHANGED <<suspends, consoleMutex, runtime, target, left, checkIt>>
      BY <1>8 DEF ReadContext
    <2>5. TypeInv'
      BY <2>2, <2>3, <2>4 DEF Goto, TypeInv
    <2>6. PlaceInv'
      BY <2>2, <2>3, <2>4 DEF Goto, Contexts, TypeInv, PlaceInv
    <2> QED BY <2>5, <2>6
  <1>9. ASSUME NEW s \in Scans, ResumeTarget(s) PROVE TypeInv' /\ PlaceInv'
    <2>1. suspends' \in [Threads -> Nat]
      BY <1>9 DEF ResumeTarget, TypeInv
    <2>2. TypeInv'
      BY <1>9, <2>1 DEF ResumeTarget, Goto, Contexts, TypeInv
    <2>3. PlaceInv'
      BY <1>9 DEF ResumeTarget, Goto, TypeInv, PlaceInv
    <2> QED BY <2>2, <2>3
  <1>10. ASSUME NEW s \in Scans, EndScan(s) PROVE TypeInv' /\ PlaceInv'
    BY <1>10 DEF EndScan, Goto, TypeInv, PlaceInv
  <1>11. CASE CheckSuspend
    <2>1. suspends' \in [Threads -> Nat]
      BY <1>11 DEF CheckSuspend, TypeInv
    <2> QED BY <1>11, <2>1 DEF CheckSuspend, Goto, Contexts, TypeInv, PlaceInv
  <1>12. CASE CheckResume
    <2>1. suspends' \in [Threads -> Nat] /\ pc[Main] = "resume"
          /\ UNCHANGED <<consoleMutex, runtime, found, left>>
      BY <1>12 DEF CheckResume, TypeInv
    <2>2. /\ checkIt' \in DOMAIN Checked
          /\ target' \in [Examiners -> Threads] /\ target'[Main] \in Loggers
          /\ \A s \in Scans : target'[s] = target[s]
      <3>1. CASE UNCHANGED <<target, checkIt>>
        BY <3>1 DEF TypeInv, PlaceInv
      <3>2. CASE /\ checkIt < Len(Checked) /\ checkIt' = checkIt + 1
                 /\ target' = [target EXCEPT ![Main] = Checked[checkIt + 1]]
        <4>1. checkIt \in 1..Len(Checked) /\ Len(Checked) \in Nat
          BY CheckedIs DEF TypeInv
        <4>2. checkIt + 1 \in 1..Len(Checked)
          BY <3>2, <4>1
        <4>3. Checked[checkIt + 1] \in Loggers /\ checkIt' \in DOMAIN Checked
          BY <3>2, <4>2, CheckedIs
        <4> QED BY <3>2, <4>3 DEF TypeInv
      <3> QED BY <1>12, <3>1, <3>2 DEF CheckResume
    <2>3. PICK place \in {"lock", "calling", "passed"} : Goto(Main, place)
      BY <1>12 DEF CheckResume
    <2> QED BY <2>1, <2>2, <2>3 DEF Goto, TypeInv, PlaceInv
  <1>13. CASE UNCHANGED vars
    BY <1>13 DEF vars, TypeInv, PlaceInv
  <1>14. ASSUME NEW t \in Threads, WriteLine(t) PROVE TypeInv' /\ PlaceInv'
    BY <1>14 DEF WriteLine, Goto, Runs, TypeInv, PlaceInv, Threads, Examiners
  <1>15. ASSUME NEW t \in Threads, EnterRuntime(t) PROVE TypeInv' /\ PlaceInv'
    BY <1>15 DEF EnterRuntime, Goto, Runs, TypeInv, PlaceInv, Threads, Examiners
  <1>16. ASSUME NEW t \in Threads, LeaveRuntime(t) PROVE TypeInv' /\ PlaceInv'
    BY <1>16 DEF LeaveRuntime, Goto, Runs, TypeInv, PlaceInv, Threads, Examiners
  <1> QED BY <1>1, <1>2, <1>3, <1>4, <1>5, <1>6, <1>7, <1>8, <1>9, <1>10, <1>11, <1>12, <1>13,
             <1>14, <1>15, <1>16
          DEF Next, Logging, InRuntime, Scanning

-----------------------------------------------------------------------------
(* Counting who keeps a thread suspended. *)

Holders(t) == {e \in Examiners : Holds(e, t)}

Balanced == \A t \in Threads : suspends[t] = Cardinality(Holders(t))

LEMMA HoldersFinite ==
  /\ IsFiniteSet(Examiners) /\ Cardinality(Examiners) \in Nat
  /\ \A H \in SUBSET Examiners : /\ IsFiniteSet(H) /\ Cardinality(H) \in Nat
                                 /\ Cardinality(H) <= Cardinality(Examiners)
  <1>1. IsFiniteSet(Examiners)
    BY FiniteScans, FS_AddElement DEF Examiners
  <1>2. \A H \in SUBSET Examiners : IsFiniteSet(H) /\ Cardinality(H) <= Cardinality(Examiners)
    BY <1>1, FS_Subset
  <1> QED BY <1>1, <1>2, FS_CardinalityType

(* A thread that runs is kept by nobody. *)
LEMMA RunsUnheld ==
  ASSUME Balanced, NEW t \in Threads, suspends[t] = 0
  PROVE  \A e \in Examiners : ~ Holds(e, t)
  <1>1. Holders(t) \in SUBSET Examiners /\ Cardinality(Holders(t)) = 0
    BY DEF Balanced, Holders
  <1>2. Holders(t) = {}
    BY <1>1, HoldersFinite, FS_EmptySet
  <1> QED BY <1>2 DEF Holders

(* Nobody suspends or resumes: the count stays right. *)
LEMMA CountKept ==
  ASSUME Balanced, NEW t \in Threads, suspends'[t] = suspends[t],
         \A e \in Examiners : Holds(e, t)' <=> Holds(e, t)
  PROVE  suspends'[t] = Cardinality(Holders(t)')
  <1>1. Holders(t)' = Holders(t)
    BY DEF Holders
  <1> QED BY <1>1 DEF Balanced

(* One more, and one fewer. *)
LEMMA CountUp ==
  ASSUME Balanced, NEW t \in Threads, NEW e \in Examiners, suspends'[t] = suspends[t] + 1,
         ~ Holds(e, t), Holds(e, t)', \A d \in Examiners \ {e} : Holds(d, t)' <=> Holds(d, t)
  PROVE  suspends'[t] = Cardinality(Holders(t)')
  <1>1. Holders(t)' = Holders(t) \cup {e} /\ e \notin Holders(t) /\ Holders(t) \in SUBSET Examiners
    BY DEF Holders
  <1>2. Cardinality(Holders(t)') = Cardinality(Holders(t)) + 1
    BY <1>1, HoldersFinite, FS_AddElement
  <1> QED BY <1>2 DEF Balanced

LEMMA CountDown ==
  ASSUME Balanced, NEW t \in Threads, NEW e \in Examiners, suspends'[t] = suspends[t] - 1,
         Holds(e, t), ~ Holds(e, t)', \A d \in Examiners \ {e} : Holds(d, t)' <=> Holds(d, t)
  PROVE  suspends'[t] = Cardinality(Holders(t)') /\ suspends'[t] \in Nat
  <1>1. /\ Holders(t)' = Holders(t) \ {e} /\ e \in Holders(t)
        /\ Holders(t) \in SUBSET Examiners /\ Holders(t)' \in SUBSET Examiners
    BY DEF Holders
  <1>2. Cardinality(Holders(t)') = Cardinality(Holders(t)) - 1
    BY <1>1, HoldersFinite, FS_RemoveElement
  <1>3. suspends'[t] = Cardinality(Holders(t)')
    BY <1>2 DEF Balanced
  <1> QED BY <1>1, <1>3, HoldersFinite

LEMMA BalancedInit == Init => Balanced
  <1> SUFFICES ASSUME Init, NEW t \in Threads PROVE suspends[t] = Cardinality(Holders(t))
    BY DEF Balanced
  <1>1. \A e \in Examiners : ~ InWindow(e)
    BY Kinds DEF Init, InWindow, Threads
  <1>2. Holders(t) = {}
    BY <1>1 DEF Holders, Holds
  <1> QED BY <1>2, FS_EmptySet DEF Init

(* Steps that leave the counts alone: nobody's window opens or closes, and no *)
(* thread appears or ends that somebody keeps.                                *)
LEMMA StepKeeps ==
  ASSUME TypeInv, PlaceInv, Balanced, UNCHANGED suspends, NEW t \in Threads,
         \A e \in Examiners : InWindow(e)' <=> InWindow(e),
         \A e \in Examiners : InWindow(e) => target'[e] = target[e],
         \A u \in Threads \ {t} : pc'[u] = pc[u],
         \/ Alive(t)' <=> Alive(t)
         \/ \A e \in Examiners : ~ Holds(e, t) /\ ~ Holds(e, t)'
  PROVE  Balanced'
  <1> SUFFICES ASSUME NEW u \in Threads PROVE suspends'[u] = Cardinality(Holders(u)')
    BY DEF Balanced
  <1>1. \A e \in Examiners : Holds(e, u)' <=> Holds(e, u)
    <2>1. CASE Alive(u)' <=> Alive(u)
      BY <2>1 DEF Holds
    <2>2. CASE u = t
      BY <2>1, <2>2
    <2>3. CASE u # t
      BY <2>1, <2>3 DEF Alive
    <2> QED BY <2>2, <2>3
  <1> QED BY <1>1, CountKept

LEMMA BalancedStep ==
  ASSUME TypeInv, PlaceInv, Balanced, [Next]_vars
  PROVE  Balanced' /\ \A t \in Threads : suspends'[t] \in Nat
  <1> USE Kinds
  <1>0. \A t \in Threads : suspends[t] \in Nat
    BY DEF TypeInv
  <1>1. ASSUME NEW t \in Loggers, Log(t) PROVE Balanced' /\ UNCHANGED suspends
    <2>1. /\ UNCHANGED <<suspends, target, found>> /\ \A u \in Threads \ {t} : pc'[u] = pc[u]
          /\ pc[t] = "run" /\ pc'[t] = "lock"
      BY <1>1 DEF Log, Goto, TypeInv
    <2>2. \A e \in Examiners : InWindow(e)' <=> InWindow(e)
      BY <2>1 DEF InWindow
    <2>3. Alive(t) /\ Alive(t)'
      BY <2>1 DEF Alive
    <2> QED BY <2>1, <2>2, <2>3, StepKeeps
  <1>2. ASSUME NEW t \in Threads, LockConsole(t) PROVE Balanced' /\ UNCHANGED suspends
    <2>1. /\ UNCHANGED <<suspends, target, found>> /\ \A u \in Threads \ {t} : pc'[u] = pc[u]
          /\ pc[t] = "lock" /\ pc'[t] = "log"
      BY <1>2 DEF LockConsole, Goto, TypeInv
    <2>2. \A e \in Examiners : InWindow(e)' <=> InWindow(e)
      BY <2>1 DEF InWindow
    <2>3. Alive(t) /\ Alive(t)'
      BY <2>1 DEF Alive
    <2> QED BY <2>1, <2>2, <2>3, StepKeeps
  <1>3. ASSUME NEW t \in Threads, UnlockConsole(t) PROVE Balanced' /\ UNCHANGED suspends
    <2>1. /\ UNCHANGED <<suspends, target, found>> /\ \A u \in Threads \ {t} : pc'[u] = pc[u]
          /\ pc[t] = "print" /\ pc'[t] = AfterLog(t)
      BY <1>3 DEF UnlockConsole, Goto, TypeInv
    <2>2. \A e \in Examiners : InWindow(e)' <=> InWindow(e)
      BY <2>1 DEF InWindow, AfterLog, PlaceInv, Examiners
    <2>3. Alive(t) /\ Alive(t)'
      BY <2>1 DEF Alive, AfterLog
    <2> QED BY <2>1, <2>2, <2>3, StepKeeps
  <1>4. ASSUME NEW s \in Scans, StartScan(s) PROVE Balanced' /\ UNCHANGED suspends
    <2>1. /\ UNCHANGED <<suspends, target, found>> /\ \A u \in Threads \ {s} : pc'[u] = pc[u]
          /\ pc[s] = "none" /\ pc'[s] = "begin"
      BY <1>4 DEF StartScan, Goto, TypeInv
    <2>2. \A e \in Examiners : InWindow(e)' <=> InWindow(e)
      BY <2>1 DEF InWindow
    <2>3. \A e \in Examiners : InWindow(e) => target[e] # s
      BY <2>1 DEF InWindow, PlaceInv, Examiners
    <2>4. \A e \in Examiners : ~ Holds(e, s) /\ ~ Holds(e, s)'
      BY <2>1, <2>2, <2>3 DEF Holds
    <2> QED BY <2>1, <2>2, <2>4, StepKeeps
  <1>5. ASSUME NEW s \in Scans, TakeSnapshot(s) PROVE Balanced' /\ UNCHANGED suspends
    <2>1. /\ UNCHANGED <<suspends, target, found>> /\ \A u \in Threads \ {s} : pc'[u] = pc[u]
          /\ pc[s] = "begin" /\ pc'[s] = "pick"
      BY <1>5 DEF TakeSnapshot, Goto, TypeInv
    <2>2. \A e \in Examiners : InWindow(e)' <=> InWindow(e)
      BY <2>1 DEF InWindow
    <2>3. Alive(s) /\ Alive(s)'
      BY <2>1 DEF Alive
    <2> QED BY <2>1, <2>2, <2>3, StepKeeps
  <1>6. ASSUME NEW s \in Scans, PickThread(s) PROVE Balanced' /\ UNCHANGED suspends
    <2>1. pc[s] = "pick" /\ UNCHANGED suspends
      BY <1>6 DEF PickThread
    <2>2. \A u \in Threads \ {s} : pc'[u] = pc[u]
      BY <1>6 DEF PickThread, Goto, TypeInv
    <2>3. \A e \in Examiners \ {s} : target'[e] = target[e]
      BY <1>6 DEF PickThread, TypeInv
    <2>4. \A e \in Examiners \ {s} : found'[e] = found[e]
      BY <1>6 DEF PickThread, TypeInv
    <2>5. pc'[s] = "calling" \/ (pc'[s] = "lock" /\ found'[s] = "gone")
      BY <1>6 DEF PickThread, Goto, TypeInv
    <2>6. \A e \in Examiners \ {s} : InWindow(e)' <=> InWindow(e)
      BY <2>2, <2>4 DEF InWindow
    <2>7. ~ InWindow(s) /\ ~ InWindow(s)'
      BY <2>1, <2>5 DEF InWindow
    <2>8. Alive(s) /\ Alive(s)'
      BY <2>1, <2>5 DEF Alive
    <2> QED BY <2>1, <2>2, <2>3, <2>6, <2>7, <2>8, StepKeeps
  <1>7. ASSUME NEW s \in Scans, ReadContext(s) PROVE Balanced' /\ UNCHANGED suspends
    <2>1. target[s] \in Threads
      BY DEF TypeInv
    <2>2. PICK c \in IF Alive(target[s]) THEN ContextOf[target[s]] ELSE {"failed"} :
            /\ found' = [found EXCEPT ![s] = c]
            /\ Goto(s, IF c = "clear" THEN "resume" ELSE "lock")
      BY <1>7 DEF ReadContext
    <2>3. c \in Contexts
      BY <2>1, <2>2, ContextAssumption DEF Contexts
    <2>4. UNCHANGED <<suspends, target>> /\ pc[s] = "context"
      BY <1>7 DEF ReadContext
    <2>5. \A u \in Threads \ {s} : pc'[u] = pc[u]
      BY <2>2 DEF Goto, TypeInv
    <2>6. found'[s] = c /\ \A e \in Examiners \ {s} : found'[e] = found[e]
      BY <2>2 DEF TypeInv
    <2>7. pc'[s] = IF c = "clear" THEN "resume" ELSE "lock"
      BY <2>2 DEF Goto, TypeInv
    <2>8. InWindow(s)' /\ InWindow(s)
      BY <2>3, <2>4, <2>6, <2>7 DEF InWindow, Contexts
    <2>9. \A e \in Examiners \ {s} : InWindow(e)' <=> InWindow(e)
      BY <2>5, <2>6 DEF InWindow
    <2>10. Alive(s) /\ Alive(s)'
      BY <2>4, <2>7 DEF Alive
    <2> QED BY <2>4, <2>5, <2>8, <2>9, <2>10, StepKeeps
  <1>8. ASSUME NEW s \in Scans, EndScan(s) PROVE Balanced' /\ UNCHANGED suspends
    <2>1. /\ UNCHANGED <<suspends, target, found>> /\ \A u \in Threads \ {s} : pc'[u] = pc[u]
          /\ pc[s] = "pick" /\ pc'[s] = "done" /\ suspends[s] = 0
      BY <1>8 DEF EndScan, Goto, Runs, TypeInv
    <2>2. \A e \in Examiners : InWindow(e)' <=> InWindow(e)
      BY <2>1 DEF InWindow
    <2>3. \A e \in Examiners : ~ Holds(e, s) /\ ~ Holds(e, s)'
      BY <2>1, RunsUnheld DEF Holds, Alive
    <2> QED BY <2>1, <2>2, <2>3, StepKeeps
  (* The caller's window opens. *)
  <1>9. ASSUME NEW e \in Examiners, NEW t \in Threads, t = target[e], pc[e] = "calling",
               UNCHANGED target, \A u \in Threads \ {e} : pc'[u] = pc[u],
               \A d \in Examiners \ {e} : found'[d] = found[d],
               pc'[e] \in {"context", "resume"},
               \A u \in Threads \ {t} : suspends'[u] = suspends[u],
               suspends'[t] = IF Alive(t) THEN suspends[t] + 1 ELSE suspends[t]
        PROVE  Balanced'
    <2>1. \A u \in Threads : Alive(u)' <=> Alive(u)
      BY <1>9 DEF Alive
    <2>2. ~ InWindow(e) /\ InWindow(e)' /\ \A d \in Examiners \ {e} : InWindow(d)' <=> InWindow(d)
      BY <1>9 DEF InWindow
    <2>3. ASSUME NEW u \in Threads PROVE suspends'[u] = Cardinality(Holders(u)')
      <3>1. \A d \in Examiners \ {e} : Holds(d, u)' <=> Holds(d, u)
        BY <1>9, <2>1, <2>2 DEF Holds
      <3>2. CASE u = t /\ Alive(t)
        <4>1. ~ Holds(e, u) /\ Holds(e, u)'
          BY <1>9, <2>1, <2>2, <3>2 DEF Holds
        <4> QED BY <1>9, <3>1, <3>2, <4>1, CountUp
      <3>3. CASE u # t \/ ~ Alive(t)
        <4>1. ~ Holds(e, u) /\ ~ Holds(e, u)'
          BY <1>9, <2>1, <2>2, <3>3 DEF Holds
        <4> QED BY <1>9, <3>1, <3>3, <4>1, CountKept
      <3> QED BY <3>2, <3>3
    <2> QED BY <2>3 DEF Balanced
  <1>10. ASSUME NEW s \in Scans, SuspendTarget(s)
         PROVE  Balanced' /\ \A t \in Threads : suspends'[t] \in Nat
    <2>1. /\ target[s] \in Threads /\ pc[s] = "calling" /\ UNCHANGED <<target, found>>
          /\ \A u \in Threads \ {s} : pc'[u] = pc[u]
          /\ pc'[s] = "context"
          /\ \A u \in Threads \ {target[s]} : suspends'[u] = suspends[u]
          /\ suspends'[target[s]] = IF Alive(target[s]) THEN suspends[target[s]] + 1
                                                       ELSE suspends[target[s]]
      BY <1>10 DEF SuspendTarget, Goto, TypeInv
    <2>2. Balanced'
      BY <1>9, <2>1
    <2> QED BY <1>0, <2>1, <2>2
  <1>11. CASE CheckSuspend
    <2>1. /\ target[Main] \in Loggers /\ Alive(target[Main])
      BY DEF PlaceInv, Alive
    <2>2. /\ pc[Main] = "calling" /\ UNCHANGED target
          /\ \A u \in Threads \ {Main} : pc'[u] = pc[u]
          /\ \A d \in Examiners \ {Main} : found'[d] = found[d]
          /\ pc'[Main] = "resume"
          /\ \A u \in Threads \ {target[Main]} : suspends'[u] = suspends[u]
          /\ suspends'[target[Main]] = suspends[target[Main]] + 1
      BY <1>11, <2>1 DEF CheckSuspend, Goto, TypeInv
    <2>3. Balanced'
      BY <1>9, <2>1, <2>2
    <2> QED BY <1>0, <2>1, <2>2, <2>3
  (* The caller's window closes; if it ends, nobody kept it. *)
  <1>12. ASSUME NEW e \in Examiners, NEW t \in Threads, t = target[e], pc[e] = "resume",
                suspends[e] = 0, \A u \in Threads \ {e} : pc'[u] = pc[u],
                \A d \in Examiners \ {e} : found'[d] = found[d] /\ target'[d] = target[d],
                ~ InWindow(e)',
                \A u \in Threads \ {t} : suspends'[u] = suspends[u],
                suspends'[t] = IF Alive(t) THEN suspends[t] - 1 ELSE suspends[t]
         PROVE  Balanced' /\ \A u \in Threads : suspends'[u] \in Nat
    <2>1. InWindow(e) /\ \A d \in Examiners \ {e} : InWindow(d)' <=> InWindow(d)
      BY <1>12 DEF InWindow
    <2>2. \A d \in Examiners : ~ Holds(d, e)
      BY <1>12, RunsUnheld
    <2>3. \A d \in Examiners : ~ (Holds(d, e)' /\ d # e)
      BY <1>12, <2>1, <2>2 DEF Holds, Alive
    <2>4. \A u \in Threads \ {e} : Alive(u)' <=> Alive(u)
      BY <1>12 DEF Alive
    <2>5. ASSUME NEW u \in Threads
          PROVE  suspends'[u] = Cardinality(Holders(u)') /\ suspends'[u] \in Nat
      <3>1. \A d \in Examiners \ {e} : Holds(d, u)' <=> Holds(d, u)
        BY <1>12, <2>1, <2>2, <2>3, <2>4 DEF Holds
      <3>2. ~ Holds(e, u)'
        BY <1>12 DEF Holds
      <3>3. CASE u = t /\ Alive(t)
        <4>1. Holds(e, u)
          BY <1>12, <2>1, <3>3 DEF Holds
        <4> QED BY <1>12, <3>1, <3>2, <3>3, <4>1, CountDown
      <3>4. CASE u # t \/ ~ Alive(t)
        <4>1. ~ Holds(e, u)
          BY <1>12, <3>4 DEF Holds
        <4> QED BY <1>0, <1>12, <3>1, <3>2, <3>4, <4>1, CountKept
      <3> QED BY <3>3, <3>4
    <2> QED BY <2>5 DEF Balanced
  <1>13. ASSUME NEW s \in Scans, ResumeTarget(s)
         PROVE  Balanced' /\ \A t \in Threads : suspends'[t] \in Nat
    <2>1. /\ target[s] \in Threads /\ pc[s] = "resume" /\ suspends[s] = 0
          /\ \A u \in Threads \ {s} : pc'[u] = pc[u]
          /\ \A d \in Examiners \ {s} : found'[d] = found[d] /\ target'[d] = target[d]
          /\ pc'[s] \in {"found", "pick"}
          /\ \A u \in Threads \ {target[s]} : suspends'[u] = suspends[u]
          /\ suspends'[target[s]] = IF Alive(target[s]) THEN suspends[target[s]] - 1
                                                       ELSE suspends[target[s]]
      BY <1>13 DEF ResumeTarget, Goto, Runs, TypeInv
    <2>2. ~ InWindow(s)'
      BY <2>1 DEF InWindow
    <2> QED BY <1>12, <2>1, <2>2
  <1>14. CASE CheckResume
    <2>1. /\ target[Main] \in Loggers /\ Alive(target[Main])
      BY DEF PlaceInv, Alive
    <2>2. /\ pc[Main] = "resume" /\ suspends[Main] = 0
          /\ \A u \in Threads \ {Main} : pc'[u] = pc[u]
          /\ \A d \in Examiners \ {Main} : found'[d] = found[d] /\ target'[d] = target[d]
          /\ pc'[Main] \in {"lock", "calling", "passed"}
          /\ \A u \in Threads \ {target[Main]} : suspends'[u] = suspends[u]
          /\ suspends'[target[Main]] = suspends[target[Main]] - 1
      BY <1>14, <2>1 DEF CheckResume, Goto, Runs, TypeInv
    <2>3. ~ InWindow(Main)'
      BY <2>2 DEF InWindow
    <2> QED BY <1>12, <2>1, <2>2, <2>3
  <1>15. CASE UNCHANGED vars
    <2>1. UNCHANGED <<suspends, pc, target, found>>
      BY <1>15 DEF vars
    <2>2. \A t \in Threads : Holders(t)' = Holders(t)
      BY <2>1 DEF Holders, Holds, InWindow, Alive
    <2> QED BY <1>0, <2>1, <2>2 DEF Balanced
  <1>16. ASSUME NEW t \in Threads, WriteLine(t) PROVE Balanced' /\ UNCHANGED suspends
    <2>1. /\ UNCHANGED <<suspends, target, found>> /\ \A u \in Threads \ {t} : pc'[u] = pc[u]
          /\ pc[t] = "log" /\ pc'[t] = "print"
      BY <1>16 DEF WriteLine, Goto, TypeInv
    <2>2. \A e \in Examiners : InWindow(e)' <=> InWindow(e)
      BY <2>1 DEF InWindow
    <2>3. Alive(t) /\ Alive(t)'
      BY <2>1 DEF Alive
    <2> QED BY <2>1, <2>2, <2>3, StepKeeps
  <1>17. ASSUME NEW t \in Threads, EnterRuntime(t) PROVE Balanced' /\ UNCHANGED suspends
    <2>1. /\ UNCHANGED <<suspends, target, found>> /\ \A u \in Threads \ {t} : pc'[u] = pc[u]
          /\ pc[t] \in {"run", "passed", "found"} /\ pc'[t] = "inside"
      BY <1>17 DEF EnterRuntime, Goto, TypeInv
    <2>2. \A e \in Examiners : InWindow(e)' <=> InWindow(e)
      BY <2>1 DEF InWindow
    <2>3. Alive(t) /\ Alive(t)'
      BY <2>1 DEF Alive
    <2> QED BY <2>1, <2>2, <2>3, StepKeeps
  <1>18. ASSUME NEW t \in Threads, LeaveRuntime(t) PROVE Balanced' /\ UNCHANGED suspends
    <2>1. /\ UNCHANGED <<suspends, target, found>> /\ \A u \in Threads \ {t} : pc'[u] = pc[u]
          /\ pc[t] = "inside" /\ pc'[t] \in {"run", "told", "done"} /\ suspends[t] = 0
      BY <1>18 DEF LeaveRuntime, Goto, Runs, TypeInv
    <2>2. \A e \in Examiners : InWindow(e)' <=> InWindow(e)
      BY <2>1 DEF InWindow
    (* A scan that ends here runs, so nobody keeps it. *)
    <2>3. \A e \in Examiners : ~ Holds(e, t) /\ ~ Holds(e, t)'
      BY <2>1, <2>2, RunsUnheld DEF Holds, InWindow, Alive
    <2> QED BY <2>1, <2>2, <2>3, StepKeeps
  <1> QED BY <1>0, <1>1, <1>2, <1>3, <1>4, <1>5, <1>6, <1>7, <1>8, <1>10, <1>11, <1>13, <1>14, <1>15,
             <1>16, <1>17, <1>18
          DEF Next, Logging, InRuntime, Scanning

-----------------------------------------------------------------------------
(* The types: no suspend count is below zero or above the number of threads   *)
(* that can suspend.                                                          *)
THEOREM TypeCorrect == Spec => []TypeOK
  <1> DEFINE IInv == TypeInv /\ PlaceInv /\ Balanced
  <1>1. Init => IInv
    BY InvInit, BalancedInit
  <1>2. IInv /\ [Next]_vars => IInv'
    BY InvStep, BalancedStep
  <1>3. IInv => TypeOK
    <2> SUFFICES ASSUME IInv PROVE TypeOK
      OBVIOUS
    <2>1. \A t \in Threads : suspends[t] \in 0..Cardinality(Examiners)
      <3>1. \A t \in Threads : Holders(t) \in SUBSET Examiners
        BY DEF Holders
      <3> QED BY <3>1, HoldersFinite DEF Balanced
    <2> QED BY <2>1 DEF TypeInv, TypeOK
  <1> QED BY <1>1, <1>2, <1>3, PTL DEF Spec

(* A thread is suspended exactly as often as there are threads between their  *)
(* SuspendThread and ResumeThread for it, however many scans overlap and      *)
(* whichever of them log, fail or end.                                        *)
THEOREM SuspensionsReturned == Spec => []SuspendsBalanced
  <1> DEFINE IInv == TypeInv /\ PlaceInv /\ Balanced
  <1>1. Init => IInv
    BY InvInit, BalancedInit
  <1>2. IInv /\ [Next]_vars => IInv'
    BY InvStep, BalancedStep
  <1>3. IInv => SuspendsBalanced
    BY DEF Balanced, Holders, SuspendsBalanced
  <1> QED BY <1>1, <1>2, <1>3, PTL DEF Spec
-----------------------------------------------------------------------------
(* What an alarm of main means. *)
LEMMA AlarmStep ==
  ASSUME TypeInv, PlaceInv, Balanced, [Next]_vars,
         pc[Main] = "calling", pc'[Main] = "resume", found'[Main] = "set"
  PROVE  \E s \in Scans : Holds(s, target[Main])
  <1> USE Kinds
  <1>1. target[Main] \in Threads /\ suspends[target[Main]] \in Nat
    BY DEF TypeInv
  <1>2. CheckSuspend
    <2>1. ASSUME NEW t \in Loggers, Log(t) PROVE FALSE
      BY <2>1 DEF Log, Goto, TypeInv
    <2>2. ASSUME NEW t \in Threads, Logging(t) PROVE FALSE
      BY <2>2 DEF Logging, LockConsole, WriteLine, UnlockConsole, Goto, TypeInv
    <2>3. ASSUME NEW s \in Scans, StartScan(s) PROVE FALSE
      BY <2>3 DEF StartScan, Goto, TypeInv
    <2>4. ASSUME NEW s \in Scans, Scanning(s) PROVE FALSE
      <3>1. pc'[Main] = pc[Main]
        BY <2>4 DEF Scanning, TakeSnapshot, PickThread, SuspendTarget, ReadContext, ResumeTarget,
                    EndScan, Goto, TypeInv
      <3> QED BY <3>1
    <2>5. CASE CheckResume
      BY <2>5 DEF CheckResume
    <2>6. CASE UNCHANGED vars
      BY <2>6 DEF vars
    <2>7. ASSUME NEW t \in Threads, InRuntime(t) PROVE FALSE
      BY <2>7 DEF InRuntime, EnterRuntime, LeaveRuntime, Goto, TypeInv
    <2> QED BY <2>1, <2>2, <2>3, <2>4, <2>5, <2>6, <2>7 DEF Next
  <1>3. suspends[target[Main]] > 0
    BY <1>2 DEF CheckSuspend, TypeInv
  <1>4. PICK e \in Examiners : Holds(e, target[Main])
    <2>1. Holders(target[Main]) # {}
      BY <1>1, <1>3, FS_EmptySet DEF Balanced
    <2> QED BY <2>1 DEF Holders
  <1>5. e # Main
    BY <1>4 DEF Holds, InWindow
  <1> QED BY <1>4, <1>5 DEF Examiners

(* Thread::IsThreadSuspended counts neither its own suspension nor another    *)
(* thread's: what main takes for an alarm was suspended by a scan, among any   *)
(* number of scans.                                                           *)
THEOREM AlarmsAreScans == Spec => AlarmMeansSuspended
  <1> DEFINE IInv == TypeInv /\ PlaceInv /\ Balanced
  <1>1. Init => IInv
    BY InvInit, BalancedInit
  <1>2. IInv /\ [Next]_vars => IInv'
    BY InvStep, BalancedStep
  <1>3. IInv /\ [Next]_vars =>
          [pc[Main] = "calling" /\ pc'[Main] = "resume" /\ found'[Main] = "set"
             => \E s \in Scans : Holds(s, target[Main])]_vars
    BY AlarmStep
  <1> QED BY <1>1, <1>2, <1>3, PTL DEF Spec, AlarmMeansSuspended
=============================================================================
