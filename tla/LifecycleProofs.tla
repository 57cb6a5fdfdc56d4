--------------------------- MODULE LifecycleProofs ---------------------------
(***************************************************************************)
(* Proofs about Lifecycle for any set of configurations: the types, no      *)
(* wrapper deleted under its running thread, no loop that stops unasked,    *)
(* and no pointer to a wrapper used outside the wrapper's life.             *)
(***************************************************************************)
EXTENDS Lifecycle, TLAPS

-----------------------------------------------------------------------------
(* The order in which the ways out visit the loops. *)

LEMMA AfterIs ==
  ASSUME NEW phase, NEW l, NEW k \in DOMAIN Order(phase),
         \A n \in DOMAIN Order(phase) : Order(phase)[n] = l <=> n = k
  PROVE  After(phase, l) = IF k = Len(Order(phase)) THEN "none" ELSE Order(phase)[k + 1]
  <1>1. (CHOOSE n \in DOMAIN Order(phase) : Order(phase)[n] = l) = k
    OBVIOUS
  <1> QED BY <1>1 DEF After

LEMMA OrderFast ==
  /\ Order("fast")[1] = "recv"
  /\ After("fast", "recv") = "antidebug" /\ After("fast", "antidebug") = "monitor"
  /\ After("fast", "monitor") = "creation" /\ After("fast", "creation") = "registry"
  /\ After("fast", "registry") = "none"
  <1> DEFINE order == <<"recv", "antidebug", "monitor", "creation", "registry">>
  <1>1. /\ Order("fast") = order /\ DOMAIN order = 1..5 /\ Len(order) = 5
        /\ order[1] = "recv" /\ order[2] = "antidebug" /\ order[3] = "monitor"
        /\ order[4] = "creation" /\ order[5] = "registry"
    BY DEF Order
  <1> HIDE DEF order
  <1>2. \A k \in 1..5 : \A n \in 1..5 : order[n] = order[k] <=> n = k
    BY <1>1
  <1>3. ASSUME NEW k \in 1..5
        PROVE  After("fast", order[k]) = IF k = 5 THEN "none" ELSE order[k + 1]
    <2>1. /\ k \in DOMAIN Order("fast")
          /\ \A n \in DOMAIN Order("fast") : Order("fast")[n] = order[k] <=> n = k
      BY <1>1, <1>2
    <2>2. After("fast", order[k]) = IF k = Len(Order("fast")) THEN "none" ELSE Order("fast")[k + 1]
      BY <2>1, AfterIs
    <2> QED BY <1>1, <2>2
  <1> QED BY <1>1, <1>3

LEMMA OrderCleanup ==
  /\ Order("cleanup")[1] = "antidebug"
  /\ After("cleanup", "antidebug") = "monitor" /\ After("cleanup", "monitor") = "creation"
  /\ After("cleanup", "creation") = "registry" /\ After("cleanup", "registry") = "recv"
  /\ After("cleanup", "recv") = "none"
  <1> DEFINE order == <<"antidebug", "monitor", "creation", "registry", "recv">>
  <1>1. /\ Order("cleanup") = order /\ DOMAIN order = 1..5 /\ Len(order) = 5
        /\ order[1] = "antidebug" /\ order[2] = "monitor" /\ order[3] = "creation"
        /\ order[4] = "registry" /\ order[5] = "recv"
    BY DEF Order
  <1> HIDE DEF order
  <1>2. \A k \in 1..5 : \A n \in 1..5 : order[n] = order[k] <=> n = k
    BY <1>1
  <1>3. ASSUME NEW k \in 1..5
        PROVE  After("cleanup", order[k]) = IF k = 5 THEN "none" ELSE order[k + 1]
    <2>1. /\ k \in DOMAIN Order("cleanup")
          /\ \A n \in DOMAIN Order("cleanup") : Order("cleanup")[n] = order[k] <=> n = k
      BY <1>1, <1>2
    <2>2. After("cleanup", order[k]) = IF k = Len(Order("cleanup")) THEN "none" ELSE Order("cleanup")[k + 1]
      BY <2>1, AfterIs
    <2> QED BY <1>1, <2>2
  <1> QED BY <1>1, <1>3

LEMMA OrderUnwind ==
  /\ Order("unwind")[1] = "antidebug"
  /\ \A l \in Loops : After("unwind", l) \in Loops \cup {"none"}
  <1> DEFINE order == <<"antidebug", "monitor", "registry", "creation", "recv", "integrity">>
  <1>1. /\ Order("unwind") = order /\ DOMAIN order = 1..6 /\ Len(order) = 6
        /\ order[1] = "antidebug" /\ order[2] = "monitor" /\ order[3] = "registry"
        /\ order[4] = "creation" /\ order[5] = "recv" /\ order[6] = "integrity"
    BY DEF Order
  <1> HIDE DEF order
  <1>2. \A k \in 1..6 : \A n \in 1..6 : order[n] = order[k] <=> n = k
    BY <1>1
  <1>3. ASSUME NEW k \in 1..6
        PROVE  After("unwind", order[k]) = IF k = 6 THEN "none" ELSE order[k + 1]
    <2>1. /\ k \in DOMAIN Order("unwind")
          /\ \A n \in DOMAIN Order("unwind") : Order("unwind")[n] = order[k] <=> n = k
      BY <1>1, <1>2
    <2>2. After("unwind", order[k]) = IF k = Len(Order("unwind")) THEN "none" ELSE Order("unwind")[k + 1]
      BY <2>1, AfterIs
    <2> QED BY <1>1, <2>2
  <1>4. \A l \in Loops : \E k \in 1..6 : l = order[k]
    BY <1>1 DEF Loops, Watchers
  <1>5. \A k \in 1..6 : order[k] \in Loops
    BY <1>1 DEF Loops, Watchers
  <1> QED BY <1>1, <1>3, <1>4, <1>5

-----------------------------------------------------------------------------
(* The invariant. *)

(* The owner knows a loop, or it has run. *)
Known(l) == owner[l] \/ at[l] # "none"

(* The loops that are started before l. *)
Earlier(l) ==
  CASE l = "integrity" -> {}
    [] l = "recv"      -> {"integrity"}
    [] l = "monitor"   -> {"integrity", "recv"}
    [] l = "creation"  -> {"integrity", "recv", "monitor"}
    [] l = "registry"  -> {"integrity", "recv", "monitor", "creation"}
    [] OTHER           -> {"integrity", "recv", "monitor", "creation", "registry"}

(* The loops that Cleanup joins before l. *)
Joined(l) ==
  CASE l = "antidebug" -> {}
    [] l = "monitor"   -> {"antidebug"}
    [] l = "creation"  -> {"antidebug", "monitor"}
    [] l = "registry"  -> {"antidebug", "monitor", "creation"}
    [] OTHER           -> {"antidebug", "monitor", "creation", "registry"}

Others == Loops \ {"integrity"}   \* the loops somebody stops

(* Each loop is started once, after those before it.                          *)
PathInv ==
  /\ main = "checks" => cur = "integrity" /\ \A l \in Loops : ~ Known(l)
  /\ main = "spawn" => \A l \in Loops : Known(l) => l \in Earlier(cur)
  /\ main \in {"construct", "assign"} =>
        /\ ~ owner[cur]
        /\ \A l \in Loops : Known(l) => l \in Earlier(cur) \cup {cur}
  /\ main \in {"driver", "initialize"} => \A l \in Loops : Known(l) => l = "integrity"
  /\ main = "launch" => \A l \in Loops : Known(l) => l \in {"integrity", "recv"}
  /\ main = "startdebug" => ~ Known("antidebug")
  /\ main \in {"spawn", "construct", "assign"} /\ cur = "antidebug" => config.antidebug
  /\ at["antidebug"] # "none" => config.antidebug

(* Where the loops can be, and what their flags and owners say.               *)
LoopInv ==
  /\ at["integrity"] \in {"none", "work"}
  /\ \A l \in Loops : at[l] = "setup" => l \in Watchers
  /\ \A l \in Loops : flag[l] => l \in signalled \/ (main = "construct" /\ cur = l)
  /\ \A l \in Loops : ~ Finished(l) => owner[l] \/ (main \in {"construct", "assign"} /\ cur = l)

(* What the ways out have stopped.                                            *)
EndInv ==
  /\ main \in {"fast", "cleanup", "join"} => cur \in Others
  /\ main \in {"cleanup", "join"} => \A l \in Joined(cur) : Finished(l)
  /\ main = "cleaned" \/ (main \in {"unwind", "delete", "deleted"} /\ ~ failed)
        => \A l \in Others : Finished(l)
  /\ \A l \in Loops : object[l] = "deleted"
        => failed \/ main \in {"unwind", "delete", "deleted", "exited"}

IInv == /\ TypeOK /\ PathInv /\ LoopInv /\ EndInv
        /\ DeletedAfterEnd /\ StopMeansSignalled /\ PointersHold

LEMMA InvInit == Init => IInv
  <1> SUFFICES ASSUME Init PROVE IInv
    OBVIOUS
  <1>1. /\ \A l \in Loops : at[l] = "none" /\ object[l] = "none" /\ ~ owner[l] /\ ~ flag[l]
        /\ main = "checks" /\ cur = "integrity" /\ "integrity" \in Loops /\ "antidebug" \in Loops
        /\ console = "none" /\ crash = NoCrash /\ crash[1] = "no"
    BY DEF Init, ThreadsInit, Loops, Watchers, NoCrash
  <1>2. TypeOK
    BY <1>1 DEF Init, ThreadsInit, TypeOK, Places
  <1>3. PathInv /\ LoopInv /\ EndInv
    BY <1>1 DEF PathInv, LoopInv, EndInv, Known, Finished
  <1>4. DeletedAfterEnd /\ StopMeansSignalled /\ PointersHold
    BY <1>1 DEF DeletedAfterEnd, StopMeansSignalled, PointersHold
  <1> QED BY <1>2, <1>3, <1>4 DEF IInv

-----------------------------------------------------------------------------
(* What a step of a loop leaves alone, and what it may do: it moves on from   *)
(* where it runs, and stops only when it was told to; or it crashes.          *)
Kept == UNCHANGED <<config, main, cur, err, failed, driver, alive, object, owner, flag, signalled>>

Moves(l) ==
  \E p \in Places \ {"none", "setup", "killed"} :
    /\ at' = [at EXCEPT ![l] = p] /\ UNCHANGED crash
    /\ p = "stopping" \/ (p = "ended" /\ l \notin Watchers \cup {"recv"}) => l \in signalled

Crashes(l) ==
  /\ UNCHANGED at
  /\ \/ crash' = <<"null", l>> /\ at[l] = "top" /\ ~ owner[l] /\ ~ Guarded(l)
     \/ crash' = <<"dangling", l>> /\ at[l] = "top" /\ object[l] = "deleted" /\ owner[l]
     \/ crash' = <<"dangling", l>> /\ at[l] = "tick" /\ object["monitor"] = "deleted"

ConsoleStep(l) ==
  \/ UNCHANGED console /\ (at[l] = "log" => UNCHANGED at)
  \/ console' = "none"
  \/ console' = l /\ at'[l] = "log"

Does(l) == /\ Running /\ l \in Others /\ ~ Finished(l)
           /\ Kept
           /\ (Moves(l) \/ Crashes(l))
           /\ ConsoleStep(l) /\ scan' \in {"idle", "running"}

LEMMA LoopDoes ==
  ASSUME IInv, NEW l \in Loops, LoopStep(l)
  PROVE  Does(l)
  <1>a. /\ at \in [Loops -> Places] /\ scan \in {"idle", "running"} /\ at["integrity"] \in {"none", "work"}
        /\ \A k \in Loops : at[k] = "setup" => k \in Watchers
        /\ \A k \in Loops : flag[k] => k \in signalled \/ (main = "construct" /\ cur = k)
        /\ (at[l] = "stopping" => l = "recv" \/ l \in signalled)
        /\ \A k \in Loops : main \in {"construct", "assign"} /\ k = cur => ~ owner[k]
    BY DEF IInv, TypeOK, LoopInv, PathInv, StopMeansSignalled
  <1>b. ASSUME at[l] \notin {"none", "work", "ended", "killed"} PROVE l \in Others /\ ~ Finished(l)
    BY <1>a, <1>b DEF Others, Finished
  <1>c. ASSUME at[l] = "work", l # "integrity" PROVE l \in Others /\ ~ Finished(l)
    BY <1>c DEF Others, Finished
  <1>d. ASSUME UNCHANGED <<threadVars, mainVars>> \/ (UNCHANGED mainVars /\ KeepWrappers),
               UNCHANGED config
        PROVE  Kept
    BY <1>d DEF Kept, threadVars, mainVars, KeepWrappers
  <1>e. ASSUME NEW p \in Places \ {"none", "setup", "killed"}, at' = [at EXCEPT ![l] = p], UNCHANGED crash,
               (p = "stopping" \/ (p = "ended" /\ l \notin Watchers \cup {"recv"})) => l \in signalled
        PROVE  Moves(l)
    BY <1>e DEF Moves
  <1>1. CASE SetUp(l)
    <2>1. /\ Running /\ at[l] = "setup" /\ UNCHANGED <<console, scan, crash>>
          /\ \E p \in {"top", "ended"} : at' = [at EXCEPT ![l] = p]
      BY <1>1 DEF SetUp, Live, Move
    <2>2. Kept
      BY <1>1, <1>d DEF SetUp, LoopOnly
    <2>3. Moves(l)
      BY <2>1, <1>a DEF Moves, Places, Watchers
    <2> QED BY <1>a, <1>b, <2>1, <2>2, <2>3 DEF Does, ConsoleStep
  <1>2. CASE ReadFlag(l)
    <2>1. Running /\ at[l] = "top" /\ UNCHANGED <<console, scan>>
      BY <1>2 DEF ReadFlag, Live, Crash
    <2>2. Kept
      BY <1>2, <1>d DEF ReadFlag, LoopOnly, Crash
    <2>3. CASE owner[l] /\ object[l] = "deleted"
      <3>1. Crashes(l)
        BY <1>2, <2>1, <2>3 DEF ReadFlag, Crash, Crashes, threadVars
      <3> QED BY <1>a, <1>b, <2>1, <2>2, <3>1 DEF Does, ConsoleStep
    <2>4. CASE owner[l] /\ object[l] # "deleted"
      <3>1. /\ UNCHANGED crash
            /\ \/ flag[l] /\ at' = [at EXCEPT ![l] = "stopping"]
               \/ flag[l] /\ at' = [at EXCEPT ![l] = "ended"]
               \/ at' = [at EXCEPT ![l] = "work"]
        BY <1>2, <2>4 DEF ReadFlag, Move
      <3>2. flag[l] => l \in signalled
        BY <1>a, <2>4
      <3>3. Moves(l)
        BY <3>1, <3>2 DEF Moves, Places
      <3> QED BY <1>a, <1>b, <2>1, <2>2, <3>3 DEF Does, ConsoleStep
    <2>5. CASE ~ owner[l] /\ Guarded(l)
      <3>1. Moves(l)
        BY <1>2, <2>5 DEF ReadFlag, Move, Moves, Places
      <3> QED BY <1>a, <1>b, <2>1, <2>2, <3>1 DEF Does, ConsoleStep
    <2>6. CASE ~ owner[l] /\ ~ Guarded(l)
      <3>1. Crashes(l)
        BY <1>2, <2>1, <2>6 DEF ReadFlag, Crash, Crashes, threadVars
      <3> QED BY <1>a, <1>b, <2>1, <2>2, <3>1 DEF Does, ConsoleStep
    <2> QED BY <2>3, <2>4, <2>5, <2>6
  <1>3. CASE Work(l)
    <2>1. /\ Running /\ at[l] = "work" /\ l # "integrity" /\ UNCHANGED <<console, crash>>
          /\ scan' \in {"idle", "running"}
      BY <1>3, <1>a DEF Work, Live
    <2>2. Kept
      BY <1>3, <1>d DEF Work, LoopOnly
    <2>3. \/ at' = [at EXCEPT ![l] = "top"] \/ at' = [at EXCEPT ![l] = "tick"]
          \/ l = "recv" /\ at' = [at EXCEPT ![l] = "ended"]
      BY <1>3 DEF Work, Move, Watchers
    <2>4. Moves(l)
      BY <2>1, <2>3 DEF Moves, Places
    <2> QED BY <1>c, <2>1, <2>2, <2>4 DEF Does, ConsoleStep
  <1>4. CASE LockConsole(l)
    <2>1. /\ Running /\ at[l] = "work" /\ l # "integrity" /\ UNCHANGED <<scan, crash>>
          /\ console' = l /\ at' = [at EXCEPT ![l] = "log"]
      BY <1>4 DEF LockConsole, Live, Move
    <2>2. Kept
      BY <1>4, <1>d DEF LockConsole, LoopOnly
    <2>3. Moves(l)
      <3>1. "log" \in Places \ {"none", "setup", "killed"}
        BY DEF Places
      <3> QED BY <1>e, <2>1, <3>1
    <2>4. at'[l] = "log"
      BY <2>1, <1>a
    <2> QED BY <1>a, <1>c, <2>1, <2>2, <2>3, <2>4 DEF Does, ConsoleStep
  <1>5. CASE UnlockConsole(l)
    <2>1. /\ Running /\ at[l] = "log" /\ UNCHANGED <<scan, crash>> /\ console' = "none"
          /\ (at' = [at EXCEPT ![l] = "tick"] \/ at' = [at EXCEPT ![l] = "top"])
      BY <1>5 DEF UnlockConsole, Live, Move
    <2>2. Kept
      BY <1>5, <1>d DEF UnlockConsole, LoopOnly
    <2>3. Moves(l)
      BY <2>1 DEF Moves, Places
    <2> QED BY <1>a, <1>b, <2>1, <2>2, <2>3 DEF Does, ConsoleStep
  <1>6. CASE Tick(l)
    <2>1. Running /\ at[l] = "tick" /\ UNCHANGED <<console, scan>>
      BY <1>6 DEF Tick, Live, Crash
    <2>2. Kept
      BY <1>6, <1>d DEF Tick, LoopOnly, Crash
    <2>3. CASE owner["monitor"] /\ object["monitor"] = "deleted"
      <3>1. Crashes(l)
        BY <1>6, <2>1, <2>3 DEF Tick, Crash, Crashes, threadVars
      <3> QED BY <1>a, <1>b, <2>1, <2>2, <3>1 DEF Does, ConsoleStep
    <2>4. CASE ~ (owner["monitor"] /\ object["monitor"] = "deleted")
      <3>1. Moves(l)
        BY <1>6, <2>4 DEF Tick, Move, Moves, Places
      <3> QED BY <1>a, <1>b, <2>1, <2>2, <3>1 DEF Does, ConsoleStep
    <2> QED BY <2>3, <2>4
  <1>7. CASE LogStop(l)
    <2>1. /\ Running /\ at[l] = "stopping" /\ UNCHANGED <<console, scan, crash>>
          /\ at' = [at EXCEPT ![l] = "ended"]
      BY <1>7 DEF LogStop, Live, Move
    <2>2. Kept
      BY <1>7, <1>d DEF LogStop, LoopOnly
    <2>3. l = "recv" \/ l \in signalled
      BY <2>1, <1>a
    <2>4. Moves(l)
      <3>1. "ended" \in Places \ {"none", "setup", "killed"}
        BY DEF Places
      <3>2. l \in Watchers \cup {"recv"} \/ l \in signalled
        BY <2>3
      <3> QED BY <1>e, <2>1, <3>1, <3>2
    <2> QED BY <1>a, <1>b, <2>1, <2>2, <2>4 DEF Does, ConsoleStep
  <1> QED BY <1>1, <1>2, <1>3, <1>4, <1>5, <1>6, <1>7 DEF LoopStep

(* Such a step keeps the invariant, whatever main is doing.                   *)
LEMMA LoopKeeps ==
  ASSUME IInv, NEW l \in Loops, LoopStep(l)
  PROVE  IInv'
  <1>1. Does(l)
    BY LoopDoes
  <1>2. /\ Running /\ l \in Others /\ ~ Finished(l) /\ Kept
        /\ at \in [Loops -> Places] /\ at' \in [Loops -> Places]
        /\ \A k \in Loops \ {l} : at'[k] = at[k]
        /\ (Moves(l) \/ Crashes(l))
    BY <1>1 DEF Does, Moves, Crashes, IInv, TypeOK, Others
  <1>3. \A k \in Loops : (Finished(k) => k # l /\ Finished(k)') /\ (Finished(k)' /\ k # l => Finished(k))
    BY <1>2 DEF Finished
  <1>4. \A k \in Loops : at'[k] # "none" <=> at[k] # "none"
    BY <1>2 DEF Moves, Crashes, Finished
  <1>5. \A k \in Loops : (at'[k] = "setup" => at[k] = "setup") /\ (k = "integrity" => k # l)
    BY <1>2 DEF Moves, Crashes, Others
  <1>6. TypeOK'
    <2>1. /\ crash' \in {NoCrash} \cup ({"null", "dangling"} \X (Loops \cup {"scan"}))
      BY <1>2 DEF Moves, Crashes, IInv, TypeOK
    <2>2. console' \in Loops \cup {"none"} /\ (console' # "none" => at'[console'] \in {"log", "killed"})
      <3>1. /\ console \in Loops \cup {"none"}
            /\ (console # "none" => at[console] \in {"log", "killed"})
            /\ at[l] \notin {"none", "ended", "killed"}
        BY <1>2 DEF IInv, TypeOK, Finished
      <3>2. ConsoleStep(l)
        BY <1>1 DEF Does
      <3> QED BY <1>2, <3>1, <3>2 DEF ConsoleStep
    <2>3. scan' \in {"idle", "running"}
      BY <1>1 DEF Does
    <2>4. \A k \in Loops : object'[k] = "none" => at'[k] = "none"
      BY <1>2, <1>4 DEF IInv, TypeOK, Kept
    <2> QED BY <1>2, <2>1, <2>2, <2>3, <2>4 DEF IInv, TypeOK, Kept
  <1>7. PathInv'
    <2>1. \A k \in Loops : Known(k)' <=> Known(k)
      BY <1>2, <1>4 DEF Known, Kept
    <2>2. \A k : Earlier(k)' = Earlier(k)
      BY DEF Earlier
    <2>3. /\ main' = main /\ cur' = cur /\ owner' = owner /\ config' = config
          /\ "antidebug" \in Loops /\ (at'["antidebug"] # "none" <=> at["antidebug"] # "none")
      BY <1>2, <1>4 DEF Kept, Loops
    <2> QED BY <2>1, <2>3 DEF IInv, PathInv, Earlier
  <1>8. LoopInv'
    <2>1. main' = main /\ cur' = cur /\ owner' = owner /\ flag' = flag /\ signalled' = signalled
      BY <1>2 DEF Kept
    <2>2. at'["integrity"] = at["integrity"]
      BY <1>2, <1>5 DEF Loops
    <2>3. \A k \in Loops : at'[k] = "setup" => k \in Watchers
      BY <1>5 DEF IInv, LoopInv
    <2>4. \A k \in Loops : ~ Finished(k)' => owner'[k] \/ (main' \in {"construct", "assign"} /\ cur' = k)
      BY <1>3, <2>1 DEF IInv, LoopInv
    <2>5. \A k \in Loops : flag'[k] => k \in signalled' \/ (main' = "construct" /\ cur' = k)
      BY <2>1 DEF IInv, LoopInv
    <2> QED BY <2>2, <2>3, <2>4, <2>5 DEF IInv, LoopInv
  <1>9. EndInv'
    <2>1. main' = main /\ cur' = cur /\ object' = object /\ failed' = failed
      BY <1>2 DEF Kept
    <2>2. Joined(cur) \subseteq Loops
      BY DEF Joined, Loops, Watchers
    <2>3. main' \in {"cleanup", "join"} => \A k \in Joined(cur') : Finished(k)'
      BY <1>3, <2>1, <2>2 DEF IInv, EndInv, Joined
    <2>4. main' = "cleaned" \/ (main' \in {"unwind", "delete", "deleted"} /\ ~ failed')
            => \A k \in Others : Finished(k)'
      BY <1>3, <2>1 DEF IInv, EndInv, Others
    <2>5. main' \in {"fast", "cleanup", "join"} => cur' \in Others
      BY <2>1 DEF IInv, EndInv
    <2>6. \A k \in Loops : object'[k] = "deleted" => failed' \/ main' \in {"unwind", "delete", "deleted", "exited"}
      BY <2>1 DEF IInv, EndInv
    <2> QED BY <2>3, <2>4, <2>5, <2>6 DEF EndInv, Others
  <1>10. DeletedAfterEnd'
    BY <1>2, <1>3 DEF IInv, DeletedAfterEnd, Kept
  <1>11. StopMeansSignalled'
    <2>1. signalled' = signalled
      BY <1>2 DEF Kept
    <2>2. \A k \in Loops \ {"recv"} : k # l =>
            (at'[k] = "stopping" \/ (at'[k] = "ended" /\ k \notin Watchers) => k \in signalled')
      BY <1>2, <2>1 DEF IInv, StopMeansSignalled
    <2>3. ASSUME l # "recv", at'[l] = "stopping" \/ (at'[l] = "ended" /\ l \notin Watchers)
          PROVE  l \in signalled'
      <3>1. CASE Crashes(l)
        BY <1>2, <2>1, <2>3, <3>1 DEF Crashes, IInv, StopMeansSignalled
      <3>2. CASE Moves(l)
        BY <1>2, <2>1, <2>3, <3>2 DEF Moves
      <3> QED BY <1>2, <3>1, <3>2
    <2> QED BY <2>2, <2>3 DEF StopMeansSignalled
  <1>12. PointersHold'
    <2>1. main' = main /\ cur' = cur /\ failed' = failed /\ crash = NoCrash /\ main # "exited"
      BY <1>2 DEF Kept, Running
    <2>2. CASE Moves(l)
      <3>1. crash'[1] = "no"
        BY <2>1, <2>2 DEF Moves, NoCrash
      <3> QED BY <3>1 DEF PointersHold
    <2>3. CASE Crashes(l)
      <3>1. CASE crash' = <<"null", l>> /\ ~ owner[l] /\ ~ Guarded(l)
        <4>1. main \in {"construct", "assign"} /\ cur = l
          BY <1>2, <3>1 DEF IInv, LoopInv
        <4> QED BY <2>1, <3>1, <4>1 DEF PointersHold, Guarded
      <3>2. CASE crash' = <<"dangling", l>> /\ (object[l] = "deleted" \/ object["monitor"] = "deleted")
        <4>1. failed \/ main \in {"unwind", "delete", "deleted"}
          BY <2>1, <3>2 DEF IInv, EndInv, Loops
        <4>2. failed
          BY <1>2, <4>1 DEF IInv, EndInv
        <4> QED BY <2>1, <3>2, <4>2 DEF PointersHold
      <3> QED BY <2>3, <3>1, <3>2 DEF Crashes
    <2> QED BY <1>2, <2>2, <2>3
  <1> QED BY <1>6, <1>7, <1>8, <1>9, <1>10, <1>11, <1>12 DEF IInv

-----------------------------------------------------------------------------
(* The steps of main.                                                         *)
Mains == {"checks", "spawn", "construct", "assign", "driver", "initialize",
          "launch", "startdebug", "parent", "built", "waiting", "fast", "splash",
          "cleanup", "join", "cleaned", "unwind", "delete", "deleted", "exited"}
Starting == {"checks", "spawn", "construct", "assign", "driver", "initialize",
             "launch", "startdebug"}
Ending == {"fast", "cleanup", "join", "cleaned", "unwind", "delete", "deleted", "exited"}

MainTypes == /\ main \in Mains /\ cur \in Loops /\ err \in BOOLEAN /\ failed \in BOOLEAN
             /\ driver \in {"none", "loaded", "unloaded", "stuck"}
             /\ alive \subseteq {"AntiDebugger", "Evidence"}

(* Nothing has crashed where main takes a step.                               *)
LEMMA MainRuns ==
  ASSUME IInv, Running, MainOnly
  PROVE  /\ crash' = NoCrash /\ PointersHold'
         /\ config' = config /\ console' = console /\ scan' = scan
  <1>1. crash' = NoCrash /\ crash'[1] = "no"
    BY DEF Running, MainOnly, NoCrash
  <1> QED BY <1>1 DEF MainOnly, PointersHold

(* Once the threads have been started, no more come.                          *)
LEMMA PathOver ==
  ASSUME IInv, MainOnly, main' \notin Starting,
         at'["antidebug"] # "none" => at["antidebug"] # "none"
  PROVE  PathInv'
  BY DEF IInv, PathInv, MainOnly, Starting

(* Before the end, only a failed constructor has deleted anything.            *)
LEMMA EndAhead ==
  ASSUME IInv, UNCHANGED object, main \notin Ending, main' \notin Ending, failed => failed'
  PROVE  EndInv'
  <1>1. \A l \in Loops : object'[l] = "deleted" => failed'
    BY DEF IInv, EndInv, Ending
  <1> QED BY <1>1 DEF EndInv, Ending

LEMMA StillKeeps ==
  ASSUME IInv, Running, MainOnly, UNCHANGED threadVars, main \notin {"construct", "assign"},
         MainTypes', PathInv', EndInv'
  PROVE  IInv'
  <1>1. at' = at /\ object' = object /\ owner' = owner /\ flag' = flag /\ signalled' = signalled
    BY DEF threadVars
  <1>2. /\ crash' = NoCrash /\ PointersHold'
        /\ config' = config /\ console' = console /\ scan' = scan
    BY MainRuns
  <1>3. TypeOK'
    BY <1>1, <1>2 DEF IInv, TypeOK, MainTypes, Mains
  <1>4. \A l \in Loops : Finished(l)' <=> Finished(l)
    BY <1>1 DEF Finished
  <1>5. LoopInv'
    BY <1>1, <1>4 DEF IInv, LoopInv
  <1>6. DeletedAfterEnd' /\ StopMeansSignalled'
    BY <1>1, <1>4 DEF IInv, DeletedAfterEnd, StopMeansSignalled
  <1> QED BY <1>2, <1>3, <1>5, <1>6 DEF IInv

LEMMA ThrowKeeps ==
  ASSUME IInv, Running, MainOnly, UNCHANGED threadVars, main \notin {"construct", "assign"},
         Throw, MainTypes'
  PROVE  IInv'
  <1>1. main' = "unwind" /\ failed'
    BY DEF Throw, Goto
  <1>2. PathInv'
    BY <1>1, PathOver DEF Starting, threadVars
  <1>3. EndInv'
    BY <1>1 DEF EndInv
  <1> QED BY <1>2, <1>3, StillKeeps

LEMMA BuildKeeps ==
  ASSUME IInv,
         \/ PreInitialize \/ LoadDriver \/ Initialize \/ DeployBarrier
         \/ StartAntiDebugThread \/ CheckParent \/ CheckThreads
  PROVE  IInv'
  <1>a. MainTypes
    BY DEF IInv, TypeOK, MainTypes, Mains
  <1>b. \A l \in Loops : UNCHANGED threadVars => (Known(l)' <=> Known(l))
    BY DEF Known, threadVars
  <1>c. UNCHANGED threadVars => at' = at /\ object' = object /\ owner' = owner
    BY DEF threadVars
  <1>d. "recv" \in Loops /\ "integrity" \in Loops /\ "antidebug" \in Loops /\ "monitor" \in Loops
    BY DEF Loops, Watchers
  <1>1. CASE PreInitialize
    <2>1. /\ Running /\ main = "checks" /\ MainOnly /\ UNCHANGED threadVars /\ cur' = cur
          /\ \/ main' = "spawn" /\ failed' = failed
             \/ main' \in {"exited", "splash"} /\ failed'
      BY <1>1 DEF PreInitialize, At, Goto, NoThreadStep
    <2>2. MainTypes'
      BY <1>1, <1>a, <2>1 DEF PreInitialize, MainTypes, Mains
    <2>3. PathInv'
      <3>1. CASE main' = "spawn"
        BY <1>b, <1>c, <2>1, <3>1 DEF IInv, PathInv, MainOnly
      <3>2. CASE main' \in {"exited", "splash"}
        BY <1>c, <2>1, <3>2, PathOver DEF Starting
      <3> QED BY <2>1, <3>1, <3>2
    <2>4. EndInv'
      <3>1. CASE main' = "spawn"
        BY <1>c, <2>1, <3>1, EndAhead DEF Ending
      <3>2. CASE main' \in {"exited", "splash"} /\ failed'
        BY <3>2 DEF EndInv
      <3> QED BY <2>1, <3>1, <3>2
    <2> QED BY <2>1, <2>2, <2>3, <2>4, StillKeeps
  <1>2. CASE LoadDriver
    <2>1. /\ Running /\ main = "driver" /\ MainOnly /\ UNCHANGED threadVars
          /\ \/ main' = "initialize" /\ failed' = failed /\ cur' = cur
             \/ Throw
      BY <1>2 DEF LoadDriver, At, Goto, NoThreadStep
    <2>2. MainTypes'
      BY <1>2, <1>a, <1>d DEF LoadDriver, MainTypes, Mains, Throw, Goto
    <2>3. CASE Throw
      BY <2>1, <2>2, <2>3, ThrowKeeps
    <2>4. CASE main' = "initialize" /\ failed' = failed /\ cur' = cur
      <3>1. PathInv'
        BY <1>b, <1>c, <2>1, <2>4 DEF IInv, PathInv, MainOnly
      <3>2. EndInv'
        BY <1>c, <2>1, <2>4, EndAhead DEF Ending
      <3> QED BY <2>1, <2>2, <3>1, <3>2, StillKeeps
    <2> QED BY <2>1, <2>3, <2>4
  <1>3. CASE Initialize
    <2>1. /\ Running /\ main = "initialize" /\ MainOnly /\ UNCHANGED threadVars
          /\ err' \in BOOLEAN /\ driver' = driver /\ alive' = alive
          /\ \/ main' = "spawn" /\ cur' = "recv" /\ failed' = failed
             \/ main' = "launch" /\ cur' = cur /\ failed' = failed
             \/ Throw
      BY <1>3 DEF Initialize, At, Goto, NoThreadStep
    <2>2. MainTypes'
      BY <1>a, <1>d, <2>1 DEF MainTypes, Mains, Throw, Goto
    <2>3. CASE Throw
      BY <2>1, <2>2, <2>3, ThrowKeeps
    <2>4. CASE main' = "spawn" /\ cur' = "recv" /\ failed' = failed
      <3>1. PathInv'
        BY <1>b, <1>c, <2>1, <2>4 DEF IInv, PathInv, MainOnly, Earlier
      <3>2. EndInv'
        BY <1>c, <2>1, <2>4, EndAhead DEF Ending
      <3> QED BY <2>1, <2>2, <3>1, <3>2, StillKeeps
    <2>5. CASE main' = "launch" /\ cur' = cur /\ failed' = failed
      <3>1. PathInv'
        BY <1>b, <1>c, <2>1, <2>5 DEF IInv, PathInv, MainOnly
      <3>2. EndInv'
        BY <1>c, <2>1, <2>5, EndAhead DEF Ending
      <3> QED BY <2>1, <2>2, <3>1, <3>2, StillKeeps
    <2> QED BY <2>1, <2>3, <2>4, <2>5
  <1>4. CASE DeployBarrier
    <2>1. /\ Running /\ main = "launch" /\ MainOnly /\ UNCHANGED threadVars
          /\ main' = "spawn" /\ cur' = "monitor" /\ failed' = failed
      BY <1>4 DEF DeployBarrier, At, Goto, NoThreadStep
    <2>2. MainTypes'
      BY <1>4, <1>a, <1>d, <2>1 DEF DeployBarrier, MainTypes, Mains
    <2>3. PathInv'
      BY <1>b, <1>c, <2>1 DEF IInv, PathInv, MainOnly, Earlier
    <2>4. EndInv'
      BY <1>c, <2>1, EndAhead DEF Ending
    <2> QED BY <2>1, <2>2, <2>3, <2>4, StillKeeps
  <1>5. CASE StartAntiDebugThread
    <2>1. /\ Running /\ main = "startdebug" /\ MainOnly /\ UNCHANGED threadVars /\ failed' = failed
          /\ \/ main' = "spawn" /\ cur' = "antidebug" /\ config.antidebug
             \/ main' = "parent" /\ cur' = cur
      BY <1>5 DEF StartAntiDebugThread, At, Goto, NoThreadStep
    <2>2. MainTypes'
      BY <1>5, <1>a, <1>d, <2>1 DEF StartAntiDebugThread, MainTypes, Mains
    <2>3. PathInv'
      <3>1. CASE main' = "parent"
        BY <1>c, <2>1, <3>1, PathOver DEF Starting
      <3>2. CASE main' = "spawn" /\ cur' = "antidebug" /\ config.antidebug
        <4>1. \A l \in Loops : l # "antidebug" => l \in Earlier("antidebug")
          BY DEF Loops, Watchers, Earlier
        <4>2. \A l \in Loops : Known(l)' => l \in Earlier(cur')
          BY <1>b, <2>1, <3>2, <4>1 DEF IInv, PathInv
        <4> QED BY <1>c, <2>1, <3>2, <4>2 DEF PathInv, MainOnly, Earlier
      <3> QED BY <2>1, <3>1, <3>2
    <2>4. EndInv'
      BY <1>c, <2>1, EndAhead DEF Ending
    <2> QED BY <2>1, <2>2, <2>3, <2>4, StillKeeps
  <1>6. CASE CheckParent
    <2>1. /\ Running /\ main = "parent" /\ MainOnly /\ UNCHANGED threadVars
          /\ err' \in BOOLEAN /\ driver' = driver /\ alive' = alive
          /\ \/ main' = "built" /\ cur' = cur /\ failed' = failed
             \/ Throw
      BY <1>6, <1>a DEF CheckParent, At, Goto, NoThreadStep, MainTypes
    <2>2. MainTypes'
      BY <1>a, <1>d, <2>1 DEF MainTypes, Mains, Throw, Goto
    <2>3. CASE Throw
      BY <2>1, <2>2, <2>3, ThrowKeeps
    <2>4. CASE main' = "built" /\ cur' = cur /\ failed' = failed
      <3>1. PathInv'
        BY <1>c, <2>1, <2>4, PathOver DEF Starting
      <3>2. EndInv'
        BY <1>c, <2>1, <2>4, EndAhead DEF Ending
      <3> QED BY <2>1, <2>2, <3>1, <3>2, StillKeeps
    <2> QED BY <2>1, <2>3, <2>4
  <1>7. CASE CheckThreads
    <2>1. /\ Running /\ main = "built" /\ MainOnly /\ UNCHANGED threadVars /\ failed' = failed
          /\ main' \in {"waiting", "splash"}
      BY <1>7 DEF CheckThreads, At, Goto, NoThreadStep
    <2>2. MainTypes'
      BY <1>7, <1>a, <2>1 DEF CheckThreads, MainTypes, Mains
    <2>3. PathInv'
      BY <1>c, <2>1, PathOver DEF Starting
    <2>4. EndInv'
      BY <1>c, <2>1, EndAhead DEF Ending
    <2> QED BY <2>1, <2>2, <2>3, <2>4, StillKeeps
  <1> QED BY <1>1, <1>2, <1>3, <1>4, <1>5, <1>6, <1>7

(* The start of a thread: it runs before its wrapper is complete and before   *)
(* its owner knows it.                                                        *)
LEMMA StartKeeps ==
  ASSUME IInv, StartThread
  PROVE  IInv'
  <1>a. /\ TypeOK /\ PathInv /\ LoopInv /\ EndInv /\ DeletedAfterEnd /\ StopMeansSignalled
        /\ cur \in Loops /\ at \in [Loops -> Places]
        /\ object \in [Loops -> {"none", "building", "live", "deleted"}]
        /\ owner \in [Loops -> BOOLEAN] /\ flag \in [Loops -> BOOLEAN] /\ signalled \subseteq Loops
    BY DEF IInv, TypeOK
  <1>b. Running /\ MainOnly /\ driver' = driver /\ alive' = alive /\ main \in {"spawn", "construct", "assign"}
    BY DEF StartThread, At
  <1>c. /\ crash' = NoCrash /\ PointersHold'
        /\ config' = config /\ console' = console /\ scan' = scan
    BY <1>b, MainRuns
  <1>d. \A l \in Loops : object[l] = "deleted" => failed
    BY <1>a, <1>b DEF EndInv
  <1>1. CASE At("spawn") /\ Spawn(cur) /\ Goto("construct") /\ UNCHANGED <<cur, err, failed>>
    <2>1. /\ main = "spawn" /\ main' = "construct" /\ cur' = cur /\ err' = err /\ failed' = failed
          /\ object' = [object EXCEPT ![cur] = "building"]
          /\ owner' = owner /\ signalled' = signalled
      BY <1>1 DEF At, Goto, Spawn
    <2>2. PICK garbage \in BOOLEAN : flag' = [flag EXCEPT ![cur] = garbage]
      BY <1>1 DEF Spawn
    <2>3. PICK place \in {FirstPlace(cur), "none"} : at' = [at EXCEPT ![cur] = place]
      BY <1>1 DEF Spawn
    <2>4. /\ place \in {"none", "setup", "top", "work"} /\ (place = "setup" => cur \in Watchers)
          /\ (cur = "integrity" => place \in {"none", "work"})
      BY <2>3 DEF FirstPlace, Watchers
    <2>5. ~ Known(cur)
      BY <1>a, <2>1 DEF PathInv, Earlier, Loops, Watchers
    <2>6. /\ at[cur] = "none" /\ ~ owner[cur]
          /\ at' \in [Loops -> Places] /\ at'[cur] = place
          /\ \A l \in Loops \ {cur} : at'[l] = at[l] /\ object'[l] = object[l] /\ flag'[l] = flag[l]
          /\ object'[cur] = "building"
      BY <1>a, <2>1, <2>2, <2>3, <2>4, <2>5 DEF Known, Places
    <2>7. TypeOK'
      <3>1. \A l \in Loops : object'[l] = "none" => at'[l] = "none"
        BY <1>a, <2>6 DEF TypeOK
      <3>2. console' # "none" => at'[console'] \in {"log", "killed"}
        BY <1>a, <1>c, <2>6 DEF TypeOK
      <3> QED BY <1>a, <1>b, <1>c, <2>1, <2>2, <2>6, <3>1, <3>2 DEF TypeOK
    <2>8. PathInv'
      <3>1. \A l \in Loops : l # cur => (Known(l)' => Known(l))
        BY <2>1, <2>6 DEF Known
      <3>2. \A l \in Loops : Known(l)' => l \in Earlier(cur) \cup {cur}
        BY <1>a, <2>1, <3>1 DEF PathInv
      <3>3. at'["antidebug"] # "none" => config.antidebug
        BY <1>a, <2>1, <2>6 DEF PathInv, Loops
      <3>4. cur = "antidebug" => config.antidebug
        BY <1>a, <2>1 DEF PathInv
      <3> QED BY <1>c, <2>1, <2>6, <3>2, <3>3, <3>4 DEF PathInv, Earlier
    <2>9. LoopInv'
      <3>1. at'["integrity"] \in {"none", "work"}
        BY <1>a, <2>4, <2>6 DEF LoopInv, Loops
      <3>2. \A l \in Loops : at'[l] = "setup" => l \in Watchers
        BY <1>a, <2>4, <2>6 DEF LoopInv
      <3>3. \A l \in Loops : flag'[l] => l \in signalled' \/ (main' = "construct" /\ cur' = l)
        BY <1>a, <2>1, <2>6 DEF LoopInv
      <3>4. \A l \in Loops : ~ Finished(l)' => owner'[l] \/ (main' \in {"construct", "assign"} /\ cur' = l)
        BY <1>a, <2>1, <2>6 DEF LoopInv, Finished
      <3> QED BY <3>1, <3>2, <3>3, <3>4 DEF LoopInv
    <2>10. EndInv'
      <3>1. \A l \in Loops : object'[l] = "deleted" => failed'
        BY <1>d, <2>1, <2>6
      <3> QED BY <2>1, <3>1 DEF EndInv
    <2>11. DeletedAfterEnd'
      BY <1>a, <2>6 DEF DeletedAfterEnd, Finished
    <2>12. StopMeansSignalled'
      BY <1>a, <2>1, <2>4, <2>6 DEF StopMeansSignalled
    <2> QED BY <1>c, <2>7, <2>8, <2>9, <2>10, <2>11, <2>12 DEF IInv
  <1>2. CASE At("construct") /\ Construct(cur) /\ Goto("assign") /\ UNCHANGED <<cur, err, failed>>
    <2>1. /\ main = "construct" /\ main' = "assign" /\ cur' = cur /\ err' = err /\ failed' = failed
          /\ object' = [object EXCEPT ![cur] = "live"] /\ flag' = [flag EXCEPT ![cur] = FALSE]
          /\ at' = at /\ owner' = owner /\ signalled' = signalled
      BY <1>2 DEF At, Goto, Construct
    <2>2. \A l \in Loops : /\ object'[l] \in {"live", object[l]} /\ (object[l] = "none" => object'[l] \in {"live", "none"})
                           /\ (flag'[l] => flag[l] /\ l # cur)
                           /\ (object'[l] = "none" => object[l] = "none")
      BY <1>a, <2>1
    <2>3. \A l \in Loops : (Known(l)' <=> Known(l)) /\ (Finished(l)' <=> Finished(l))
      BY <2>1 DEF Known, Finished
    <2>4. TypeOK'
      BY <1>a, <1>b, <1>c, <2>1, <2>2 DEF TypeOK
    <2>5. PathInv'
      BY <1>a, <1>c, <2>1, <2>3 DEF PathInv, Earlier
    <2>6. LoopInv'
      BY <1>a, <2>1, <2>2, <2>3 DEF LoopInv
    <2>7. EndInv'
      BY <1>d, <2>1, <2>2 DEF EndInv
    <2>8. DeletedAfterEnd' /\ StopMeansSignalled'
      BY <1>a, <2>1, <2>2, <2>3 DEF DeletedAfterEnd, StopMeansSignalled
    <2> QED BY <1>c, <2>4, <2>5, <2>6, <2>7, <2>8 DEF IInv
  <1>3. CASE At("assign") /\ Assign(cur) /\ AfterAssign
    <2>1. /\ main = "assign" /\ owner' = [owner EXCEPT ![cur] = TRUE]
          /\ at' = at /\ object' = object /\ flag' = flag /\ signalled' = signalled
      BY <1>3 DEF At, Assign
    <2>2. \/ cur = "integrity" /\ main' = "driver" /\ cur' = cur /\ err' = err /\ failed' = failed
          \/ cur = "recv" /\ main' = "launch" /\ cur' = cur /\ err' \in BOOLEAN /\ failed' = failed
          \/ cur = "recv" /\ Throw /\ err' \in BOOLEAN
          \/ cur = "monitor" /\ main' = "spawn" /\ cur' = "creation" /\ err' \in BOOLEAN /\ failed' = failed
          \/ cur = "monitor" /\ main' = "startdebug" /\ cur' = cur /\ err' \in BOOLEAN /\ failed' = failed
          \/ cur = "creation" /\ main' = "spawn" /\ cur' = "registry" /\ err' = err /\ failed' = failed
          \/ cur = "registry" /\ main' = "startdebug" /\ cur' = cur /\ err' = err /\ failed' = failed
          \/ cur = "antidebug" /\ main' = "parent" /\ cur' = cur /\ err' = err /\ failed' = failed
      BY <1>3, <1>a DEF AfterAssign, Goto, TypeOK, Loops, Watchers
    <2>3. owner'[cur] /\ \A l \in Loops \ {cur} : owner'[l] = owner[l]
      BY <1>a, <2>1
    <2>4. \A l \in Loops : Finished(l)' <=> Finished(l)
      BY <2>1 DEF Finished
    <2>5. \A l \in Loops : Known(l)' => l \in Earlier(cur) \cup {cur}
      BY <1>a, <2>1, <2>3 DEF PathInv, Known
    <2>6. /\ cur' \in Loops /\ err' \in BOOLEAN /\ failed' \in BOOLEAN /\ (failed => failed')
          /\ main' \in {"driver", "launch", "unwind", "spawn", "startdebug", "parent"}
          /\ (main' = "unwind" => failed')
      BY <1>a, <2>2 DEF TypeOK, Throw, Goto, Loops, Watchers
    <2>7. TypeOK'
      BY <1>a, <1>b, <1>c, <2>1, <2>6 DEF TypeOK
    <2>8. PathInv'
      <3>1. at'["antidebug"] # "none" => config.antidebug
        BY <1>a, <2>1 DEF PathInv
      <3>2. \/ main' = "driver" /\ \A l \in Loops : Known(l)' => l = "integrity"
            \/ main' = "launch" /\ \A l \in Loops : Known(l)' => l \in {"integrity", "recv"}
            \/ main' = "unwind"
            \/ main' = "spawn" /\ cur' # "antidebug" /\ \A l \in Loops : Known(l)' => l \in Earlier(cur)'
            \/ main' = "startdebug" /\ ~ Known("antidebug")'
            \/ main' = "parent"
        <4>1. CASE cur = "integrity"
          BY <2>2, <2>5, <4>1 DEF Earlier
        <4>2. CASE cur = "recv"
          BY <2>2, <2>5, <4>2 DEF Earlier, Throw, Goto
        <4>3. CASE cur = "monitor"
          <5>1. "antidebug" \in Loops
            BY DEF Loops
          <5> QED BY <2>2, <2>5, <4>3, <5>1 DEF Earlier
        <4>4. CASE cur = "creation"
          BY <2>2, <2>5, <4>4 DEF Earlier
        <4>5. CASE cur = "registry"
          <5>1. "antidebug" \in Loops
            BY DEF Loops
          <5> QED BY <2>2, <2>5, <4>5, <5>1 DEF Earlier
        <4>6. CASE cur = "antidebug"
          BY <2>2, <4>6
        <4> QED BY <2>2, <4>1, <4>2, <4>3, <4>4, <4>5, <4>6
      <3> QED BY <1>c, <3>1, <3>2 DEF PathInv, Earlier
    <2>9. LoopInv'
      BY <1>a, <2>1, <2>3, <2>4 DEF LoopInv
    <2>10. EndInv'
      <3>1. \A l \in Loops : object'[l] = "deleted" => failed'
        BY <1>d, <2>1, <2>6
      <3> QED BY <2>6, <3>1 DEF EndInv
    <2>11. DeletedAfterEnd' /\ StopMeansSignalled'
      BY <1>a, <2>1, <2>4 DEF DeletedAfterEnd, StopMeansSignalled
    <2> QED BY <1>c, <2>7, <2>8, <2>9, <2>10, <2>11 DEF IInv
  <1> QED BY <1>1, <1>2, <1>3 DEF StartThread

-----------------------------------------------------------------------------
(* The ways out.                                                              *)

(* FastCleanup and Cleanup go through the loops that somebody stops; Cleanup  *)
(* has joined those before the one it has come to.                            *)
LEMMA NextLoop ==
  ASSUME NEW l \in Others
  PROVE  /\ After("fast", l) \in Others \cup {"none"}
         /\ After("cleanup", l) \in Others \cup {"none"}
         /\ (After("cleanup", l) = "none" => Others = Joined(l) \cup {l})
         /\ (After("cleanup", l) # "none" => Joined(After("cleanup", l)) = Joined(l) \cup {l})
  <1>1. Others = {"antidebug", "monitor", "creation", "registry", "recv"} /\ "none" \notin Others
    BY DEF Others, Loops, Watchers
  <1>2. After("fast", l) \in Others \cup {"none"} /\ After("cleanup", l) \in Others \cup {"none"}
    BY <1>1, OrderFast, OrderCleanup
  <1>3. After("cleanup", l) = "none" => Others = Joined(l) \cup {l}
    BY <1>1, OrderCleanup DEF Joined
  <1>4. After("cleanup", l) # "none" => Joined(After("cleanup", l)) = Joined(l) \cup {l}
    <2>1. l = "antidebug" => Joined(After("cleanup", l)) = Joined(l) \cup {l}
      BY OrderCleanup DEF Joined
    <2>2. l = "monitor" => Joined(After("cleanup", l)) = Joined(l) \cup {l}
      BY OrderCleanup DEF Joined
    <2>3. l = "creation" => Joined(After("cleanup", l)) = Joined(l) \cup {l}
      BY OrderCleanup DEF Joined
    <2>4. l = "registry" => Joined(After("cleanup", l)) = Joined(l) \cup {l}
      BY OrderCleanup DEF Joined
    <2> QED BY <1>1, <2>1, <2>2, <2>3, <2>4, OrderCleanup
  <1> QED BY <1>2, <1>3, <1>4

(* A step of main that stops or deletes the current loop, or only goes on.    *)
LEMMA ExitKeeps ==
  ASSUME IInv, Running, MainOnly, main \in Ending \cup {"waiting", "splash"}, main' \in Ending \cup {"splash"},
         UNCHANGED threadVars \/ Signal(cur) \/ (Terminate(cur) /\ cur \in Others)
           \/ (Delete(cur) /\ main' \in {"unwind", "delete", "deleted", "exited"}),
         MainTypes', main' \in {"fast", "cleanup", "join"} => cur' \in Others,
         main' \in {"cleanup", "join"} => \A l \in Joined(cur') : Finished(l),
         main' = "cleaned" \/ (main' \in {"unwind", "delete", "deleted"} /\ ~ failed')
            => \A l \in Others : Finished(l),
         failed => failed',
         (\A l \in Loops : object[l] # "deleted") \/ failed \/ main' \in {"unwind", "delete", "deleted", "exited"}
  PROVE  IInv'
  <1>a. /\ TypeOK /\ PathInv /\ LoopInv /\ EndInv /\ DeletedAfterEnd /\ StopMeansSignalled
        /\ cur \in Loops /\ at \in [Loops -> Places]
        /\ object \in [Loops -> {"none", "building", "live", "deleted"}]
        /\ owner \in [Loops -> BOOLEAN] /\ flag \in [Loops -> BOOLEAN] /\ signalled \subseteq Loops
    BY DEF IInv, TypeOK
  <1>b. /\ crash' = NoCrash /\ PointersHold'
        /\ config' = config /\ console' = console /\ scan' = scan
    BY MainRuns
  <1>1. /\ at' \in [Loops -> Places] /\ object' \in [Loops -> {"none", "building", "live", "deleted"}]
        /\ owner' \in [Loops -> BOOLEAN] /\ flag' \in [Loops -> BOOLEAN]
        /\ signalled' \subseteq Loops /\ signalled \subseteq signalled'
    <2>1. CASE UNCHANGED threadVars
      BY <1>a, <2>1 DEF threadVars
    <2>2. CASE Signal(cur)
      BY <1>a, <2>2 DEF Signal
    <2>3. CASE Terminate(cur)
      BY <1>a, <2>3 DEF Terminate, Places
    <2>4. CASE Delete(cur)
      BY <1>a, <2>4 DEF Delete
    <2> QED BY <2>1, <2>2, <2>3, <2>4
  <1>2. \A l \in Loops : at'[l] = at[l] \/ (at'[l] = "killed" /\ ~ Finished(l) /\ l \in Others)
    <2>1. CASE UNCHANGED threadVars
      BY <2>1 DEF threadVars
    <2>2. CASE Signal(cur)
      BY <2>2 DEF Signal
    <2>3. CASE Terminate(cur) /\ cur \in Others
      BY <1>a, <2>3 DEF Terminate
    <2>4. CASE Delete(cur)
      BY <2>4 DEF Delete
    <2> QED BY <2>1, <2>2, <2>3, <2>4
  <1>3. \A l \in Loops : object'[l] = object[l] \/ (object'[l] = "deleted" /\ Finished(l) /\ main' \in {"unwind", "delete", "deleted", "exited"})
    <2>1. CASE UNCHANGED threadVars
      BY <2>1 DEF threadVars
    <2>2. CASE Signal(cur)
      BY <2>2 DEF Signal
    <2>3. CASE Terminate(cur)
      BY <2>3 DEF Terminate
    <2>4. CASE Delete(cur) /\ main' \in {"unwind", "delete", "deleted", "exited"}
      BY <1>a, <2>4 DEF Delete
    <2> QED BY <2>1, <2>2, <2>3, <2>4
  <1>4. \A l \in Loops : (owner[l] => owner'[l] \/ Finished(l)) /\ (flag'[l] => flag[l] \/ l \in signalled')
    <2>1. CASE UNCHANGED threadVars
      BY <2>1 DEF threadVars
    <2>2. CASE Signal(cur)
      BY <1>a, <2>2 DEF Signal
    <2>3. CASE Terminate(cur)
      BY <2>3 DEF Terminate
    <2>4. CASE Delete(cur)
      BY <1>a, <2>4 DEF Delete
    <2> QED BY <2>1, <2>2, <2>3, <2>4
  <1>5. \A l \in Loops : Finished(l) => Finished(l)'
    BY <1>2 DEF Finished
  <1>6. TypeOK'
    <2>1. \A l \in Loops : object'[l] = "none" => at'[l] = "none"
      BY <1>a, <1>2, <1>3 DEF TypeOK, Finished
    <2>2. console' # "none" => at'[console'] \in {"log", "killed"}
      BY <1>a, <1>b, <1>2 DEF TypeOK
    <2> QED BY <1>a, <1>b, <1>1, <2>1, <2>2 DEF TypeOK, MainTypes, Mains
  <1>7. PathInv'
    <2>1. at'["antidebug"] # "none" => at["antidebug"] # "none"
      BY <1>2 DEF Finished, Loops
    <2>2. main' \notin Starting
      BY DEF Starting, Ending
    <2> QED BY <2>1, <2>2, PathOver
  <1>8. LoopInv'
    <2>1. at'["integrity"] \in {"none", "work"}
      BY <1>a, <1>2 DEF LoopInv, Others, Loops
    <2>2. \A l \in Loops : at'[l] = "setup" => l \in Watchers
      BY <1>a, <1>2 DEF LoopInv
    <2>3. main \notin {"construct", "assign"}
      BY DEF Ending
    <2>4. \A l \in Loops : flag'[l] => l \in signalled'
      BY <1>a, <1>1, <1>4, <2>3 DEF LoopInv
    <2>5. \A l \in Loops : ~ Finished(l)' => owner'[l]
      BY <1>a, <1>4, <1>5, <2>3 DEF LoopInv
    <2> QED BY <2>1, <2>2, <2>4, <2>5 DEF LoopInv
  <1>9. EndInv'
    <2>1. Joined(cur') \subseteq Loops /\ Joined(cur)' = Joined(cur')
      BY DEF Joined, Loops, Watchers
    <2>2. \A l \in Loops : object'[l] = "deleted"
             => failed' \/ main' \in {"unwind", "delete", "deleted", "exited"}
      BY <1>3
    <2>3. main' \in {"cleanup", "join"} => \A l \in Joined(cur)' : Finished(l)'
      BY <1>5, <2>1
    <2>4. main' = "cleaned" \/ (main' \in {"unwind", "delete", "deleted"} /\ ~ failed')
            => \A l \in Others : Finished(l)'
      BY <1>5 DEF Others
    <2> QED BY <2>2, <2>3, <2>4 DEF EndInv, Others
  <1>10. DeletedAfterEnd'
    BY <1>a, <1>3, <1>5 DEF DeletedAfterEnd
  <1>11. StopMeansSignalled'
    BY <1>a, <1>1, <1>2 DEF StopMeansSignalled
  <1> QED BY <1>b, <1>6, <1>7, <1>8, <1>9, <1>10, <1>11 DEF IInv

LEMMA ExitsKeep ==
  ASSUME IInv,
         \/ Quit \/ FastCleanup \/ DeleteSplash \/ CleanupSignal \/ CleanupJoin \/ CleanupReturns
         \/ UnwindSignal \/ UnwindDelete \/ UnwindNext
  PROVE  IInv'
  <1>a. /\ MainTypes /\ PathInv /\ LoopInv /\ EndInv /\ cur \in Loops /\ owner \in [Loops -> BOOLEAN]
        /\ at \in [Loops -> Places]
    BY DEF IInv, TypeOK, MainTypes, Mains
  <1>b. /\ \A l \in Others : l \in Loops
        /\ "recv" \in Others /\ "antidebug" \in Others
        /\ Joined("antidebug") = {}
    BY DEF Loops, Watchers, Others, Joined
  <1>c. \A l \in Loops : object[l] = "deleted" => failed \/ main \in {"unwind", "delete", "deleted", "exited"}
    BY <1>a DEF EndInv
  <1>d. main = "cleaned" \/ (main \in {"unwind", "delete", "deleted"} /\ ~ failed) => \A l \in Others : Finished(l)
    BY <1>a DEF EndInv
  <1>1. CASE Quit
    <2>1. /\ Running /\ main = "waiting" /\ MainOnly /\ UNCHANGED threadVars
          /\ err' = err /\ failed' = failed /\ alive' = alive
          /\ \/ main' = "cleanup" /\ cur' = "antidebug" /\ driver' = driver
             \/ main' = "fast" /\ cur' = "recv" /\ driver' \in {"unloaded", "stuck", driver}
      BY <1>1, OrderFast, OrderCleanup DEF Quit, At, Goto, Enter, NoThreadStep, UnloadDriver
    <2>2. MainTypes'
      BY <1>a, <1>b, <2>1 DEF MainTypes, Mains
    <2> QED BY <1>b, <1>c, <2>1, <2>2, ExitKeeps DEF Ending
  <1>2. CASE FastCleanup
    <2>1. /\ Running /\ main = "fast" /\ MainOnly /\ cur \in Others
          /\ err' = err /\ failed' = failed /\ alive' = alive /\ driver' = driver
          /\ (UNCHANGED threadVars \/ Terminate(cur))
      BY <1>2, <1>a DEF FastCleanup, At, NoThreadStep, EndInv
    <2>2. \/ main' = "splash" /\ cur' = cur
          \/ main' = "fast" /\ cur' \in Others
      <3>1. Advance("fast", "splash")
        BY <1>2 DEF FastCleanup
      <3>2. After("fast", cur) \in Others \cup {"none"}
        BY <2>1, NextLoop
      <3> QED BY <3>1, <3>2 DEF Advance, Goto
    <2>3. MainTypes'
      BY <1>a, <1>b, <2>1, <2>2 DEF MainTypes, Mains
    <2>4. (\A l \in Loops : object[l] # "deleted") \/ failed
      BY <1>c, <2>1
    <2>5. CASE UNCHANGED threadVars
      BY <2>1, <2>2, <2>3, <2>4, <2>5, ExitKeeps DEF Ending
    <2>6. CASE Terminate(cur)
      BY <2>1, <2>2, <2>3, <2>4, <2>6, ExitKeeps DEF Ending
    <2> QED BY <2>1, <2>5, <2>6
  <1>3. CASE DeleteSplash
    <2>1. /\ Running /\ main = "splash" /\ MainOnly /\ UNCHANGED threadVars
          /\ err' = err /\ failed' = failed /\ alive' = alive
          /\ \/ main' = "exited" /\ cur' = cur /\ driver' = driver
             \/ main' = "cleanup" /\ cur' = "antidebug" /\ driver' \in {"unloaded", "stuck", driver}
      BY <1>3, OrderCleanup DEF DeleteSplash, At, Goto, Enter, NoThreadStep, UnloadDriver
    <2>2. MainTypes'
      BY <1>a, <1>b, <2>1 DEF MainTypes, Mains
    <2>3. (\A l \in Loops : object[l] # "deleted") \/ failed
      BY <1>c, <2>1
    <2>4. CASE main' = "exited"
      BY <2>1, <2>2, <2>3, <2>4, ExitKeeps DEF Ending
    <2>5. CASE main' = "cleanup" /\ cur' = "antidebug"
      BY <1>b, <2>1, <2>2, <2>3, <2>5, ExitKeeps DEF Ending
    <2> QED BY <2>1, <2>4, <2>5
  <1>4. CASE CleanupSignal
    <2>1. /\ Running /\ main = "cleanup" /\ MainOnly /\ cur \in Others
          /\ err' = err /\ failed' = failed /\ alive' = alive /\ driver' = driver
          /\ \A l \in Joined(cur) : Finished(l)
      BY <1>4, <1>a DEF CleanupSignal, At, EndInv
    <2>2. CASE Signal(cur) /\ Goto("join") /\ UNCHANGED cur
      <3>1. MainTypes'
        BY <1>a, <2>1, <2>2 DEF MainTypes, Mains, Goto
      <3>2. main' = "join" /\ cur' = cur
        BY <2>2 DEF Goto
      <3> QED BY <1>c, <2>1, <2>2, <3>1, <3>2, ExitKeeps DEF Ending
    <2>3. CASE /\ ~ (owner[cur] /\ (cur = "antidebug" => config.antidebug))
               /\ UNCHANGED threadVars /\ Advance("cleanup", "cleaned")
      <3>1. Finished(cur)
        BY <1>a, <2>1, <2>3 DEF LoopInv, PathInv, Finished
      <3>2. \/ main' = "cleaned" /\ cur' = cur /\ \A l \in Others : Finished(l)
            \/ main' = "cleanup" /\ cur' \in Others /\ \A l \in Joined(cur') : Finished(l)
        BY <2>1, <2>3, <3>1, NextLoop DEF Advance, Goto
      <3>3. MainTypes'
        BY <1>a, <1>b, <2>1, <3>2 DEF MainTypes, Mains
      <3> QED BY <1>b, <1>c, <2>1, <2>3, <3>2, <3>3, ExitKeeps DEF Ending
    <2> QED BY <1>4, <2>2, <2>3 DEF CleanupSignal, NoThreadStep
  <1>5. CASE CleanupJoin
    <2>1. /\ Running /\ main = "join" /\ MainOnly /\ cur \in Others
          /\ err' = err /\ failed' = failed /\ alive' = alive /\ driver' = driver
          /\ \A l \in Joined(cur) : Finished(l)
          /\ Finished(cur) /\ UNCHANGED threadVars /\ Advance("cleanup", "cleaned")
      BY <1>5, <1>a DEF CleanupJoin, At, EndInv, Join
    <2>2. \/ main' = "cleaned" /\ cur' = cur /\ \A l \in Others : Finished(l)
          \/ main' = "cleanup" /\ cur' \in Others /\ \A l \in Joined(cur') : Finished(l)
      BY <2>1, NextLoop DEF Advance, Goto
    <2>3. MainTypes'
      BY <1>a, <1>b, <2>1, <2>2 DEF MainTypes, Mains
    <2> QED BY <1>b, <1>c, <2>1, <2>2, <2>3, ExitKeeps DEF Ending
  <1>6. CASE CleanupReturns
    <2>1. /\ Running /\ main = "cleaned" /\ MainOnly /\ UNCHANGED threadVars
          /\ err' = err /\ failed' = failed /\ driver' = driver /\ alive' \subseteq alive
          /\ main' = "unwind" /\ cur' = "antidebug"
      BY <1>6, OrderUnwind DEF CleanupReturns, At, Goto, Enter, NoThreadStep
    <2>2. MainTypes'
      BY <1>a, <1>b, <2>1 DEF MainTypes, Mains
    <2> QED BY <1>d, <2>1, <2>2, ExitKeeps DEF Ending
  <1>7. CASE UnwindSignal
    <2>1. /\ Running /\ main = "unwind" /\ MainOnly /\ (UNCHANGED threadVars \/ Signal(cur))
          /\ err' = err /\ failed' = failed /\ driver' = driver /\ alive' = alive
          /\ main' \in {"delete", "deleted"} /\ cur' = cur
      BY <1>7 DEF UnwindSignal, At, Goto, NoThreadStep
    <2>2. MainTypes'
      BY <1>a, <2>1 DEF MainTypes, Mains
    <2> QED BY <1>d, <2>1, <2>2, ExitKeeps DEF Ending
  <1>8. CASE UnwindDelete
    <2>1. /\ Running /\ main = "delete" /\ MainOnly /\ Delete(cur)
          /\ err' = err /\ failed' = failed /\ driver' = driver /\ alive' = alive
          /\ main' = "deleted" /\ cur' = cur
      BY <1>8 DEF UnwindDelete, At, Goto
    <2>2. MainTypes'
      BY <1>a, <2>1 DEF MainTypes, Mains
    <2> QED BY <1>d, <2>1, <2>2, ExitKeeps DEF Ending
  <1>9. CASE UnwindNext
    <2>1. /\ Running /\ main = "deleted" /\ MainOnly /\ UNCHANGED threadVars
          /\ err' = err /\ failed' = failed /\ driver' = driver /\ alive' \subseteq alive
          /\ Advance("unwind", AfterUnwind)
      BY <1>9 DEF UnwindNext, At, NoThreadStep
    <2>2. /\ cur' \in Loops
          /\ (main' \in {"unwind", "exited"} \/ (main' = "splash" /\ failed))
      BY <1>a, <2>1, OrderUnwind DEF Advance, Goto, AfterUnwind
    <2>3. MainTypes'
      BY <1>a, <2>1, <2>2 DEF MainTypes, Mains
    <2>4. CASE main' \in {"unwind", "exited"}
      BY <1>d, <2>1, <2>3, <2>4, ExitKeeps DEF Ending
    <2>5. CASE main' = "splash" /\ failed
      BY <2>1, <2>3, <2>5, ExitKeeps DEF Ending
    <2> QED BY <2>2, <2>4, <2>5
  <1> QED BY <1>1, <1>2, <1>3, <1>4, <1>5, <1>6, <1>7, <1>8, <1>9

LEMMA ScanKeeps ==
  ASSUME IInv, Scan
  PROVE  IInv'
  <1>1. /\ UNCHANGED <<at, object, owner, flag, signalled>>
        /\ UNCHANGED <<config, main, cur, err, failed, driver, alive, console>>
        /\ scan' \in {"idle", "running"}
        /\ (crash' = NoCrash \/ crash' = <<"dangling", "scan">>)
    BY DEF Scan, Running, mainVars, threadVars
  <1>2. \A l \in Loops : (Finished(l)' <=> Finished(l)) /\ (Known(l)' <=> Known(l))
    BY <1>1 DEF Finished, Known
  <1>3. Joined(cur) \subseteq Loops
    BY DEF Joined, Loops, Watchers
  <1>4. TypeOK'
    BY <1>1 DEF IInv, TypeOK, NoCrash
  <1>5. PathInv'
    BY <1>1, <1>2 DEF IInv, PathInv, Earlier, Loops
  <1>6. LoopInv'
    BY <1>1, <1>2 DEF IInv, LoopInv
  <1>7. EndInv'
    BY <1>1, <1>2, <1>3 DEF IInv, EndInv, Joined, Others
  <1>8. DeletedAfterEnd' /\ StopMeansSignalled'
    BY <1>1, <1>2 DEF IInv, DeletedAfterEnd, StopMeansSignalled
  <1>9. PointersHold'
    BY <1>1 DEF PointersHold, NoCrash
  <1> QED BY <1>4, <1>5, <1>6, <1>7, <1>8, <1>9 DEF IInv

LEMMA StutterKeeps ==
  ASSUME IInv, UNCHANGED vars
  PROVE  IInv'
  <1>1. /\ UNCHANGED <<at, object, owner, flag, signalled>>
        /\ UNCHANGED <<config, main, cur, err, failed, driver, alive, console, scan, crash>>
    BY DEF vars, mainVars, threadVars
  <1>2. TypeOK' /\ PathInv'
    BY <1>1 DEF IInv, TypeOK, PathInv, Earlier, Known
  <1>3. LoopInv' /\ EndInv'
    BY <1>1 DEF IInv, LoopInv, EndInv, Joined, Finished
  <1>4. DeletedAfterEnd' /\ StopMeansSignalled' /\ PointersHold'
    BY <1>1 DEF IInv, DeletedAfterEnd, StopMeansSignalled, PointersHold, Finished
  <1> QED BY <1>2, <1>3, <1>4 DEF IInv

LEMMA StepKeeps == IInv /\ [Next]_vars => IInv'
  <1> SUFFICES ASSUME IInv, [Next]_vars PROVE IInv'
    OBVIOUS
  <1>1. CASE MainStep
    BY <1>1, BuildKeeps, StartKeeps, ExitsKeep DEF MainStep
  <1>2. CASE Quit
    BY <1>2, ExitsKeep
  <1>3. CASE Scan
    BY <1>3, ScanKeeps
  <1>4. CASE \E l \in Loops : LoopStep(l)
    BY <1>4, LoopKeeps
  <1>5. CASE UNCHANGED vars
    BY <1>5, StutterKeeps
  <1> QED BY <1>1, <1>2, <1>3, <1>4, <1>5 DEF Next

LEMMA Always == Spec => []IInv
  <1> QED BY InvInit, StepKeeps, PTL DEF Spec

-----------------------------------------------------------------------------
(* The theorems. *)

(* Types of the wrappers, of main and of the loops, for any configurations    *)
(* the client may be started with; only a loop that logs, or was terminated   *)
(* while it logged, holds the console.                                        *)
THEOREM TypeCorrect == Spec => []TypeOK
  <1>1. IInv => TypeOK
    BY DEF IInv
  <1> QED BY <1>1, Always, PTL

(* Thread.hpp:60: whichever way the client ends (Cleanup, FastCleanup, or the *)
(* unwinding of a constructor that failed at any place), no wrapper is        *)
(* deleted while its thread runs.                                             *)
THEOREM NoneDeletedRunning == Spec => []DeletedAfterEnd
  <1>1. IInv => DeletedAfterEnd
    BY DEF IInv
  <1> QED BY <1>1, Always, PTL

(* Although ShutdownSignalled holds anything when the thread starts           *)
(* (Thread.hpp:33), no loop stops before somebody has asked it to.            *)
THEOREM NoneStopsUnasked == Spec => []StopMeansSignalled
  <1>1. IInv => StopMeansSignalled
    BY DEF IInv
  <1> QED BY <1>1, Always, PTL

(* A loop finds its wrapper's pointer null only in the moment of its own      *)
(* start, and no loop uses a deleted wrapper once the constructor has         *)
(* succeeded.                                                                 *)
THEOREM PointersAlwaysHold == Spec => []PointersHold
  <1>1. IInv => PointersHold
    BY DEF IInv
  <1> QED BY <1>1, Always, PTL
==============================================================================
