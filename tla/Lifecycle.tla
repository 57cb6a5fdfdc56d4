------------------------------- MODULE Lifecycle -------------------------------
(***************************************************************************)
(* The client from main() to its end: the constructor of AntiCheat         *)
(* (Core/AntiCheat.cpp, and Core/AntiCheatLib.cpp for the library), which  *)
(* builds the components and starts their threads one after the other, and *)
(* may throw on the way; the loops of those threads, as far as they look   *)
(* at their shutdown flag, at each other's wrappers and at the console     *)
(* mutex; FastCleanup, Cleanup and the destructors.                        *)
(*                                                                         *)
(* The program's path goes on to main.cpp's "Cleanup:" label; the library  *)
(* is destroyed by AntiCheat::Destroy.  Allocation failures and an         *)
(* Integrity constructor that throws are left out; whoever embeds the      *)
(* library is assumed to catch AntiCheatInitFail and to go on.             *)
(***************************************************************************)
EXTENDS ManagedThread

CONSTANT Configs   \* the settings the client may be started with
ASSUME ConfigsAssumption ==
  Configs \subseteq [library : BOOLEAN, driver : BOOLEAN, net : BOOLEAN,
                     antidebug : BOOLEAN, checkThreads : BOOLEAN]

VARIABLES config,   \* the settings of this run
          main,     \* where the main thread stands
          cur,      \* the loop it is starting or stopping
          err,      \* errorCode of Initialize or LaunchDefenses is not OK
          failed,   \* the constructor has thrown
          driver,   \* the kernel driver: "none", "loaded", "unloaded", "stuck"
          alive,    \* which of AntiDebugger and Evidence exist
          console,  \* the loop that holds Logger::consoleMutex, or "none"
          scan,     \* the hardware-register scan: "idle", "running"
          crash     \* the access violation that ended the process

mainVars == <<main, cur, err, failed, driver, alive>>
vars == <<threadVars, config, mainVars, console, scan, crash>>

NoCrash == <<"no", "none">>
Running == crash = NoCrash /\ main # "exited"

Init ==
  /\ ThreadsInit
  /\ config \in Configs
  /\ main = "checks" /\ cur = "integrity"
  /\ err = FALSE /\ failed = FALSE
  /\ driver = "none" /\ alive = {}
  /\ console = "none" /\ scan = "idle" /\ crash = NoCrash

At(label)   == Running /\ main = label
Goto(label) == main' = label

\* Threads are left, config never changes, and main never holds the console.
MainOnly == UNCHANGED <<config, console, scan, crash>>
NoThreadStep == UNCHANGED threadVars

-----------------------------------------------------------------------------
(* The constructor.                                                        *)

\* A throw unwinds what has been built, in Impl or AntiCheat: the destructors
\* of the members run, the destructor of the class does not.
Throw == /\ failed' = TRUE
         /\ Goto("unwind")
         /\ cur' = "antidebug"

\* DoPreInitializeChecks; then NetClient, EvidenceLocker, DebuggerDetections
\* and Detections, whose Integrity starts the first thread.
PreInitialize ==
  /\ At("checks")
  /\ \/ Goto("spawn") /\ alive' = {"AntiDebugger", "Evidence"} /\ UNCHANGED failed
     \/ Goto(IF config.library THEN "exited" ELSE "splash") /\ failed' = TRUE /\ UNCHANGED alive
  /\ UNCHANGED <<cur, err, driver>>
  /\ MainOnly /\ NoThreadStep

LoadDriver ==
  /\ At("driver")
  /\ \/ ~ config.driver /\ Goto("initialize") /\ UNCHANGED <<driver, failed, cur>>
     \/ config.driver /\ Goto("initialize") /\ driver' = "loaded" /\ UNCHANGED <<failed, cur>>
     \/ config.driver /\ Throw /\ UNCHANGED driver   \* not found, unsigned, not loaded
  /\ UNCHANGED <<err, alive>>
  /\ MainOnly /\ NoThreadStep

\* A parent that is not allowed is an error, but the session is opened all the
\* same; connect or the hello may fail before the receive thread is started.
Initialize ==
  /\ At("initialize")
  /\ \E parentOk, connected \in BOOLEAN :
       IF config.net /\ connected
       THEN /\ err' = ~ parentOk
            /\ Goto("spawn") /\ cur' = "recv"
            /\ UNCHANGED failed
       ELSE /\ err' = (~ parentOk \/ config.net)
            /\ IF err' THEN Throw ELSE Goto("launch") /\ UNCHANGED <<cur, failed>>
  /\ UNCHANGED <<driver, alive>>
  /\ MainOnly /\ NoThreadStep

\* What follows `new Thread(...)` of the current loop.  Both NetClient and
\* StartMonitor look at the id, which is 0 when no thread was created.
AfterAssign ==
  LET started == at[cur] # "none" IN
  CASE cur = "integrity" -> Goto("driver") /\ UNCHANGED <<cur, err, failed>>
    [] cur = "recv" ->
         /\ err' = (err \/ ~ started)
         /\ IF err' THEN Throw ELSE Goto("launch") /\ UNCHANGED <<cur, failed>>
    [] cur = "monitor" ->
         /\ err' = (err \/ ~ started)
         /\ IF started THEN Goto("spawn") /\ cur' = "creation"
                       ELSE Goto("startdebug") /\ UNCHANGED cur
         /\ UNCHANGED failed
    [] cur = "creation" -> Goto("spawn") /\ cur' = "registry" /\ UNCHANGED <<err, failed>>
    [] cur = "registry" -> Goto("startdebug") /\ UNCHANGED <<cur, err, failed>>
    [] cur = "antidebug" -> Goto("parent") /\ UNCHANGED <<cur, err, failed>>

StartThread ==
  /\ \/ At("spawn") /\ Spawn(cur) /\ Goto("construct") /\ UNCHANGED <<cur, err, failed>>
     \/ At("construct") /\ Construct(cur) /\ Goto("assign") /\ UNCHANGED <<cur, err, failed>>
     \/ At("assign") /\ Assign(cur) /\ AfterAssign
  /\ UNCHANGED <<driver, alive>>
  /\ MainOnly

\* LaunchDefenses up to StartMonitor: DeployBarrier may fail.
DeployBarrier ==
  /\ At("launch")
  /\ err' \in BOOLEAN
  /\ Goto("spawn") /\ cur' = "monitor"
  /\ UNCHANGED <<failed, driver, alive>>
  /\ MainOnly /\ NoThreadStep

StartAntiDebugThread ==
  /\ At("startdebug")
  /\ IF config.antidebug THEN Goto("spawn") /\ cur' = "antidebug"
                         ELSE Goto("parent") /\ UNCHANGED cur
  /\ UNCHANGED <<err, failed, driver, alive>>
  /\ MainOnly /\ NoThreadStep

\* The end of LaunchDefenses and of the constructor.
CheckParent ==
  /\ At("parent")
  /\ \E parentOk \in BOOLEAN :
       /\ err' = (err \/ ~ parentOk)
       /\ IF err' THEN Throw ELSE Goto("built") /\ UNCHANGED <<cur, failed>>
  /\ UNCHANGED <<driver, alive>>
  /\ MainOnly /\ NoThreadStep

-----------------------------------------------------------------------------
(* main() after the constructor, and the ways out.                         *)

Order(phase) ==
  CASE phase = "fast"    -> <<"recv", "antidebug", "monitor", "creation", "registry">>
    [] phase = "cleanup" -> <<"antidebug", "monitor", "creation", "registry", "recv">>
    [] phase = "unwind"  -> <<"antidebug", "monitor", "registry", "creation", "recv", "integrity">>

\* The members go in the reverse of their declarations: AntiDebugger, then
\* Monitor with its three threads, its share of NetClient and its Integrity.
After(phase, l) ==
  LET order == Order(phase)
      i == CHOOSE n \in DOMAIN order : order[n] = l
  IN  IF i = Len(order) THEN "none" ELSE order[i + 1]

Enter(phase) == Goto(phase) /\ cur' = Order(phase)[1]

\* On to the next loop of a phase, or to what follows the phase.
Advance(phase, then) ==
  IF After(phase, cur) = "none" THEN Goto(then) /\ UNCHANGED cur
  ELSE Goto(phase) /\ cur' = After(phase, cur)

\* IsAnyThreadSuspended may say so (HwScan); the program then skips FastCleanup.
CheckThreads ==
  /\ At("built")
  /\ \/ Goto("waiting")
     \/ config.checkThreads /\ ~ config.library /\ Goto("splash")
  /\ UNCHANGED <<cur, err, failed, driver, alive>>
  /\ MainOnly /\ NoThreadStep

\* UnloadDriver: it fails when the service cannot be opened, stopped or deleted,
\* and does nothing to a driver that is gone.
UnloadDriver ==
  IF config.driver /\ driver # "unloaded" THEN driver' \in {"unloaded", "stuck"}
                                          ELSE UNCHANGED driver

\* 'q' is entered and FastCleanup begins; a user of the library calls Destroy,
\* which goes to Cleanup and leaves the driver alone.
Quit ==
  /\ At("waiting")
  /\ IF config.library THEN Enter("cleanup") /\ UNCHANGED driver
                       ELSE Enter("fast") /\ UnloadDriver
  /\ UNCHANGED <<err, failed, alive>>
  /\ MainOnly /\ NoThreadStep

\* One `if` of FastCleanup.  EndConnection precedes the termination of the
\* receive thread.
FastCleanup ==
  /\ At("fast")
  /\ IF /\ owner[cur]
        /\ cur = "recv" => config.net
        /\ cur = "antidebug" => config.antidebug
     THEN Terminate(cur)
     ELSE NoThreadStep
  /\ Advance("fast", "splash")
  /\ UNCHANGED <<err, failed, driver, alive>>
  /\ MainOnly

\* The label Cleanup: the splash thread's wrapper is deleted, which logs, and
\* the unique_ptr reset; it is null when the constructor threw.
DeleteSplash ==
  /\ At("splash")
  /\ console = "none"
  /\ IF failed THEN Goto("exited") /\ UNCHANGED <<cur, driver>>
               ELSE Enter("cleanup") /\ UnloadDriver
  /\ UNCHANGED <<err, failed, alive>>
  /\ MainOnly /\ NoThreadStep

CleanupForgets ==  \* a mutated form: Cleanup does not know the registry thread
  /\ At("cleanup")
  /\ IF owner[cur] /\ cur # "registry" /\ (cur = "antidebug" => config.antidebug)
     THEN Signal(cur) /\ Goto("join") /\ UNCHANGED cur
     ELSE NoThreadStep /\ Advance("cleanup", "cleaned")
  /\ UNCHANGED <<err, failed, driver, alive>>
  /\ MainOnly

\* One `if` of Cleanup: signal, then join.
CleanupSignal ==
  /\ At("cleanup")
  /\ IF owner[cur] /\ (cur = "antidebug" => config.antidebug)
     THEN Signal(cur) /\ Goto("join") /\ UNCHANGED cur
     ELSE NoThreadStep /\ Advance("cleanup", "cleaned")
  /\ UNCHANGED <<err, failed, driver, alive>>
  /\ MainOnly

CleanupJoin ==
  /\ At("join") /\ Join(cur)
  /\ Advance("cleanup", "cleaned")
  /\ UNCHANGED <<err, failed, driver, alive>>
  /\ MainOnly

\* ~AntiCheat logs the result; ~Impl deletes the evidence locker.
CleanupReturns ==
  /\ At("cleaned")
  /\ \/ config.library /\ alive' = alive \ {"Evidence"}
     \/ ~ config.library /\ console = "none" /\ UNCHANGED alive
  /\ Enter("unwind")
  /\ UNCHANGED <<err, failed, driver>>
  /\ MainOnly /\ NoThreadStep

-----------------------------------------------------------------------------
(* The destructors of the members.                                         *)

AfterUnwind == IF failed /\ ~ config.library THEN "splash" ELSE "exited"

\* ~AntiDebug and ~Integrity signal first; ~Thread logs first.
UnwindSignal ==
  /\ At("unwind")
  /\ IF ~ owner[cur] THEN NoThreadStep /\ Goto("deleted")
     ELSE /\ cur \notin {"antidebug", "integrity"} => console = "none"
          /\ IF Finished(cur) THEN NoThreadStep ELSE Signal(cur)
          /\ Goto("delete")
  /\ UNCHANGED <<cur, err, failed, driver, alive>>
  /\ MainOnly

\* They join and then delete the wrapper, which logs.
UnwindDelete ==
  /\ At("delete")
  /\ cur \in {"antidebug", "integrity"} => console = "none"
  /\ Delete(cur)
  /\ Goto("deleted")
  /\ UNCHANGED <<cur, err, failed, driver, alive>>
  /\ MainOnly

\* With its thread, AntiDebugger is gone.
UnwindNext ==
  /\ At("deleted")
  /\ alive' = IF cur = "antidebug" THEN alive \ {"AntiDebugger"} ELSE alive
  /\ Advance("unwind", AfterUnwind)
  /\ UNCHANGED <<err, failed, driver>>
  /\ MainOnly /\ NoThreadStep

MainStep ==
  \/ PreInitialize \/ LoadDriver \/ Initialize \/ StartThread \/ DeployBarrier
  \/ StartAntiDebugThread \/ CheckParent \/ CheckThreads \/ FastCleanup
  \/ DeleteSplash \/ CleanupSignal \/ CleanupJoin \/ CleanupReturns
  \/ UnwindSignal \/ UnwindDelete \/ UnwindNext

-----------------------------------------------------------------------------
(* The loops.                                                              *)

Live(l, place)  == Running /\ at[l] = place
Move(l, place)  == at' = [at EXCEPT ![l] = place]
Crash(kind, l)  == crash' = <<kind, l>> /\ UNCHANGED <<threadVars, console, scan>>
LoopOnly        == UNCHANGED <<config, mainVars>>
KeepWrappers    == UNCHANGED <<object, owner, flag, signalled>>

\* MonitorProcessCreation and MonitorImportantRegistryKeys test the pointer.
Guarded(l) == l \in Watchers

\* A watcher fails to set up COM, or to open or register a key, and returns.
SetUp(l) ==
  /\ Live(l, "setup")
  /\ \E place \in {"top", "ended"} : Move(l, place)
  /\ LoopOnly /\ KeepWrappers /\ UNCHANGED <<console, scan, crash>>

IgnoreFlag(l) ==  \* a mutated form: like the integrity loop, none reads its flag
  /\ Live(l, "top")
  /\ IF owner[l] \/ Guarded(l)
     THEN Move(l, "work") /\ KeepWrappers /\ UNCHANGED <<console, scan, crash>>
     ELSE Crash("null", l)
  /\ LoopOnly

\* The head of a loop.  The monitor and the anti-debugger log that they stop;
\* the others just return.
ReadFlag(l) ==
  /\ Live(l, "top")
  /\ IF owner[l] THEN
       IF object[l] = "deleted" THEN Crash("dangling", l)
       ELSE /\ IF flag[l]
               THEN Move(l, IF l \in {"monitor", "antidebug"} THEN "stopping" ELSE "ended")
               ELSE Move(l, "work")
            /\ KeepWrappers /\ UNCHANGED <<console, scan, crash>>
     ELSE IF Guarded(l) THEN Move(l, "work") /\ KeepWrappers /\ UNCHANGED <<console, scan, crash>>
     ELSE Crash("null", l)
  /\ LoopOnly

\* One pass.  A watcher that saw no event goes straight back; recv() returns
\* data, or an error that ends the loop.  The anti-debugger creates a scan
\* (here: if the last one has ended).  The integrity loop stays at its work
\* for ever; what it logs is left out, since nobody terminates it.
Work(l) ==
  /\ Live(l, "work") /\ l # "integrity"
  /\ \E place \in CASE l \in Watchers  -> {"top", "tick"}
                    [] l = "recv"       -> {"top", "ended"}
                    [] OTHER            -> {"top"} : Move(l, place)
  /\ scan' = IF l = "antidebug" THEN "running" ELSE scan
  /\ LoopOnly /\ KeepWrappers /\ UNCHANGED <<console, crash>>

\* Logger::log, in the course of a pass that found something.
LockConsole(l) ==
  /\ Live(l, "work") /\ l # "integrity" /\ console = "none"
  /\ console' = l
  /\ Move(l, "log")
  /\ LoopOnly /\ KeepWrappers /\ UNCHANGED <<scan, crash>>

LogKeepsConsole(l) ==  \* a mutated form: an early return of log() leaves the mutex locked
  /\ Live(l, "log")
  /\ Move(l, IF l \in Watchers THEN "tick" ELSE "top")
  /\ LoopOnly /\ KeepWrappers /\ UNCHANGED <<console, scan, crash>>

UnlockConsole(l) ==
  /\ Live(l, "log")
  /\ console' = "none"
  /\ Move(l, IF l \in Watchers THEN "tick" ELSE "top")
  /\ LoopOnly /\ KeepWrappers /\ UNCHANGED <<scan, crash>>

\* A watcher ends its pass with UpdateTick on the monitor thread's wrapper.
Tick(l) ==
  /\ Live(l, "tick")
  /\ IF owner["monitor"] /\ object["monitor"] = "deleted" THEN Crash("dangling", l)
     ELSE Move(l, "top") /\ KeepWrappers /\ UNCHANGED <<console, scan, crash>>
  /\ LoopOnly

\* "STOPPING Detections::Monitor", "Shutting down Debugger detection thread".
LogStop(l) ==
  /\ Live(l, "stopping") /\ console = "none"
  /\ Move(l, "ended")
  /\ LoopOnly /\ KeepWrappers /\ UNCHANGED <<console, scan, crash>>

\* _IsHardwareDebuggerPresent ends; if it has found something, it first calls
\* AddFlagged of AntiDebugger and of its EvidenceManager.
Scan ==
  /\ Running /\ scan = "running"
  /\ \/ scan' = "idle" /\ UNCHANGED crash
     \/ /\ alive # {"AntiDebugger", "Evidence"}
        /\ crash' = <<"dangling", "scan">> /\ UNCHANGED scan
  /\ UNCHANGED <<config, mainVars, threadVars, console>>

LoopStep(l) ==
  \/ SetUp(l) \/ ReadFlag(l) \/ Work(l) \/ LockConsole(l) \/ UnlockConsole(l)
  \/ Tick(l) \/ LogStop(l)

Next == \/ MainStep \/ Quit \/ Scan
        \/ \E l \in Loops : LoopStep(l)

\* Main and the loops are scheduled, and a thread that waits for the console
\* gets it if it is free again and again.  Nobody has to enter 'q', and the
\* server has to send nothing: recv() need not return.
Fairness == /\ SF_vars(MainStep) /\ WF_vars(Scan)
            /\ \A l \in Loops \ {"recv", "integrity"} : SF_vars(LoopStep(l))
            /\ WF_vars(ReadFlag("recv")) /\ WF_vars(UnlockConsole("recv"))

Spec == Init /\ [][Next]_vars /\ Fairness

-----------------------------------------------------------------------------
(* Properties.                                                             *)

\* Types; a thread runs only if its wrapper is being built or has been, and
\* the console is held by a loop that is logging, or that was terminated.
TypeOK ==
  /\ at \in [Loops -> Places]
  /\ object \in [Loops -> {"none", "building", "live", "deleted"}]
  /\ owner \in [Loops -> BOOLEAN] /\ flag \in [Loops -> BOOLEAN]
  /\ signalled \subseteq Loops
  /\ config \in Configs /\ cur \in Loops
  /\ main \in {"checks", "spawn", "construct", "assign", "driver", "initialize",
              "launch", "startdebug", "parent", "built", "waiting", "fast", "splash",
              "cleanup", "join", "cleaned", "unwind", "delete", "deleted", "exited"}
  /\ err \in BOOLEAN /\ failed \in BOOLEAN
  /\ driver \in {"none", "loaded", "unloaded", "stuck"}
  /\ alive \subseteq {"AntiDebugger", "Evidence"}
  /\ console \in Loops \cup {"none"} /\ scan \in {"idle", "running"}
  /\ crash \in {NoCrash} \cup ({"null", "dangling"} \X (Loops \cup {"scan"}))
  /\ \A l \in Loops : object[l] = "none" => at[l] = "none"
  /\ console # "none" => at[console] \in {"log", "killed"}

\* Thread.hpp:60: no wrapper is deleted while its thread runs, whichever of
\* the ways out led there: destructors after Cleanup, after FastCleanup, or
\* while a failed constructor is unwound.
DeletedAfterEnd == \A l \in Loops : object[l] = "deleted" => Finished(l)

\* The flag is stored after the thread was started and holds anything before.
\* Nevertheless no loop stops unless it was told to: the owner's pointer,
\* through which a loop reads its flag, is set later still.
StopMeansSignalled ==
  \A l \in Loops \ {"recv"} :
    at[l] = "stopping" \/ (at[l] = "ended" /\ l \notin Watchers) => l \in signalled

\* No thread uses a pointer to a wrapper outside the wrapper's life.  A loop
\* that dereferences its own unguarded can do so before the pointer is set,
\* but only in the moment of its own start, and never one of the loops that
\* test it (Detections.cpp:894, 1089).  Once the constructor has succeeded, no
\* loop uses a wrapper after its deletion: whether the threads were terminated
\* (FastCleanup) or signalled and joined (Cleanup), they are gone when the
\* destructors run.  Of a failed constructor this is not true (the watchers
\* tick the monitor's wrapper, deleted first), nor of the scans, which nobody
\* joins.
PointersHold ==
  /\ crash[1] = "null" => /\ ~ Guarded(crash[2])
                          /\ main \in {"construct", "assign"} /\ cur = crash[2]
  /\ crash[1] = "dangling" => failed \/ crash[2] = "scan"

\* A loop that dies with the console mutex keeps it.
ConsoleLost == console # "none" /\ at[console] = "killed"

\* Nobody has tried to unload the driver (AntiCheat.cpp:132, 214).
DriverLeft == driver = "loaded" /\ ~ failed /\ ~ config.library

\* After 'q', main tries to unload the driver and then comes to its end, or to
\* the join of the integrity loop, which never looks at its flag; unless a
\* mutex is lost to a terminated thread or the process dies, nothing else stops
\* it, so every other loop that is told to stop does.  (Of the library: or to
\* the join of a receive loop the server leaves alone.)
Leaving == main \in {"fast", "cleanup"}
JoinsIntegrity == main = "delete" /\ cur = "integrity"
JoinsReceiver == main = "join" /\ cur = "recv"
QuitStopsOnlyThere ==
  Leaving ~> \/ crash # NoCrash \/ ConsoleLost
             \/ ~ DriverLeft /\ (main = "exited" \/ JoinsIntegrity \/ JoinsReceiver)

\* main.cpp:213: "Please enter 'q' if you'd like to end the program."  Even if
\* no thread is terminated while it logs, it does not end.
QuitEnds == [](~ ConsoleLost) => (main = "fast" ~> ~ Running)
================================================================================
