-------------------------------- MODULE HwScan --------------------------------
(***************************************************************************)
(* AntiDebug/AntiDebugger.cpp: once a second the anti-debugger creates a   *)
(* thread that runs _IsHardwareDebuggerPresent, which suspends the other   *)
(* threads of the process one after the other to read their debug          *)
(* registers, and logs what it finds while the thread is still suspended.  *)
(* Nothing keeps two such scans apart.  Meanwhile the other threads log,   *)
(* under Logger::consoleMutex, and the main thread asks                    *)
(* AntiCheat::IsAnyThreadSuspended, which suspends and resumes the         *)
(* detection threads to learn their suspend counts, and prints.            *)
(*                                                                         *)
(* Formatting and printing take locks of the C runtime, of the heap and of *)
(* stdout, under the console mutex and without it.  A log call needs all   *)
(* of them, so one lock stands for them.  A printing call returns: a       *)
(* console that somebody has stopped by hand is left out.                  *)
(*                                                                         *)
(* A suspended thread takes no step, except that a call of SuspendThread   *)
(* it has already entered completes: that is why two threads can suspend   *)
(* each other.  The locks of AddFlagged, which a scan takes only while it  *)
(* keeps nobody suspended, are left out.                                   *)
(***************************************************************************)
EXTENDS Naturals, Sequences, FiniteSets

CONSTANTS Main,         \* the thread of main()
          AntiDebug,    \* the thread of CheckForDebugger
          Workers,      \* the other detection threads
          Scans,        \* the scans created during a behaviour
          NoThread,     \* a lock is free
          Checked,      \* the threads IsAnyThreadSuspended asks about, in order
          ContextOf     \* what GetThreadContext may find in each live thread

Loggers   == Workers \cup {AntiDebug}
Examiners == Scans \cup {Main}
Threads   == Loggers \cup Examiners
Contexts  == {"clear", "set", "failed"}

ASSUME DistinctThreads == /\ Main \notin Loggers \cup Scans
                          /\ Loggers \cap Scans = {}
                          /\ NoThread \notin Threads
ASSUME FiniteScans == IsFiniteSet(Scans)
ASSUME CheckedAssumption == Checked \in Seq(Loggers) /\ Checked # <<>>
ASSUME ContextAssumption == ContextOf \in [Threads -> SUBSET Contexts]

VARIABLES pc,            \* where each thread stands
          suspends,      \* the suspend count Windows keeps for each thread
          consoleMutex,  \* the thread that holds it, or NoThread
          runtime,       \* the holder of the C runtime's locks, or NoThread
          target,        \* the thread an examiner has opened; a scan: itself for none
          found,         \* what GetThreadContext gave a scan; main: "set" when
                         \* SuspendThread returned a count above zero
          left,          \* the threads of a scan's snapshot still to visit
          checkIt        \* the position of IsAnyThreadSuspended in Checked

vars == <<pc, suspends, consoleMutex, runtime, target, found, left, checkIt>>

Init ==
  /\ pc = [t \in Threads |-> IF t \in Scans THEN "none" ELSE
                             IF t = Main THEN "calling" ELSE "run"]
  /\ suspends = [t \in Threads |-> 0]
  /\ consoleMutex = NoThread
  /\ runtime = NoThread
  /\ target = [e \in Examiners |-> IF e = Main THEN Checked[1] ELSE e]
  /\ found = [e \in Examiners |-> "clear"]
  /\ left = [s \in Scans |-> {}]
  /\ checkIt = 1

Alive(t) == pc[t] \notin {"none", "done"}
Runs(t)  == Alive(t) /\ suspends[t] = 0
Goto(t, label) == pc' = [pc EXCEPT ![t] = label]

-----------------------------------------------------------------------------
(* Logger::log and logw.                                                   *)

\* A detection thread has something to log.
Log(t) ==
  /\ pc[t] = "run" /\ Runs(t)
  /\ Goto(t, "lock")
  /\ UNCHANGED <<suspends, consoleMutex, runtime, target, found, left, checkIt>>

LockConsole(t) ==
  /\ pc[t] = "lock" /\ Runs(t)
  /\ consoleMutex = NoThread
  /\ consoleMutex' = t
  /\ Goto(t, "log")
  /\ UNCHANGED <<suspends, runtime, target, found, left, checkIt>>

\* Building the line, the log file and printf, with the mutex held.
WriteLine(t) ==
  /\ pc[t] = "log" /\ Runs(t)
  /\ runtime = NoThread
  /\ runtime' = t
  /\ Goto(t, "print")
  /\ UNCHANGED <<suspends, consoleMutex, target, found, left, checkIt>>

\* Where a thread continues: a scan has its thread still suspended, unless it
\* logged that the thread could not be opened.
AfterLog(t) == IF t \in Loggers THEN "run" ELSE
               IF t = Main THEN "alarmed" ELSE
               IF found[t] = "gone" THEN "pick" ELSE "resume"

UnlockConsole(t) ==
  /\ pc[t] = "print" /\ Runs(t)
  /\ consoleMutex' = NoThread
  /\ runtime' = NoThread
  /\ Goto(t, AfterLog(t))
  /\ UNCHANGED <<suspends, target, found, left, checkIt>>

\* Memory allocated, or std::cout used, without the console mutex: by a detection
\* thread at any time, by main once its check has passed, by a scan that adds
\* what it found to the list of flags.
EnterRuntime(t) ==
  /\ pc[t] \in {"run", "passed", "found"} /\ Runs(t)
  /\ runtime = NoThread
  /\ runtime' = t
  /\ Goto(t, "inside")
  /\ UNCHANGED <<suspends, consoleMutex, target, found, left, checkIt>>

LeaveRuntime(t) ==
  /\ pc[t] = "inside" /\ Runs(t)
  /\ runtime' = NoThread
  /\ Goto(t, IF t \in Loggers THEN "run" ELSE IF t = Main THEN "told" ELSE "done")
  /\ UNCHANGED <<suspends, consoleMutex, target, found, left, checkIt>>

-----------------------------------------------------------------------------
(* CheckForDebugger and _IsHardwareDebuggerPresent.                        *)

\* CreateThread, whether or not earlier scans have ended.
StartScan(s) ==
  /\ pc[AntiDebug] = "run" /\ Runs(AntiDebug)
  /\ pc[s] = "none"
  /\ Goto(s, "begin")
  /\ UNCHANGED <<suspends, consoleMutex, runtime, target, found, left, checkIt>>

\* CreateToolhelp32Snapshot: every thread of the process but this one.
TakeSnapshot(s) ==
  /\ pc[s] = "begin" /\ Runs(s)
  /\ left' = [left EXCEPT ![s] = {t \in Threads \ {s} : Alive(t)}]
  /\ Goto(s, "pick")
  /\ UNCHANGED <<suspends, consoleMutex, runtime, target, found, checkIt>>

\* OpenThread, which fails, and is logged, for a thread that has ended.
PickThread(s) ==
  /\ pc[s] = "pick" /\ Runs(s)
  /\ \E t \in left[s] :
       /\ left' = [left EXCEPT ![s] = @ \ {t}]
       /\ \/ /\ Alive(t)
             /\ target' = [target EXCEPT ![s] = t]
             /\ found' = [found EXCEPT ![s] = "clear"]
             /\ Goto(s, "calling")
          \/ /\ ~ Alive(t)
             /\ found' = [found EXCEPT ![s] = "gone"]
             /\ Goto(s, "lock")
             /\ UNCHANGED target
  /\ UNCHANGED <<suspends, consoleMutex, runtime, checkIt>>

\* SuspendThread completes also when the caller is itself suspended meanwhile;
\* it does nothing to a thread that has ended.
SuspendTarget(s) ==
  /\ pc[s] = "calling"
  /\ suspends' = [suspends EXCEPT ![target[s]] = IF Alive(target[s]) THEN @ + 1 ELSE @]
  /\ Goto(s, "context")
  /\ UNCHANGED <<consoleMutex, runtime, target, found, left, checkIt>>

\* GetThreadContext.  A register that is set, and a failure, are logged now.
ContextForgetsResume(s) ==
  /\ pc[s] = "context" /\ Runs(s)
  /\ \E c \in IF Alive(target[s]) THEN ContextOf[target[s]] ELSE {"failed"} :
       /\ found' = [found EXCEPT ![s] = IF c = "failed" THEN "gone" ELSE c]
       /\ Goto(s, IF c = "clear" THEN "resume" ELSE "lock")
  /\ UNCHANGED <<suspends, consoleMutex, runtime, target, left, checkIt>>

ReadContext(s) ==
  /\ pc[s] = "context" /\ Runs(s)
  /\ \E c \in IF Alive(target[s]) THEN ContextOf[target[s]] ELSE {"failed"} :
       /\ found' = [found EXCEPT ![s] = c]
       /\ Goto(s, IF c = "clear" THEN "resume" ELSE "lock")
  /\ UNCHANGED <<suspends, consoleMutex, runtime, target, left, checkIt>>

\* ResumeThread.  A scan that found a register set adds the flag and ends.
ResumeTwice(s) ==
  /\ pc[s] = "resume" /\ Runs(s)
  /\ suspends' = [suspends EXCEPT ![target[s]] = IF ~ Alive(target[s]) THEN @ ELSE
                                                 IF found[s] = "failed" THEN @ - 2 ELSE @ - 1]
  /\ Goto(s, IF found[s] = "set" THEN "found" ELSE "pick")
  /\ target' = [target EXCEPT ![s] = s]
  /\ found' = [found EXCEPT ![s] = "clear"]
  /\ UNCHANGED <<consoleMutex, runtime, left, checkIt>>

ResumeTarget(s) ==
  /\ pc[s] = "resume" /\ Runs(s)
  /\ suspends' = [suspends EXCEPT ![target[s]] = IF Alive(target[s]) THEN @ - 1 ELSE @]
  /\ Goto(s, IF found[s] = "set" THEN "found" ELSE "pick")
  /\ target' = [target EXCEPT ![s] = s]
  /\ found' = [found EXCEPT ![s] = "clear"]
  /\ UNCHANGED <<consoleMutex, runtime, left, checkIt>>

EndScan(s) ==
  /\ pc[s] = "pick" /\ Runs(s)
  /\ left[s] = {}
  /\ Goto(s, "done")
  /\ UNCHANGED <<suspends, consoleMutex, runtime, target, found, left, checkIt>>

-----------------------------------------------------------------------------
(* IsAnyThreadSuspended, called once by main.                              *)

\* Thread::IsThreadSuspended: SuspendThread returns the count it found ...
CheckOwnSuspend ==
  /\ pc[Main] = "calling"
  /\ suspends' = [suspends EXCEPT ![target[Main]] = @ + 1]
  /\ found' = [found EXCEPT ![Main] = IF suspends'[target[Main]] > 0 THEN "set" ELSE "clear"]
  /\ Goto(Main, "resume")
  /\ UNCHANGED <<consoleMutex, runtime, target, left, checkIt>>

CheckSuspend ==
  /\ pc[Main] = "calling"
  /\ suspends' = [suspends EXCEPT ![target[Main]] = @ + 1]
  /\ found' = [found EXCEPT ![Main] = IF suspends[target[Main]] > 0 THEN "set" ELSE "clear"]
  /\ Goto(Main, "resume")
  /\ UNCHANGED <<consoleMutex, runtime, target, left, checkIt>>

\* ... and the thread is resumed; a count above zero is logged as a detection
\* and ends the check (and the program).
CheckResume ==
  /\ pc[Main] = "resume" /\ Runs(Main)
  /\ suspends' = [suspends EXCEPT ![target[Main]] = @ - 1]
  /\ \/ /\ found[Main] = "set"
        /\ Goto(Main, "lock")
        /\ UNCHANGED <<target, checkIt>>
     \/ /\ found[Main] = "clear" /\ checkIt < Len(Checked)
        /\ checkIt' = checkIt + 1
        /\ target' = [target EXCEPT ![Main] = Checked[checkIt + 1]]
        /\ Goto(Main, "calling")
     \/ /\ found[Main] = "clear" /\ checkIt = Len(Checked)
        /\ Goto(Main, "passed")
        /\ UNCHANGED <<target, checkIt>>
  /\ UNCHANGED <<consoleMutex, runtime, found, left>>

-----------------------------------------------------------------------------
Logging(t) == LockConsole(t) \/ WriteLine(t) \/ UnlockConsole(t)

InRuntime(t) == EnterRuntime(t) \/ LeaveRuntime(t)

Scanning(s) == TakeSnapshot(s) \/ PickThread(s) \/ SuspendTarget(s)
               \/ ReadContext(s) \/ ResumeTarget(s) \/ EndScan(s)

Next == \/ \E t \in Loggers : Log(t)
        \/ \E t \in Threads : Logging(t) \/ InRuntime(t)
        \/ \E s \in Scans : StartScan(s) \/ Scanning(s)
        \/ CheckSuspend \/ CheckResume

Spec == Init /\ [][Next]_vars

\* A thread that may run again and again is scheduled, and neither the mutex nor
\* a lock of the runtime starves anybody who waits for it to log.  Nothing has to
\* be logged or allocated, and no scan has to be created.
Fairness == /\ \A t \in Loggers : SF_vars(Logging(t) \/ LeaveRuntime(t))
            /\ \A s \in Scans : SF_vars(Logging(s) \/ Scanning(s) \/ LeaveRuntime(s))
            /\ SF_vars(Logging(Main) \/ CheckSuspend \/ CheckResume \/ LeaveRuntime(Main))

FairSpec == Spec /\ Fairness

-----------------------------------------------------------------------------
(* Properties.                                                             *)

TypeOK ==
  /\ pc \in [Threads -> {"none", "begin", "pick", "calling", "context", "resume",
                         "found", "done", "run", "lock", "log", "print", "inside",
                         "passed", "told", "alarmed"}]
  /\ suspends \in [Threads -> 0..Cardinality(Examiners)]
  /\ consoleMutex \in Threads \cup {NoThread}
  /\ runtime \in Threads \cup {NoThread}
  /\ target \in [Examiners -> Threads]
  /\ found \in [Examiners -> Contexts \cup {"gone"}]
  /\ left \in [Scans -> SUBSET Threads]
  /\ checkIt \in DOMAIN Checked

\* An examiner stands between SuspendThread and ResumeThread.
InWindow(e) ==
  \/ pc[e] \in {"context", "resume"}
  \/ e \in Scans /\ pc[e] \in {"lock", "log", "print"} /\ found[e] \in {"set", "failed"}

Holds(e, t) == InWindow(e) /\ target[e] = t /\ Alive(t)

\* Every SuspendThread has its ResumeThread on every path, errors included: a
\* thread is suspended exactly as often as examiners stand before their
\* ResumeThread for it.
SuspendsBalanced == \A t \in Threads :
  suspends[t] = Cardinality({e \in Examiners : Holds(e, t)})

\* t cannot go on before u does.
WaitsFor(t, u) == \/ u \in Examiners /\ Holds(u, t)
                  \/ pc[t] = "lock" /\ consoleMutex = u
                  \/ pc[t] = "log" /\ runtime = u

\* Threads that wait for one another in a circle: scans that suspended each
\* other, or an examiner that wants to log and keeps, itself or through others,
\* the thread that holds the console mutex or is inside the runtime.
Knot == \E C \in SUBSET Threads \ {{}} : \A t \in C : \E u \in C : WaitsFor(t, u)

\* A suspended thread runs again, unless threads wait for one another in a
\* circle of suspensions, the console mutex and the runtime's locks.
SuspendedRunsAgain == \A t \in Threads :
  suspends[t] > 0 ~> (suspends[t] = 0 \/ Knot)

\* IsThreadSuspended does not take its own suspension, or that of another
\* thread, for a finding: what it reports was suspended by a scan.
AlarmMeansSuspended ==
  [][ pc[Main] = "calling" /\ pc'[Main] = "resume" /\ found'[Main] = "set"
      => \E s \in Scans : Holds(s, target[Main]) ]_vars
=============================================================================
