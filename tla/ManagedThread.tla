----------------------------- MODULE ManagedThread -----------------------------
(***************************************************************************)
(* Process/Thread.hpp: the class every long-lived thread of the client is  *)
(* wrapped in.  Its constructor starts the std::thread first and stores    *)
(* ShutdownSignalled and, in the owner, the pointer to the wrapper after   *)
(* that; its destructor signals the thread and joins it.                   *)
(***************************************************************************)
EXTENDS Naturals, Sequences, FiniteSets

\* The threads, by the loop each of them runs.
Watchers == {"creation", "registry"}
Loops    == Watchers \cup {"monitor", "antidebug", "recv", "integrity"}

VARIABLES at,        \* the place of each loop; "none" while it has no thread
          object,    \* the wrapper: "none", "building", "live", "deleted"
          owner,     \* whether the owner's pointer to the wrapper is set
          flag,      \* ShutdownSignalled
          signalled  \* the loops somebody has asked to stop (history)

threadVars == <<at, object, owner, flag, signalled>>

Places == {"none", "setup", "top", "work", "log", "tick", "stopping",
           "ended", "killed"}

ThreadsInit ==
  /\ at = [l \in Loops |-> "none"]
  /\ object = [l \in Loops |-> "none"]
  /\ owner = [l \in Loops |-> FALSE]
  /\ flag = [l \in Loops |-> FALSE]
  /\ signalled = {}

Finished(l) == at[l] \in {"none", "ended", "killed"}

\* The watchers first set up COM or the registry keys; PeriodicIntegrityCheck
\* has nothing to look at before its work.
FirstPlace(l) == IF l \in Watchers THEN "setup" ELSE
                 IF l = "integrity" THEN "work" ELSE "top"

SpawnPublishes(l) ==  \* a mutated form: the owner's pointer is stored before the thread starts
  /\ object' = [object EXCEPT ![l] = "building"]
  /\ \E garbage \in BOOLEAN : flag' = [flag EXCEPT ![l] = garbage]
  /\ at' = [at EXCEPT ![l] = FirstPlace(l)]
  /\ owner' = [owner EXCEPT ![l] = TRUE]
  /\ UNCHANGED signalled

\* BeginExecution: the thread runs at once, or could not be created.  The
\* member ShutdownSignalled has no initializer and holds anything until then.
Spawn(l) ==
  /\ object' = [object EXCEPT ![l] = "building"]
  /\ \E garbage \in BOOLEAN : flag' = [flag EXCEPT ![l] = garbage]
  /\ \E place \in {FirstPlace(l), "none"} : at' = [at EXCEPT ![l] = place]
  /\ UNCHANGED <<owner, signalled>>

\* The last statement of the constructor.
Construct(l) ==
  /\ flag' = [flag EXCEPT ![l] = FALSE]
  /\ object' = [object EXCEPT ![l] = "live"]
  /\ UNCHANGED <<at, owner, signalled>>

\* The owner stores what `new Thread` or make_unique<Thread> returned.
Assign(l) ==
  /\ owner' = [owner EXCEPT ![l] = TRUE]
  /\ UNCHANGED <<at, object, flag, signalled>>

\* SignalShutdown(true), also as the destructor stores the flag itself.
Signal(l) ==
  /\ flag' = [flag EXCEPT ![l] = TRUE]
  /\ signalled' = signalled \cup {l}
  /\ UNCHANGED <<at, object, owner>>

\* JoinThread: t.join() returns when the thread has ended, however it did.
Join(l) ==
  /\ Finished(l)
  /\ UNCHANGED threadVars

\* TerminateThread, which an ended thread ignores.
Terminate(l) ==
  /\ at' = IF Finished(l) THEN at ELSE [at EXCEPT ![l] = "killed"]
  /\ UNCHANGED <<object, owner, flag, signalled>>

DeleteRunning(l) ==  \* a mutated form: the destructor gives up after ten seconds
  /\ object' = [object EXCEPT ![l] = "deleted"]
  /\ owner' = [owner EXCEPT ![l] = @ /\ l \notin {"antidebug", "integrity"}]
  /\ UNCHANGED <<at, flag, signalled>>

\* The end of ~Thread, after its wait of ten seconds and its join.  A
\* unique_ptr that is reset no longer points to it; a raw pointer still does.
Delete(l) ==
  /\ Finished(l)
  /\ object' = [object EXCEPT ![l] = "deleted"]
  /\ owner' = [owner EXCEPT ![l] = @ /\ l \notin {"antidebug", "integrity"}]
  /\ UNCHANGED <<at, flag, signalled>>
================================================================================
