----------------------------- MODULE EventLogger -----------------------------
(***************************************************************************)
(* GameEvents/EventLogger: game threads log events into a queue, one worker *)
(* thread sends them to an HTTP endpoint.  The worker keeps mtx locked for  *)
(* a whole pass, and SendDataToServer, which nobody else may call, locks it *)
(* again on the same thread: undefined for a std::mutex, whose lock throws  *)
(* or blocks then (relock, fixed by the build).  Nothing behind that lock   *)
(* is ever reached, so posting, retrying and requeueing are not modelled.   *)
(***************************************************************************)
EXTENDS Sequences

CONSTANTS Callers,      \* threads of the game that log events
          Worker,       \* the thread of the constructor
          Events,       \* events that may be logged, each by one call
          Valid,        \* those with details, player and timestamp
          None

VARIABLES
  relock,    \* what the build's mutex does when its owner locks it again
  endpoint,  \* ServerEndpoint is set
  running,
  owner,     \* who holds mtx
  queue,     \* eventQueue
  wpc,       \* where the worker is
  call,      \* the call of LogEvent each game thread is in
  main,      \* the thread that runs the destructor
  begun      \* history: the events for which LogEvent has been called

vars == <<relock, endpoint, running, owner, queue, wpc, call, main, begun>>

Idle == [pc |-> "idle", event |-> None]

Init ==
  /\ relock \in {"blocks", "throws"}
  /\ endpoint = FALSE /\ running = TRUE
  /\ owner = None /\ queue = <<>>
  /\ wpc = "loop"
  /\ call = [c \in Callers |-> Idle]
  /\ main = "running"
  /\ begun = {}

(* An exception that leaves the worker's thread ends the program. *)
Alive == wpc # "terminated"

-----------------------------------------------------------------------------
(* The game: SetEndpoint before the first event, as the class asks for, then  *)
(* LogEvent from any thread; at the end the destructor of the singleton.      *)

SetEndpoint ==
  /\ Alive /\ main = "running" /\ begun = {} /\ ~endpoint
  /\ endpoint' = TRUE
  /\ UNCHANGED <<relock, running, owner, queue, wpc, call, main, begun>>

LogEvent(c, e) ==
  /\ Alive /\ main = "running" /\ call[c].pc = "idle" /\ e \notin begun
  /\ call' = [call EXCEPT ![c] = [pc |-> "lock", event |-> e]]
  /\ begun' = begun \cup {e}
  /\ UNCHANGED <<relock, endpoint, running, owner, queue, wpc, main>>

LockToLog(c) ==
  /\ Alive /\ call[c].pc = "lock" /\ owner = None
  /\ owner' = c
  /\ call' = [call EXCEPT ![c].pc = "emplace"]
  /\ UNCHANGED <<relock, endpoint, running, queue, wpc, main, begun>>

Emplace(c) ==
  /\ Alive /\ call[c].pc = "emplace"
  /\ queue' = Append(queue, call[c].event)
  /\ owner' = None
  /\ call' = [call EXCEPT ![c] = Idle]
  /\ UNCHANGED <<relock, endpoint, running, wpc, main, begun>>

Destroy ==
  /\ Alive /\ main = "running" /\ \A c \in Callers : call[c].pc = "idle"
  /\ running' = FALSE
  /\ main' = "joining"
  /\ UNCHANGED <<relock, endpoint, owner, queue, wpc, call, begun>>

Join ==
  /\ main = "joining" /\ wpc = "exited"
  /\ main' = "destroyed"
  /\ UNCHANGED <<relock, endpoint, running, owner, queue, wpc, call, begun>>

-----------------------------------------------------------------------------
(* The worker. *)

TestRunning ==
  /\ wpc = "loop"
  /\ wpc' = IF running THEN "lock" ELSE "exited"
  /\ UNCHANGED <<relock, endpoint, running, owner, queue, call, main, begun>>

(* Nothing to send, or no endpoint: the pass is over and mtx is given back. *)
LockPass ==
  /\ wpc = "lock" /\ owner = None
  /\ IF queue = <<>> \/ ~endpoint
     THEN wpc' = "sleep" /\ UNCHANGED owner
     ELSE wpc' = "take" /\ owner' = Worker
  /\ UNCHANGED <<relock, endpoint, running, queue, call, main, begun>>

(* SendDataToServer locks what its thread already holds. *)
LockAgain ==
  /\ wpc = "take"
  /\ wpc' = IF relock = "blocks" THEN "stuck" ELSE "terminated"
  /\ UNCHANGED <<relock, endpoint, running, owner, queue, call, main, begun>>

Wake ==
  /\ wpc = "sleep"
  /\ wpc' = "loop"
  /\ UNCHANGED <<relock, endpoint, running, owner, queue, call, main, begun>>

WorkerStep == TestRunning \/ LockPass \/ LockAgain \/ Wake

Next ==
  \/ SetEndpoint \/ Destroy \/ Join
  \/ \E c \in Callers : LockToLog(c) \/ Emplace(c) \/ \E e \in Events : LogEvent(c, e)
  \/ WorkerStep

(* Threads are scheduled and the mutex starves nobody; nobody has to log, or  *)
(* to destroy the logger.                                                     *)
Fairness ==
  /\ WF_vars(WorkerStep) /\ SF_vars(LockPass)
  /\ \A c \in Callers : SF_vars(LockToLog(c)) /\ WF_vars(Emplace(c))
  /\ WF_vars(Join)

Spec == Init /\ [][Next]_vars /\ Fairness

-----------------------------------------------------------------------------
Queued(e) == \E i \in DOMAIN queue : queue[i] = e

(* What the comment of SendDataToServer promises: the queue is pushed to the  *)
(* endpoint.  A valid event in the queue leaves it, unless the logger is      *)
(* destroyed or has no endpoint.                                              *)
EventsPushed ==
  \A e \in Valid : Queued(e) ~> (~Queued(e) \/ ~running \/ ~endpoint)
=============================================================================
