------------------------------- MODULE Session -------------------------------
(***************************************************************************)
(* The game clients and the server together: NetClient and AnticheatServer *)
(* over the connections of Link.                                           *)
(***************************************************************************)
EXTENDS NetClient, AnticheatServer

vars == <<link, client, serverVars>>

Init == LinkInit /\ ClientInit /\ ServerInit

\* An action of a client changes no variable of the server, and conversely.
ClientStep(c) ==
  /\ \/ Initialize(c) \/ ProcessRequests(c) \/ RecvError(c)
     \/ FlagCheater(c) \/ EndConnection(c) \/ Die(c)
  /\ UNCHANGED serverVars

ReadStep(c) ==
  /\ \/ EndReadData(c) \/ EndReadEOF(c) \/ EndReadThrows(c) \/ FindClient(c)
     \/ HandleHello(c) \/ HandleHeartbeat(c) \/ HandleFlagged(c)
     \/ HandleGoodbye(c) \/ HandleEOF(c) \/ Remove(c) \/ Rearm(c) \/ BeginFirstRead(c)
  /\ UNCHANGED client

WorkerStep(c) ==
  /\ WorkerWakes(c) \/ WorkerWrites(c) \/ WorkerWriteThrows(c) \/ WorkerClears(c)
  /\ UNCHANGED client

Next == \/ \E c \in Clients : \/ ClientStep(c) \/ ReadStep(c) \/ WorkerStep(c)
                              \/ HandleClientConnected(c) /\ UNCHANGED client
        \/ Stop /\ UNCHANGED client

Spec == Init /\ [][Next]_vars

\* The server's read callbacks are scheduled.
CallbackFairness == \A c \in Clients : WF_vars(ReadStep(c))

\* So are its accept callback and its workers and the recv thread, and the
\* network delivers; nobody has to connect, flag, leave, die or stop.
Fairness == CallbackFairness /\ \A c \in Clients :
  /\ WF_vars(ProcessRequests(c) /\ UNCHANGED serverVars)
  /\ WF_vars(WorkerStep(c))
  /\ WF_vars(HandleClientConnected(c) /\ UNCHANGED client)

FairSpec == Spec /\ Fairness
CallbackFairSpec == Spec /\ CallbackFairness

-----------------------------------------------------------------------------
(* Properties.                                                             *)

TypeOK == LinkTypeOK /\ ClientTypeOK /\ ServerTypeOK

\* An honest client is never refused for a wrong cookie, and its answer never
\* indexes past the saved cookies: when the callback has a heartbeat in hand,
\* that cookie is the one it will compare with.
AnswersMatch == \A c \in Clients :
  reader[c] = "handle" /\ got[c].op = "CS_HEARTBEAT"
    => /\ current_heartbeat_count[c] < heartbeat_responses[c]
       /\ got[c].arg = current_heartbeat_count[c] + 1

\* A client has one heartbeat worker at a time: a callback that finds
\* in_heartbeat_loop false queues a worker when no other is queued or running.
OneWorker == \A c \in Clients : worker[c] # "none" => in_heartbeat_loop[c]

\* As long as no two changes of the list have overlapped, a callback of a
\* client finds that client in the list: it is added before its first read is
\* begun, and stays until its last has been handled.
CallbackFindsClient == \A c \in Clients :
  server = "running" /\ ~raced /\ reader[c] \notin {"none", "adding"} => c \in clients

\* A client that said goodbye or whose process died leaves the list in the
\* end or is dropped, unless the server has ended, its list was torn by
\* overlapping changes, or the client's system answered a write behind its end
\* with a reset: then the read throws and the client stays.
DeadClientForgotten == \A c \in Clients :
  (c \in clients /\ clientEnd[c] = "closed")
    ~> \/ c \notin clients \/ serverEnd[c] = "closed"
       \/ clientEnd[c] = "reset" \/ raced \/ server # "running"

\* Heartbeats go on as long as the session does: "Send something to client
\* every 60 seconds after receiving the first piece of data"
\* (Server/Network/Server.cs:140).
HeartbeatsGoOn == \A c \in Clients :
  in_heartbeat_loop[c] ~> \/ heartbeat_responses[c] = MaxHeartbeats[c]
                          \/ clientEnd[c] # "open" \/ serverEnd[c] # "open"
                          \/ server # "running"

\* The server survives a flag without a description: HandleClientFlaggedCheater
\* has a branch for an "unknown/not added reason" (Server/Network/Handlers.cs:72).
FlagsSurvived == server # "KeyNotFound"

-----------------------------------------------------------------------------
(* The session of a client implements Heartbeats: the cookies saved are the  *)
(* given ones, the count of the comparisons passed the answered ones, until  *)
(* the server process ends or drops the connection.                          *)
Ended(c) == server # "running" \/ serverEnd[c] = "closed"

Beating(c) == INSTANCE Heartbeats
  WITH given <- IF Ended(c) THEN 0 ELSE heartbeat_responses[c],
       answered <- IF Ended(c) THEN 0 ELSE current_heartbeat_count[c],
       over <- Ended(c)

\* The server gives a client a cookie only after the one before it was answered
\* and the answer accepted.
BeatsInTurn == [][\A c \in Clients : Beating(c)!Next \/ UNCHANGED Beating(c)!beats]_vars
=============================================================================
