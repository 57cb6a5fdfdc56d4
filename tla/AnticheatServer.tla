--------------------------- MODULE AnticheatServer ---------------------------
(***************************************************************************)
(* Server/Network/Server.cs, Handlers.cs and AntiCheatClient.cs: accept    *)
(* and read callbacks, and the thread-pool workers that send heartbeats.   *)
(* Callbacks of different clients and workers run on pool threads at the   *)
(* same time and share the list `clients` without a lock.  An exception    *)
(* that leaves a callback or a worker ends the server process.             *)
(***************************************************************************)
EXTENDS Link

CONSTANTS MaxHeartbeats   \* bound: heartbeats sent to each client

ASSUME MaxHeartbeatsAssumption == MaxHeartbeats \in [Clients -> Nat]

VARIABLES
  server,                  \* "running", "stopped", or the exception that ended it
  accepting,               \* a BeginAcceptTcpClient is outstanding
  clients,                 \* the AntiCheatClients in the list
  raced,                   \* two changes of the list have overlapped: from then on
                           \* it may lack entries, have one twice, or a null one
  reader,                  \* per client: where its HandleMessageReceived is
  got,                     \* per client: the packet its callback looks at
  disturbed,               \* callbacks whose foreach over `clients` is invalidated
  worker,                  \* per client: where its queued heartbeat worker is
  in_heartbeat_loop,
  heartbeat_responses,     \* number of cookies saved: cookie n is the n-th
  current_heartbeat_count

counts == <<heartbeat_responses, current_heartbeat_count>>
records == <<in_heartbeat_loop, counts>>
list == <<clients, raced>>
serverVars == <<server, accepting, list, reader, got, disturbed, worker, records>>

EOF == [op |-> "EOF", arg |-> 0]   \* EndRead returned 0

ServerInit ==
  /\ server = "running" /\ accepting = TRUE
  /\ clients = {} /\ raced = FALSE
  /\ reader = [c \in Clients |-> "none"]
  /\ got = [c \in Clients |-> EOF]
  /\ disturbed = {}
  /\ worker = [c \in Clients |-> "none"]
  /\ in_heartbeat_loop = [c \in Clients |-> FALSE]
  /\ heartbeat_responses = [c \in Clients |-> 0]
  /\ current_heartbeat_count = [c \in Clients |-> 0]

\* The process ends, and its memory with it.
ServerEnds(why) ==
  /\ server' = why /\ accepting' = FALSE
  /\ clients' = {} /\ raced' = FALSE
  /\ reader' = [c \in Clients |-> "none"]
  /\ got' = [c \in Clients |-> EOF]
  /\ disturbed' = {}
  /\ worker' = [c \in Clients |-> "none"]
  /\ in_heartbeat_loop' = [c \in Clients |-> FALSE]
  /\ heartbeat_responses' = [c \in Clients |-> 0]
  /\ current_heartbeat_count' = [c \in Clients |-> 0]
  /\ CloseAll
  /\ UNCHANGED <<toClient, clientEnd>>

Exceptions == {"KeyNotFound", "CollectionModified", "NullReference", "IndexOutOfRange",
               "NotConnected", "WriteFailed", "DisconnectFailed"}

ServerTypeOK ==
  /\ server \in {"running", "stopped"} \cup Exceptions
  /\ accepting \in BOOLEAN
  /\ clients \subseteq Clients /\ raced \in BOOLEAN
  /\ reader \in [Clients -> {"none", "adding", "pending", "search", "handle", "rearm",
                             "removing"}]
  /\ got \in [Clients -> Packet(CS) \cup {EOF}]
  /\ disturbed \subseteq Clients
  /\ worker \in [Clients -> {"none", "sleep", "write", "clear"}]
  /\ in_heartbeat_loop \in [Clients -> BOOLEAN]
  /\ heartbeat_responses \in [Clients -> Nat]
  /\ current_heartbeat_count \in [Clients -> Nat]

\* The flags the server has a description of: AddDetectionDictionary, which
\* would fill the dictionary, is called nowhere.
Detections == {}

Reader(c, label) == reader' = [reader EXCEPT ![c] = label]

-----------------------------------------------------------------------------
(* The list.  Add and Remove are not atomic: a change is under way from     *)
(* the label "adding" or "removing" to the next one of its callback.  What  *)
(* changes that overlap leave of an unsynchronised List<T> is not kept: it  *)
(* is a choice of whoever reads the list then.                              *)

Changing == {d \in Clients : reader[d] \in {"adding", "removing"}}

BeginChange == raced' = (raced \/ Changing # {}) /\ UNCHANGED clients

\* A foreach over the list is due or in progress.
Enumerating(c) == reader[c] = "search" \/ (reader[c] = "handle" /\ got[c] = EOF)

\* The change of the callback of c ends, and invalidates every enumeration in
\* progress; one that had yet to begin goes well.
EndChange(c, result) ==
  /\ clients' = result
  /\ disturbed' = {d \in Clients \ {c} : Enumerating(d)}
  /\ UNCHANGED raced

\* What a foreach meets that overlaps a change, or comes after a race: the
\* change, an entry that is not there yet or null, or a list without c.
Disturbed(c) == c \in disturbed \/ Changing # {}

EnumerationThrows(c) ==
  \/ Disturbed(c) /\ ServerEnds("CollectionModified")
  \/ (Disturbed(c) \/ raced) /\ ServerEnds("NullReference")

MayFind(c) == c \in clients \/ raced
MayMiss(c) == c \notin clients \/ raced \/ Disturbed(c)

\* A Write to a client that is no longer there may throw, and nothing catches it;
\* or the connection is found not to be Connected before it.
WriteMayThrow(c) == clientEnd[c] # "open" \/ serverEnd[c] = "closed"
MayBeUnconnected(c) == clientEnd[c] = "reset" \/ serverEnd[c] = "closed"

\* Dispose or Close of the connection of c by its own callback.
Drop(c) == /\ serverEnd' = [serverEnd EXCEPT ![c] = "closed"]
           /\ toServer' = [toServer EXCEPT ![c] = <<>>]
           /\ Reader(c, "none")

-----------------------------------------------------------------------------
\* HandleClientConnected: the client is accepted and List.Add begins.
HandleClientConnected(c) ==
  /\ server = "running" /\ accepting
  /\ clientEnd[c] # "none" /\ serverEnd[c] = "none"
  /\ serverEnd' = [serverEnd EXCEPT ![c] = "open"]
  /\ accepting' = FALSE
  /\ BeginChange
  /\ Reader(c, "adding")
  /\ UNCHANGED <<toServer, toClient, clientEnd, listening, server, got, disturbed, worker,
                 records>>

\* The client is in the list, its first read is begun and the next accept too,
\* unless BeginRead throws: then nobody accepts again.
BeginFirstRead(c) ==
  /\ server = "running" /\ reader[c] = "adding"
  /\ EndChange(c, clients \cup {c})
  /\ \/ Reader(c, "pending") /\ accepting' = TRUE
     \/ clientEnd[c] = "reset" /\ Reader(c, "none") /\ UNCHANGED accepting
  /\ UNCHANGED <<link, server, got, worker, records>>

\* HandleMessageReceived: EndRead returns data; only the packet the data
\* begins with will be handled.
EndReadData(c) ==
  /\ server = "running" /\ reader[c] = "pending"
  /\ toServer[c] # <<>>
  /\ \E rest \in AfterRead(toServer[c]) : toServer' = [toServer EXCEPT ![c] = rest]
  /\ got' = [got EXCEPT ![c] = Head(toServer[c])]
  /\ Reader(c, "search")
  /\ UNCHANGED <<toClient, clientEnd, serverEnd, listening, server, accepting,
                 list, disturbed, worker, records>>

\* EndRead returns 0: the client has closed the connection.
EndReadEOF(c) ==
  /\ server = "running" /\ reader[c] = "pending"
  /\ toServer[c] = <<>> /\ clientEnd[c] = "closed"
  /\ got' = [got EXCEPT ![c] = EOF]
  /\ Reader(c, "search")
  /\ UNCHANGED <<link, server, accepting, list, disturbed, worker, records>>

\* EndRead (or the BeginRead before it) throws: `clients.Remove(c)` is called
\* with c == null, so the client stays in the list and is never read again.
\* GetStream throws when a worker has disconnected the client, and that
\* exception is not caught.
EndReadThrows(c) ==
  /\ server = "running" /\ reader[c] = "pending"
  /\ MayBeUnconnected(c)
  /\ \/ /\ Reader(c, "none")
        /\ UNCHANGED <<link, server, accepting, list, got, disturbed, worker, records>>
     \/ serverEnd[c] = "closed" /\ ServerEnds("NotConnected")

\* foreach (ca in clients) to find the client the data came from.  When it is
\* not found, whatever HandlePacket does with the packet meets a null client.
FindClient(c) ==
  /\ server = "running" /\ reader[c] = "search"
  /\ \/ EnumerationThrows(c)
     \/ got[c] # EOF /\ MayMiss(c) /\ ServerEnds("NullReference")
     \/ /\ got[c] = EOF \/ MayFind(c)
        /\ Reader(c, "handle")
        /\ disturbed' = disturbed \ {c}
        /\ UNCHANGED <<link, server, accepting, list, got, worker, records>>

-----------------------------------------------------------------------------
(* HandlePacket, for the packet in got[c].                                 *)

Handling(c, op) == server = "running" /\ reader[c] = "handle" /\ got[c].op = op

\* return true: the callback goes on.
Handled(c) == /\ Reader(c, "rearm")
              /\ got' = [got EXCEPT ![c] = EOF]
              /\ UNCHANGED <<toServer, serverEnd, listening, server, accepting, list,
                             disturbed, worker, in_heartbeat_loop>>

\* return false: "disconnecting client", which stays in the list.  Disconnect
\* throws when the connection was reset.
Refuse(c) ==
  \/ /\ Drop(c)
     /\ got' = [got EXCEPT ![c] = EOF]
     /\ UNCHANGED <<toClient, clientEnd, listening, server, accepting,
                    list, disturbed, worker, records>>
  \/ clientEnd[c] = "reset" /\ ServerEnds("DisconnectFailed")

\* CS_HELLO: refused with an empty field, else answered with the version.
HandleHello(c) ==
  /\ Handling(c, "CS_HELLO")
  /\ \/ got[c].arg = 0 /\ Refuse(c)
     \/ /\ got[c].arg # 0 /\ serverEnd[c] = "open"
        /\ SendDown(c, Pkt("SC_HELLO", 0))
        /\ Handled(c)
        /\ UNCHANGED counts
     \/ got[c].arg # 0 /\ MayBeUnconnected(c) /\ Refuse(c)   \* SendClientHello: false
     \/ got[c].arg # 0 /\ WriteMayThrow(c) /\ ServerEnds("WriteFailed")

\* CS_HEARTBEAT: compared with the cookie of the heartbeat expected next.
HandleHeartbeatNoCount(c) ==
  /\ Handling(c, "CS_HEARTBEAT")
  /\ IF current_heartbeat_count[c] >= heartbeat_responses[c]
     THEN ServerEnds("IndexOutOfRange")
     ELSE IF got[c].arg # current_heartbeat_count[c] + 1
     THEN Refuse(c)
     ELSE Handled(c) /\ UNCHANGED <<toClient, clientEnd, counts>>

HandleHeartbeatCountsDown(c) ==
  /\ Handling(c, "CS_HEARTBEAT")
  /\ IF current_heartbeat_count[c] >= heartbeat_responses[c]
     THEN ServerEnds("IndexOutOfRange")
     ELSE /\ current_heartbeat_count' = [current_heartbeat_count EXCEPT ![c] = @ - 1]
          /\ Handled(c)
          /\ UNCHANGED <<toClient, clientEnd, heartbeat_responses>>

HandleHeartbeat(c) ==
  /\ Handling(c, "CS_HEARTBEAT")
  /\ IF current_heartbeat_count[c] >= heartbeat_responses[c]
     THEN ServerEnds("IndexOutOfRange")
     ELSE IF got[c].arg # current_heartbeat_count[c] + 1
     THEN Refuse(c)
     ELSE /\ current_heartbeat_count' = [current_heartbeat_count EXCEPT ![c] = @ + 1]
          /\ Handled(c)
          /\ UNCHANGED <<toClient, clientEnd, heartbeat_responses>>

\* CS_FLAGGED_CHEATER: the client is marked and the reason looked up, which
\* throws when the dictionary has none.
HandleFlagged(c) ==
  /\ Handling(c, "CS_FLAGGED_CHEATER")
  /\ IF got[c].arg \in Detections
     THEN Handled(c) /\ UNCHANGED <<toClient, clientEnd, counts>>
     ELSE ServerEnds("KeyNotFound")

\* CS_GOODBYE: an unknown opcode.
HandleGoodbye(c) == Handling(c, "CS_GOODBYE") /\ Refuse(c)

\* bytesRead == 0: a second foreach looks for the client; when it is found,
\* List.Remove begins, else the connection is only closed.
HandleEOFKeeps(c) ==
  /\ Handling(c, "EOF")
  /\ Reader(c, "none")
  /\ disturbed' = disturbed \ {c}
  /\ UNCHANGED <<link, server, accepting, list, got, worker, records>>

HandleEOF(c) ==
  /\ Handling(c, "EOF")
  /\ \/ EnumerationThrows(c)
     \/ /\ MayFind(c)
        /\ BeginChange
        /\ Reader(c, "removing")
        /\ disturbed' = disturbed \ {c}
        /\ UNCHANGED <<link, server, accepting, got, worker, records>>
     \/ /\ MayMiss(c)
        /\ Drop(c)
        /\ disturbed' = disturbed \ {c}
        /\ UNCHANGED <<toClient, clientEnd, listening, server, accepting, list, got, worker,
                       records>>

\* The client is removed and closed.  Remove throws when another has made the
\* list shorter than the index it found.
RemoveRereads(c) ==
  /\ server = "running" /\ reader[c] = "removing"
  /\ EndChange(c, clients \ {c})
  /\ Reader(c, "pending")
  /\ UNCHANGED <<link, server, accepting, got, worker, records>>

Remove(c) ==
  /\ server = "running" /\ reader[c] = "removing"
  /\ \/ /\ EndChange(c, clients \ {c})
        /\ Drop(c)
        /\ UNCHANGED <<toClient, clientEnd, listening, server, accepting, got, worker,
                       records>>
     \/ raced /\ ServerEnds("IndexOutOfRange")

\* The rest of HandleMessageReceived: queue a heartbeat worker unless one is
\* in its loop, and begin the next read.
RearmUnmarked(c) ==
  /\ server = "running" /\ reader[c] = "rearm"
  /\ IF in_heartbeat_loop[c] THEN UNCHANGED worker
                             ELSE worker' = [worker EXCEPT ![c] = "sleep"]
  /\ Reader(c, "pending")
  /\ UNCHANGED <<link, server, accepting, list, got, disturbed, records>>

Rearm(c) ==
  /\ server = "running" /\ reader[c] = "rearm"
  /\ IF in_heartbeat_loop[c]
     THEN UNCHANGED <<worker, in_heartbeat_loop>>
     ELSE /\ in_heartbeat_loop' = [in_heartbeat_loop EXCEPT ![c] = TRUE]
          /\ worker' = [worker EXCEPT ![c] = "sleep"]
  /\ Reader(c, "pending")
  /\ UNCHANGED <<link, server, accepting, list, got, disturbed, counts>>

-----------------------------------------------------------------------------
(* The queued worker: Thread.Sleep(heartbeatDelay), SendHeartbeat, and     *)
(* in_heartbeat_loop = false.                                              *)

Worker(c, label) == worker' = [worker EXCEPT ![c] = label]

\* The delay is over.  The cookie is saved before it is sent.
WorkerWakes(c) ==
  /\ server = "running" /\ worker[c] = "sleep"
  /\ \/ /\ serverEnd[c] = "open"
        /\ heartbeat_responses[c] < MaxHeartbeats[c]
        /\ heartbeat_responses' = [heartbeat_responses EXCEPT ![c] = @ + 1]
        /\ Worker(c, "write")
     \/ /\ MayBeUnconnected(c)
        /\ Worker(c, "none")         \* !Connected: return, still "in the loop"
        /\ UNCHANGED heartbeat_responses
  /\ UNCHANGED <<link, server, accepting, list, reader, got, disturbed,
                 in_heartbeat_loop, current_heartbeat_count>>

\* When SendHeartbeat finds the client not Connected and returns false, the
\* worker disconnects it, which may throw, and returns, still "in the loop".
WorkerWrites(c) ==
  /\ server = "running" /\ worker[c] = "write"
  /\ \/ /\ serverEnd[c] = "open"
        /\ SendDown(c, Pkt("SC_HEARTBEAT", heartbeat_responses[c]))
        /\ Worker(c, "clear")
        /\ UNCHANGED <<toServer, serverEnd>>
     \/ /\ serverEnd[c] = "open" /\ clientEnd[c] = "reset"
        /\ serverEnd' = [serverEnd EXCEPT ![c] = "closed"]
        /\ toServer' = [toServer EXCEPT ![c] = <<>>]
        /\ Worker(c, "none")
        /\ UNCHANGED <<toClient, clientEnd>>
  /\ UNCHANGED <<listening, server, accepting, list, reader, got, disturbed, records>>

WorkerWriteThrows(c) ==
  /\ server = "running" /\ worker[c] = "write"
  /\ \/ WriteMayThrow(c) /\ ServerEnds("WriteFailed")
     \/ MayBeUnconnected(c) /\ ServerEnds("DisconnectFailed")

WorkerClears(c) ==
  /\ server = "running" /\ worker[c] = "clear"
  /\ in_heartbeat_loop' = [in_heartbeat_loop EXCEPT ![c] = FALSE]
  /\ Worker(c, "none")
  /\ UNCHANGED <<link, server, accepting, list, reader, got, disturbed, counts>>

-----------------------------------------------------------------------------
\* Stop, and the end of Main.
Stop == server = "running" /\ ServerEnds("stopped")
=============================================================================
