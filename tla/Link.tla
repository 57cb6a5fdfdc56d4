-------------------------------- MODULE Link --------------------------------
(***************************************************************************)
(* The TCP connections between the game clients and the server, as         *)
(* Network/NetClient.cpp (winsock) and Server/Network/Server.cs            *)
(* (TcpClient) use them: a byte stream each way.  Packets carry no length, *)
(* so a read returns any number of whole packets run together.             *)
(***************************************************************************)
EXTENDS Naturals, Sequences

CONSTANTS Clients

VARIABLES toServer, toClient,   \* packets sent and not yet read
          clientEnd, serverEnd, \* the two sockets of each connection
          listening             \* the server's TcpListener takes connections

link == <<toServer, toClient, clientEnd, serverEnd, listening>>

CS == {"CS_HELLO", "CS_GOODBYE", "CS_HEARTBEAT", "CS_FLAGGED_CHEATER"}
SC == {"SC_HELLO", "SC_HEARTBEAT"}

\* arg: the cookie of a heartbeat; 0 for a hello with an empty field.
Packet(ops) == [op : ops, arg : Nat]
Pkt(op, arg) == [op |-> op, arg |-> arg]

LinkInit == /\ toServer = [c \in Clients |-> <<>>]
            /\ toClient = [c \in Clients |-> <<>>]
            /\ clientEnd = [c \in Clients |-> "none"]
            /\ serverEnd = [c \in Clients |-> "none"]
            /\ listening = TRUE

LinkTypeOK == /\ toServer \in [Clients -> Seq(Packet(CS))]
              /\ toClient \in [Clients -> Seq(Packet(SC))]
              /\ clientEnd \in [Clients -> {"none", "open", "closed", "reset"}]
              /\ serverEnd \in [Clients -> {"none", "open", "closed"}]
              /\ listening \in BOOLEAN

\* A client's send: lost when the server has closed its end.
SendUp(c, p) == toServer' = IF serverEnd[c] = "closed" THEN toServer
                            ELSE [toServer EXCEPT ![c] = Append(@, p)]

\* A write of the server that does not fail: lost when the client has closed
\* its end, whose system may then answer with a reset ("reset": one is under
\* way or has arrived).
SendDown(c, p) ==
  \/ /\ clientEnd[c] = "open"
     /\ toClient' = [toClient EXCEPT ![c] = Append(@, p)]
     /\ UNCHANGED clientEnd
  \/ /\ clientEnd[c] # "open"
     /\ \E end \in {clientEnd[c], "reset"} : clientEnd' = [clientEnd EXCEPT ![c] = end]
     /\ UNCHANGED toClient

\* The server process ends: the system closes its sockets and drops what it
\* had not read.
CloseAll == /\ listening' = FALSE
            /\ serverEnd' = [c \in Clients |-> IF clientEnd[c] = "none" THEN "none"
                                               ELSE "closed"]
            /\ toServer' = [c \in Clients |-> <<>>]

\* What a read may leave: it takes at least one packet, maybe more.
AfterRead(stream) == {SubSeq(stream, k + 1, Len(stream)) : k \in 1..Len(stream)}
=============================================================================
