------------------------------ MODULE NetClient ------------------------------
(***************************************************************************)
(* Network/NetClient.cpp: the client's end of a session.  The recv thread  *)
(* (ProcessRequests) answers the server; the threads that push detections  *)
(* and shut the program down send on the same socket.                      *)
(***************************************************************************)
EXTENDS Link

CONSTANTS MaxFlags   \* bound: detections each client reports

ASSUME MaxFlagsAssumption == MaxFlags \in [Clients -> Nat]

VARIABLES recvLoop,            \* ProcessRequests: none, running, ended
          HandshakeCompleted,
          flagsSent            \* detections reported so far

client == <<recvLoop, HandshakeCompleted, flagsSent>>

ClientInit == /\ recvLoop = [c \in Clients |-> "none"]
              /\ HandshakeCompleted = [c \in Clients |-> FALSE]
              /\ flagsSent = [c \in Clients |-> 0]

ClientTypeOK == /\ recvLoop \in [Clients -> {"none", "running", "ended"}]
                /\ HandshakeCompleted \in [Clients -> BOOLEAN]
                /\ flagsSent \in [Clients -> Nat]

\* Initialize: connect, ClientHello, start the recv thread.  The MAC address
\* or the host name in the hello may be empty; the hardware ID is not.  (When
\* connect fails the program does not start: nothing changes.)
Initialize(c) ==
  /\ clientEnd[c] = "none" /\ listening
  /\ clientEnd' = [clientEnd EXCEPT ![c] = "open"]
  /\ \E complete \in 0..1 : SendUp(c, Pkt("CS_HELLO", complete))
  /\ recvLoop' = [recvLoop EXCEPT ![c] = "running"]
  /\ UNCHANGED <<toClient, serverEnd, listening, HandshakeCompleted, flagsSent>>

\* One recv and HandleInboundPacket: whatever the read returned, only the
\* packet at its start is looked at.  A heartbeat is answered with its cookie.
ProcessRequests(c) ==
  /\ recvLoop[c] = "running" /\ clientEnd[c] = "open"
  /\ toClient[c] # <<>>
  /\ \E rest \in AfterRead(toClient[c]) : toClient' = [toClient EXCEPT ![c] = rest]
  /\ LET p == Head(toClient[c]) IN
       \/ /\ p.op = "SC_HELLO"
          /\ HandshakeCompleted' = [HandshakeCompleted EXCEPT ![c] = TRUE]
          /\ UNCHANGED toServer
       \/ /\ p.op = "SC_HEARTBEAT"
          /\ SendUp(c, Pkt("CS_HEARTBEAT", p.arg))
          /\ UNCHANGED HandshakeCompleted
  /\ UNCHANGED <<clientEnd, serverEnd, listening, recvLoop, flagsSent>>

\* recv fails because the server has dropped the connection: the loop ends and
\* closes the socket.  (When recv returns 0 instead, the loop spins: nothing
\* changes.)
RecvError(c) ==
  /\ recvLoop[c] = "running" /\ clientEnd[c] = "open"
  /\ serverEnd[c] = "closed"
  /\ recvLoop' = [recvLoop EXCEPT ![c] = "ended"]
  /\ clientEnd' = [clientEnd EXCEPT ![c] = "closed"]
  /\ UNCHANGED <<toServer, toClient, serverEnd, listening, HandshakeCompleted, flagsSent>>

\* FlagCheater, from the thread that pushes the evidence.
FlagCheater(c) ==
  /\ clientEnd[c] = "open"
  /\ flagsSent[c] < MaxFlags[c]
  /\ flagsSent' = [flagsSent EXCEPT ![c] = @ + 1]
  /\ SendUp(c, Pkt("CS_FLAGGED_CHEATER", 0))
  /\ UNCHANGED <<toClient, clientEnd, serverEnd, listening, recvLoop, HandshakeCompleted>>

\* EndConnection: CS_GOODBYE and close; the caller terminates the recv thread.
\* Closing a socket with data nobody has read resets the connection.
EndConnection(c) ==
  /\ clientEnd[c] = "open"
  /\ SendUp(c, Pkt("CS_GOODBYE", 0))
  /\ \E end \in {"closed"} \cup (IF toClient[c] = <<>> THEN {} ELSE {"reset"}) :
       clientEnd' = [clientEnd EXCEPT ![c] = end]
  /\ recvLoop' = [recvLoop EXCEPT ![c] = "ended"]
  /\ UNCHANGED <<toClient, serverEnd, listening, HandshakeCompleted, flagsSent>>

\* The game process dies without a goodbye: its end is closed or reset.
Die(c) ==
  /\ clientEnd[c] = "open"
  /\ \E end \in {"closed", "reset"} : clientEnd' = [clientEnd EXCEPT ![c] = end]
  /\ recvLoop' = [recvLoop EXCEPT ![c] = "ended"]
  /\ UNCHANGED <<toServer, toClient, serverEnd, listening, HandshakeCompleted, flagsSent>>
=============================================================================
