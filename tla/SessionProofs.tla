---------------------------- MODULE SessionProofs ----------------------------
(***************************************************************************)
(* Proofs about Session for any clients and any bounds on flags and         *)
(* heartbeats: the types, one heartbeat worker per client, callbacks that   *)
(* find their client, and answers that always match the cookie they are     *)
(* compared with.  The last rests on whose turn it is: between a hello or   *)
(* an answer and the next heartbeat exactly one place of the two programs   *)
(* can go on (TurnInv).                                                     *)
(***************************************************************************)
EXTENDS Session, TLAPS

-----------------------------------------------------------------------------
(* Streams. *)

(* What a packet more changes. *)
LEMMA AppendIs ==
  ASSUME NEW S, NEW s \in Seq(S), NEW p \in S
  PROVE  /\ Append(s, p) \in Seq(S) /\ Len(Append(s, p)) = Len(s) + 1
         /\ Append(s, p)[Len(s) + 1] = p
         /\ \A i \in 1..Len(s) : Append(s, p)[i] = s[i]
  OBVIOUS

(* What a read takes from the front, and what it leaves. *)
LEMMA AfterReadIs ==
  ASSUME NEW S, NEW s \in Seq(S), s # <<>>, NEW rest \in AfterRead(s)
  PROVE  /\ rest \in Seq(S) /\ Head(s) = s[1] /\ s[1] \in S
         /\ \E k \in 1..Len(s) : /\ Len(rest) = Len(s) - k
                                 /\ \A i \in 1..Len(rest) : rest[i] = s[i + k]
  <1>1. PICK k \in 1..Len(s) : rest = SubSeq(s, k + 1, Len(s))
    BY DEF AfterRead
  <1>2. Len(s) \in Nat /\ 1 \in 1..Len(s)
    OBVIOUS
  <1>3. rest \in Seq(S) /\ Len(rest) = Len(s) - k
    BY <1>1, <1>2
  <1>4. \A i \in 1..Len(rest) : rest[i] = s[i + k]
    BY <1>1, <1>2, <1>3
  <1> QED BY <1>2, <1>3, <1>4

-----------------------------------------------------------------------------
(* Types. *)

LEMMA TypeInit == Init => TypeOK
  <1> SUFFICES ASSUME Init PROVE LinkTypeOK /\ ClientTypeOK /\ ServerTypeOK
    BY DEF TypeOK
  <1>1. <<>> \in Seq(Packet(CS)) /\ <<>> \in Seq(Packet(SC))
    OBVIOUS
  <1>2. LinkTypeOK
    BY <1>1 DEF Init, LinkInit, LinkTypeOK
  <1>3. ClientTypeOK
    BY DEF Init, ClientInit, ClientTypeOK
  <1>4. ServerTypeOK
    BY DEF Init, ServerInit, ServerTypeOK
  <1> QED BY <1>2, <1>3, <1>4

(* Packets a client sends, and a server. *)
LEMMA SendUpType ==
  ASSUME TypeOK, NEW c \in Clients, NEW p \in Packet(CS), SendUp(c, p)
  PROVE  toServer' \in [Clients -> Seq(Packet(CS))]
  <1>1. toServer \in [Clients -> Seq(Packet(CS))]
    BY DEF TypeOK, LinkTypeOK
  <1>2. Append(toServer[c], p) \in Seq(Packet(CS))
    BY <1>1, AppendIs
  <1> QED BY <1>1, <1>2 DEF SendUp

LEMMA SendDownType ==
  ASSUME TypeOK, NEW c \in Clients, NEW p \in Packet(SC), SendDown(c, p)
  PROVE  /\ toClient' \in [Clients -> Seq(Packet(SC))]
         /\ clientEnd' \in [Clients -> {"none", "open", "closed", "reset"}]
  <1>1. toClient \in [Clients -> Seq(Packet(SC))]
    BY DEF TypeOK, LinkTypeOK
  <1>2. Append(toClient[c], p) \in Seq(Packet(SC))
    BY <1>1, AppendIs
  <1> QED BY <1>1, <1>2 DEF SendDown, TypeOK, LinkTypeOK

(* The end of the server keeps the types. *)
LEMMA ServerEndsType ==
  ASSUME TypeOK, NEW why \in {"stopped"} \cup Exceptions, ServerEnds(why), UNCHANGED client
  PROVE  TypeOK'
  <1>1. <<>> \in Seq(Packet(CS)) /\ EOF \in Packet(CS) \cup {EOF}
    OBVIOUS
  <1>2. LinkTypeOK'
    BY <1>1 DEF ServerEnds, CloseAll, TypeOK, LinkTypeOK
  <1>3. ClientTypeOK'
    BY DEF client, TypeOK, ClientTypeOK
  <1>4. ServerTypeOK'
    BY <1>1 DEF ServerEnds, ServerTypeOK
  <1> QED BY <1>2, <1>3, <1>4 DEF TypeOK

LEMMA ClientType ==
  ASSUME TypeOK, NEW c \in Clients, ClientStep(c)
  PROVE  TypeOK'
  <1>1. ServerTypeOK'
    BY DEF ClientStep, serverVars, list, records, counts, TypeOK, ServerTypeOK
  <1>2. CASE Initialize(c)
    <2>1. \A n \in 0..1 : Pkt("CS_HELLO", n) \in Packet(CS)
      BY DEF Pkt, Packet, CS
    <2>2. toServer' \in [Clients -> Seq(Packet(CS))]
      BY <1>2, <2>1, SendUpType DEF Initialize
    <2> QED BY <1>1, <1>2, <2>2 DEF Initialize, TypeOK, LinkTypeOK, ClientTypeOK
  <1>3. CASE ProcessRequests(c)
    <2>1. PICK rest \in AfterRead(toClient[c]) : toClient' = [toClient EXCEPT ![c] = rest]
      BY <1>3 DEF ProcessRequests
    <2>2. toClient[c] \in Seq(Packet(SC)) /\ toClient[c] # <<>>
      BY <1>3 DEF ProcessRequests, TypeOK, LinkTypeOK
    <2>3. rest \in Seq(Packet(SC)) /\ Head(toClient[c]) \in Packet(SC)
      BY <2>2, AfterReadIs
    <2>4. toClient' \in [Clients -> Seq(Packet(SC))]
      BY <2>1, <2>3 DEF TypeOK, LinkTypeOK
    <2>5. Pkt("CS_HEARTBEAT", Head(toClient[c]).arg) \in Packet(CS)
      BY <2>3 DEF Pkt, Packet, CS
    <2>6. toServer' \in [Clients -> Seq(Packet(CS))]
      BY <1>3, <2>5, SendUpType DEF ProcessRequests, TypeOK, LinkTypeOK
    <2> QED BY <1>1, <1>3, <2>4, <2>6 DEF ProcessRequests, TypeOK, LinkTypeOK, ClientTypeOK
  <1>4. CASE RecvError(c)
    BY <1>1, <1>4 DEF RecvError, TypeOK, LinkTypeOK, ClientTypeOK
  <1>5. CASE FlagCheater(c)
    <2>1. Pkt("CS_FLAGGED_CHEATER", 0) \in Packet(CS)
      BY DEF Pkt, Packet, CS
    <2>2. toServer' \in [Clients -> Seq(Packet(CS))]
      BY <1>5, <2>1, SendUpType DEF FlagCheater
    <2>3. LinkTypeOK'
      BY <1>5, <2>2 DEF FlagCheater, TypeOK, LinkTypeOK
    <2>4. ClientTypeOK'
      BY <1>5 DEF FlagCheater, TypeOK, ClientTypeOK
    <2> QED BY <1>1, <2>3, <2>4 DEF TypeOK
  <1>6. CASE EndConnection(c)
    <2>1. Pkt("CS_GOODBYE", 0) \in Packet(CS)
      BY DEF Pkt, Packet, CS
    <2>2. toServer' \in [Clients -> Seq(Packet(CS))]
      BY <1>6, <2>1, SendUpType DEF EndConnection
    <2> QED BY <1>1, <1>6, <2>2 DEF EndConnection, TypeOK, LinkTypeOK, ClientTypeOK
  <1>7. CASE Die(c)
    BY <1>1, <1>7 DEF Die, TypeOK, LinkTypeOK, ClientTypeOK
  <1> QED BY <1>2, <1>3, <1>4, <1>5, <1>6, <1>7 DEF ClientStep

LEMMA RefuseType ==
  ASSUME TypeOK, NEW c \in Clients, Refuse(c), UNCHANGED client
  PROVE  TypeOK'
  <1>1. CASE clientEnd[c] = "reset" /\ ServerEnds("DisconnectFailed")
    BY <1>1, ServerEndsType DEF Exceptions
  <1>2. CASE Drop(c) /\ got' = [got EXCEPT ![c] = EOF]
             /\ UNCHANGED <<toClient, clientEnd, listening, server, accepting,
                            list, disturbed, worker, records>>
    BY <1>2 DEF Drop, Reader, client, list, records, counts, TypeOK, LinkTypeOK, ClientTypeOK, ServerTypeOK
  <1> QED BY <1>1, <1>2 DEF Refuse

LEMMA HandledType ==
  ASSUME TypeOK, NEW c \in Clients, Handled(c), UNCHANGED client,
         toClient' \in [Clients -> Seq(Packet(SC))],
         clientEnd' \in [Clients -> {"none", "open", "closed", "reset"}],
         heartbeat_responses' \in [Clients -> Nat],
         current_heartbeat_count' \in [Clients -> Nat]
  PROVE  TypeOK'
  BY DEF Handled, Reader, client, list, TypeOK, LinkTypeOK, ClientTypeOK, ServerTypeOK

(* A connection that is dropped. *)
LEMMA DropType ==
  ASSUME TypeOK, NEW c \in Clients, Drop(c), UNCHANGED <<toClient, clientEnd, listening>>
  PROVE  /\ LinkTypeOK'
         /\ reader' = [reader EXCEPT ![c] = "none"]
         /\ reader' \in [Clients -> {"none", "adding", "pending", "search", "handle", "rearm",
                                    "removing"}]
  <1>1. <<>> \in Seq(Packet(CS))
    OBVIOUS
  <1> QED BY <1>1 DEF Drop, Reader, TypeOK, LinkTypeOK, ServerTypeOK

(* A foreach that throws ends the server. *)
LEMMA EnumerationEnds ==
  ASSUME NEW c, EnumerationThrows(c)
  PROVE  \E why \in {"stopped"} \cup Exceptions : ServerEnds(why)
  BY DEF EnumerationThrows, Exceptions

LEMMA ReadType ==
  ASSUME TypeOK, NEW c \in Clients, ReadStep(c)
  PROVE  TypeOK'
  <1>0. UNCHANGED client
    BY DEF ReadStep
  <1>1. CASE EndReadData(c)
    <2>1. PICK rest \in AfterRead(toServer[c]) : toServer' = [toServer EXCEPT ![c] = rest]
      BY <1>1 DEF EndReadData
    <2>2. toServer[c] \in Seq(Packet(CS)) /\ toServer[c] # <<>>
      BY <1>1 DEF EndReadData, TypeOK, LinkTypeOK
    <2>3. rest \in Seq(Packet(CS)) /\ Head(toServer[c]) \in Packet(CS)
      BY <2>2, AfterReadIs
    <2>4. toServer' \in [Clients -> Seq(Packet(CS))]
      BY <2>1, <2>3 DEF TypeOK, LinkTypeOK
    <2>5. got' \in [Clients -> Packet(CS) \cup {EOF}]
      BY <1>1, <2>3 DEF EndReadData, TypeOK, ServerTypeOK
    <2> QED BY <1>0, <1>1, <2>4, <2>5
            DEF EndReadData, Reader, client, list, records, counts, TypeOK, LinkTypeOK, ClientTypeOK, ServerTypeOK
  <1>2. CASE EndReadEOF(c) \/ EndReadThrows(c)
    <2>1. CASE ServerEnds("NotConnected")
      BY <1>0, <2>1, ServerEndsType DEF Exceptions
    <2>2. CASE ~ServerEnds("NotConnected")
      BY <1>0, <1>2, <2>2 DEF EndReadEOF, EndReadThrows, Reader, client, link, list, records, counts,
                              TypeOK, LinkTypeOK, ClientTypeOK, ServerTypeOK
    <2> QED BY <2>1, <2>2
  <1>3. CASE FindClient(c)
    <2>1. CASE \E why \in {"stopped"} \cup Exceptions : ServerEnds(why)
      BY <1>0, <2>1, ServerEndsType
    <2>2. CASE /\ Reader(c, "handle")
               /\ disturbed' = disturbed \ {c}
               /\ UNCHANGED <<link, server, accepting, list, got, worker, records>>
      BY <1>0, <2>2 DEF Reader, client, link, list, records, counts,
                        TypeOK, LinkTypeOK, ClientTypeOK, ServerTypeOK
    <2> QED BY <1>3, <2>1, <2>2, EnumerationEnds DEF FindClient, Exceptions
  <1>4. CASE HandleHello(c)
    <2>1. CASE Refuse(c)
      BY <1>0, <2>1, RefuseType
    <2>2. CASE SendDown(c, Pkt("SC_HELLO", 0)) /\ Handled(c) /\ UNCHANGED counts
      <3>1. Pkt("SC_HELLO", 0) \in Packet(SC)
        BY DEF Pkt, Packet, SC
      <3> QED BY <1>0, <2>2, <3>1, SendDownType, HandledType DEF counts, TypeOK, ServerTypeOK
    <2>3. CASE ServerEnds("WriteFailed")
      BY <1>0, <2>3, ServerEndsType DEF Exceptions
    <2> QED BY <1>4, <2>1, <2>2, <2>3 DEF HandleHello
  <1>5. CASE HandleHeartbeat(c)
    <2>1. CASE Refuse(c)
      BY <1>0, <2>1, RefuseType
    <2>2. CASE /\ current_heartbeat_count' = [current_heartbeat_count EXCEPT ![c] = @ + 1]
               /\ Handled(c)
               /\ UNCHANGED <<toClient, clientEnd, heartbeat_responses>>
      <3>1. current_heartbeat_count' \in [Clients -> Nat]
        BY <2>2 DEF TypeOK, ServerTypeOK
      <3> QED BY <1>0, <2>2, <3>1, HandledType DEF TypeOK, ServerTypeOK, LinkTypeOK
    <2>3. CASE ServerEnds("IndexOutOfRange")
      BY <1>0, <2>3, ServerEndsType DEF Exceptions
    <2> QED BY <1>5, <2>1, <2>2, <2>3 DEF HandleHeartbeat
  <1>6. CASE HandleFlagged(c)
    BY <1>0, <1>6, ServerEndsType DEF HandleFlagged, Detections, Exceptions
  <1>7. CASE HandleGoodbye(c)
    BY <1>0, <1>7, RefuseType DEF HandleGoodbye
  <1>8. CASE HandleEOF(c)
    <2>1. CASE \E why \in {"stopped"} \cup Exceptions : ServerEnds(why)
      BY <1>0, <2>1, ServerEndsType
    <2>2. CASE ~\E why \in {"stopped"} \cup Exceptions : ServerEnds(why)
      <3>1. CASE BeginChange /\ Reader(c, "removing") /\ disturbed' = disturbed \ {c}
                 /\ UNCHANGED <<link, server, accepting, got, worker, records>>
        BY <1>0, <3>1 DEF BeginChange, Reader, client, link, records, counts,
                          TypeOK, LinkTypeOK, ClientTypeOK, ServerTypeOK
      <3>2. CASE Drop(c) /\ disturbed' = disturbed \ {c}
                 /\ UNCHANGED <<toClient, clientEnd, listening, server, accepting, list, got,
                                worker, records>>
        BY <1>0, <3>2, DropType DEF client, list, records, counts, TypeOK, ServerTypeOK, ClientTypeOK
      <3> QED BY <1>8, <2>2, <3>1, <3>2, EnumerationEnds DEF HandleEOF
    <2> QED BY <2>1, <2>2
  <1>9. CASE Rearm(c)
    BY <1>0, <1>9 DEF Rearm, Reader, client, link, list, counts,
                      TypeOK, LinkTypeOK, ClientTypeOK, ServerTypeOK
  <1>10. CASE Remove(c)
    <2>1. CASE ServerEnds("IndexOutOfRange")
      BY <1>0, <2>1, ServerEndsType DEF Exceptions
    <2>2. CASE /\ EndChange(c, clients \ {c}) /\ Drop(c)
               /\ UNCHANGED <<toClient, clientEnd, listening, server, accepting, got, worker,
                              records>>
      BY <1>0, <2>2, DropType DEF EndChange, client, records, counts, TypeOK, ServerTypeOK, ClientTypeOK
    <2> QED BY <1>10, <2>1, <2>2 DEF Remove
  <1>11. CASE BeginFirstRead(c)
    BY <1>0, <1>11 DEF BeginFirstRead, EndChange, Reader, client, link, list, records, counts,
                       TypeOK, LinkTypeOK, ClientTypeOK, ServerTypeOK
  <1> QED BY <1>1, <1>2, <1>3, <1>4, <1>5, <1>6, <1>7, <1>8, <1>9, <1>10, <1>11 DEF ReadStep

LEMMA WorkerType ==
  ASSUME TypeOK, NEW c \in Clients, WorkerStep(c)
  PROVE  TypeOK'
  <1>0. UNCHANGED client
    BY DEF WorkerStep
  <1>1. CASE WorkerWakes(c)
    <2>1. heartbeat_responses' \in [Clients -> Nat]
      BY <1>1 DEF WorkerWakes, TypeOK, ServerTypeOK
    <2> QED BY <1>0, <1>1, <2>1 DEF WorkerWakes, Worker, client, link, list,
                                   TypeOK, LinkTypeOK, ClientTypeOK, ServerTypeOK
  <1>2. CASE WorkerWrites(c)
    <2>1. /\ toClient' \in [Clients -> Seq(Packet(SC))]
          /\ clientEnd' \in [Clients -> {"none", "open", "closed", "reset"}]
      <3>1. Pkt("SC_HEARTBEAT", heartbeat_responses[c]) \in Packet(SC)
        BY DEF Pkt, Packet, SC, TypeOK, ServerTypeOK
      <3> QED BY <1>2, <3>1, SendDownType DEF WorkerWrites, TypeOK, LinkTypeOK
    <2>2. <<>> \in Seq(Packet(CS))
      OBVIOUS
    <2>3. LinkTypeOK'
      BY <1>2, <2>1, <2>2 DEF WorkerWrites, TypeOK, LinkTypeOK
    <2>4. ServerTypeOK'
      BY <1>2 DEF WorkerWrites, Worker, list, records, counts, TypeOK, ServerTypeOK
    <2> QED BY <1>0, <2>3, <2>4 DEF client, TypeOK, ClientTypeOK
  <1>3. CASE WorkerClears(c)
    BY <1>0, <1>3 DEF WorkerClears, Worker, client, link, list, counts,
                      TypeOK, LinkTypeOK, ClientTypeOK, ServerTypeOK
  <1>4. CASE WorkerWriteThrows(c)
    BY <1>0, <1>4, ServerEndsType DEF WorkerWriteThrows, Exceptions
  <1> QED BY <1>1, <1>2, <1>3, <1>4 DEF WorkerStep

LEMMA TypeStep ==
  ASSUME TypeOK, [Next]_vars
  PROVE  TypeOK'
  <1>1. ASSUME NEW c \in Clients, HandleClientConnected(c), UNCHANGED client PROVE TypeOK'
    BY <1>1 DEF HandleClientConnected, BeginChange, Reader, client, list, records, counts,
                TypeOK, LinkTypeOK, ClientTypeOK, ServerTypeOK
  <1>2. CASE Stop /\ UNCHANGED client
    BY <1>2, ServerEndsType DEF Stop
  <1>3. CASE UNCHANGED vars
    BY <1>3 DEF vars, link, client, serverVars, list, records, counts,
                TypeOK, LinkTypeOK, ClientTypeOK, ServerTypeOK
  <1> QED BY <1>1, <1>2, <1>3, ClientType, ReadType, WorkerType DEF Next

(* The types, in every reachable state. *)
THEOREM TypeCorrect == Spec => []TypeOK
  BY TypeInit, TypeStep, PTL DEF Spec

-----------------------------------------------------------------------------
(* What a step of one client leaves alone of another, and where it acts:      *)
(* either the server ends, or nothing of the other changes.                   *)
Alike(d) ==
  /\ toServer'[d] = toServer[d] /\ toClient'[d] = toClient[d]
  /\ clientEnd'[d] = clientEnd[d] /\ serverEnd'[d] = serverEnd[d]
  /\ reader'[d] = reader[d] /\ got'[d] = got[d] /\ worker'[d] = worker[d]
  /\ in_heartbeat_loop'[d] = in_heartbeat_loop[d]
  /\ heartbeat_responses'[d] = heartbeat_responses[d]
  /\ current_heartbeat_count'[d] = current_heartbeat_count[d]
  /\ d \in clients => d \in clients'
  /\ raced => raced'

LEMMA ServerOver ==
  ASSUME NEW why \in {"stopped"} \cup Exceptions, ServerEnds(why)
  PROVE  /\ server' # "running"
         /\ \A c \in Clients : reader'[c] = "none" /\ worker'[c] = "none"
  BY DEF ServerEnds, Exceptions

LEMMA OthersAlike ==
  ASSUME TypeOK, NEW c \in Clients, NEW d \in Clients \ {c}, server' = "running",
         \/ ClientStep(c) \/ ReadStep(c) \/ WorkerStep(c)
         \/ HandleClientConnected(c) /\ UNCHANGED client
  PROVE  Alike(d)
  <1>0. \A why \in {"stopped"} \cup Exceptions : ~ServerEnds(why)
    BY ServerOver
  <1>1. CASE ClientStep(c)
    BY <1>1 DEF ClientStep, Initialize, ProcessRequests, RecvError, FlagCheater, EndConnection, Die,
                SendUp, serverVars, list, records, counts, Alike, TypeOK, LinkTypeOK
  <1>2. CASE EndReadData(c) \/ EndReadEOF(c) \/ EndReadThrows(c) \/ Rearm(c)
    <2>1. ~ServerEnds("NotConnected")
      BY <1>0 DEF Exceptions
    <2> QED BY <1>2, <2>1 DEF EndReadData, EndReadEOF, EndReadThrows, Rearm, Reader, link, list,
                              records, counts, Alike, TypeOK, LinkTypeOK, ServerTypeOK
  <1>3. CASE FindClient(c)
    <2>1. ~ServerEnds("NullReference") /\ ~EnumerationThrows(c)
      BY <1>0, EnumerationEnds DEF Exceptions
    <2> QED BY <1>3, <2>1 DEF FindClient, Reader, link, list, records, counts, Alike, TypeOK, ServerTypeOK
  <1>4. ASSUME Refuse(c) PROVE Alike(d)
    <2>1. ~ServerEnds("DisconnectFailed")
      BY <1>0 DEF Exceptions
    <2> QED BY <1>4, <2>1 DEF Refuse, Drop, Reader, list, records, counts, Alike, TypeOK, LinkTypeOK,
                              ServerTypeOK
  <1>5. CASE HandleHello(c)
    <2>1. ~ServerEnds("WriteFailed")
      BY <1>0 DEF Exceptions
    <2> QED BY <1>4, <1>5, <2>1 DEF HandleHello, SendDown, Handled, Reader, list, counts, Alike,
                                   TypeOK, LinkTypeOK, ServerTypeOK
  <1>6. CASE HandleHeartbeat(c)
    <2>1. ~ServerEnds("IndexOutOfRange")
      BY <1>0 DEF Exceptions
    <2> QED BY <1>4, <1>6, <2>1 DEF HandleHeartbeat, Handled, Reader, list, Alike, TypeOK, ServerTypeOK
  <1>7. CASE HandleFlagged(c) \/ HandleGoodbye(c)
    BY <1>0, <1>4, <1>7 DEF HandleFlagged, HandleGoodbye, Detections, Exceptions
  <1>8. CASE HandleEOF(c) \/ Remove(c) \/ BeginFirstRead(c)
    <2>1. ~ServerEnds("IndexOutOfRange") /\ ~EnumerationThrows(c)
      BY <1>0, EnumerationEnds DEF Exceptions
    <2> QED BY <1>8, <2>1 DEF HandleEOF, Remove, BeginFirstRead, BeginChange, EndChange, Drop, Reader,
                              link, list, records, counts, Alike, TypeOK, LinkTypeOK, ServerTypeOK
  <1>9. CASE WorkerStep(c)
    <2>1. ~ServerEnds("WriteFailed") /\ ~ServerEnds("DisconnectFailed")
      BY <1>0 DEF Exceptions
    <2> QED BY <1>9, <2>1 DEF WorkerStep, WorkerWakes, WorkerWrites, WorkerWriteThrows, WorkerClears, Worker, SendDown,
                              link, list, records, counts, Alike, TypeOK, LinkTypeOK, ServerTypeOK
  <1>10. CASE HandleClientConnected(c)
    BY <1>10 DEF HandleClientConnected, BeginChange, Reader, list, records, counts, Alike, TypeOK,
                 LinkTypeOK, ServerTypeOK
  <1> QED BY <1>1, <1>2, <1>3, <1>5, <1>6, <1>7, <1>8, <1>9, <1>10 DEF ReadStep

-----------------------------------------------------------------------------
(* One worker, and callbacks that find their client.                          *)

(* When the server is over, so are its callbacks and workers. *)
ServerInv ==
  \A c \in Clients :
    /\ server # "running" => reader[c] = "none" /\ worker[c] = "none"
    /\ ~raced /\ reader[c] \notin {"none", "adding"} => c \in clients
    /\ worker[c] # "none" => in_heartbeat_loop[c]

LEMMA ServerInvInit == Init => ServerInv
  BY DEF Init, ServerInit, ServerInv

(* What a step does to the client it is about. *)
LEMMA ServerInvOwn ==
  ASSUME TypeOK, ServerInv, NEW c \in Clients, server' = "running",
         \/ ClientStep(c) \/ ReadStep(c) \/ WorkerStep(c)
         \/ HandleClientConnected(c) /\ UNCHANGED client
  PROVE  /\ ~raced' /\ reader'[c] \notin {"none", "adding"} => c \in clients'
         /\ worker'[c] # "none" => in_heartbeat_loop'[c]
  <1>0. \A why \in {"stopped"} \cup Exceptions : ~ServerEnds(why)
    BY ServerOver
  <1> DEFINE Goal == /\ ~raced' /\ reader'[c] \notin {"none", "adding"} => c \in clients'
                     /\ worker'[c] # "none" => in_heartbeat_loop'[c]
  <1>1. CASE ClientStep(c)
    BY <1>1 DEF ClientStep, serverVars, list, records, ServerInv
  <1>2. CASE EndReadData(c) \/ EndReadEOF(c) \/ EndReadThrows(c) \/ Rearm(c)
    <2>1. ~ServerEnds("NotConnected")
      BY <1>0 DEF Exceptions
    <2> QED BY <1>2, <2>1 DEF EndReadData, EndReadEOF, EndReadThrows, Rearm, Reader, list, records,
                              ServerInv, TypeOK, ServerTypeOK
  <1>3. CASE FindClient(c)
    <2>1. ~ServerEnds("NullReference") /\ ~EnumerationThrows(c)
      BY <1>0, EnumerationEnds DEF Exceptions
    <2> QED BY <1>3, <2>1 DEF FindClient, Reader, list, records, ServerInv, TypeOK, ServerTypeOK
  <1>4. ASSUME Refuse(c) PROVE Goal
    <2>1. ~ServerEnds("DisconnectFailed")
      BY <1>0 DEF Exceptions
    <2> QED BY <1>4, <2>1 DEF Refuse, Drop, Reader, list, records, ServerInv, TypeOK, ServerTypeOK
  <1>5. ASSUME Handled(c), reader[c] = "handle" PROVE Goal
    BY <1>5 DEF Handled, list, ServerInv
  <1>6. CASE HandleHello(c)
    <2>1. ~ServerEnds("WriteFailed")
      BY <1>0 DEF Exceptions
    <2> QED BY <1>4, <1>5, <1>6, <2>1 DEF HandleHello, Handling
  <1>7. CASE HandleHeartbeat(c)
    <2>1. ~ServerEnds("IndexOutOfRange")
      BY <1>0 DEF Exceptions
    <2> QED BY <1>4, <1>5, <1>7, <2>1 DEF HandleHeartbeat, Handling
  <1>8. CASE HandleFlagged(c) \/ HandleGoodbye(c)
    BY <1>0, <1>4, <1>8 DEF HandleFlagged, HandleGoodbye, Detections, Exceptions
  <1>9. CASE HandleEOF(c) \/ Remove(c) \/ BeginFirstRead(c)
    <2>1. ~ServerEnds("IndexOutOfRange") /\ ~EnumerationThrows(c)
      BY <1>0, EnumerationEnds DEF Exceptions
    <2> QED BY <1>9, <2>1 DEF HandleEOF, Handling, MayFind, Remove, BeginFirstRead, BeginChange,
                              EndChange, Drop, Reader, list, records, ServerInv, TypeOK, ServerTypeOK
  <1>10. CASE WorkerStep(c)
    <2>1. ~ServerEnds("WriteFailed") /\ ~ServerEnds("DisconnectFailed")
      BY <1>0 DEF Exceptions
    <2> QED BY <1>10, <2>1 DEF WorkerStep, WorkerWakes, WorkerWrites, WorkerWriteThrows, WorkerClears,
                               Worker, list, records, ServerInv, TypeOK, ServerTypeOK
  <1>11. CASE HandleClientConnected(c)
    BY <1>11 DEF HandleClientConnected, BeginChange, Reader, records, ServerInv, TypeOK, ServerTypeOK
  <1> QED BY <1>1, <1>2, <1>3, <1>6, <1>7, <1>8, <1>9, <1>10, <1>11 DEF ReadStep

(* Only what runs acts, and it stops running only by ending.                  *)
LEMMA OnlyRunning ==
  ASSUME [Next]_vars, server' # "running"
  PROVE  \/ \E why \in {"stopped"} \cup Exceptions : ServerEnds(why)
         \/ UNCHANGED serverVars
  <1> DEFINE Ends == \E why \in {"stopped"} \cup Exceptions : ServerEnds(why)
  <1>1. ASSUME NEW c \in Clients, ClientStep(c) PROVE UNCHANGED serverVars
    BY <1>1 DEF ClientStep
  <1>2. ASSUME NEW c \in Clients, ReadStep(c) PROVE Ends
    <2>1. Refuse(c) /\ server = "running" => Ends
      BY DEF Refuse, Exceptions
    <2>2. Handled(c) /\ server = "running" => FALSE
      BY DEF Handled
    <2>3. CASE EndReadData(c) \/ EndReadEOF(c) \/ EndReadThrows(c) \/ Rearm(c)
      BY <2>3 DEF EndReadData, EndReadEOF, EndReadThrows, Rearm, Exceptions
    <2>4. CASE FindClient(c) \/ HandleEOF(c) \/ Remove(c) \/ BeginFirstRead(c)
      BY <2>4, EnumerationEnds DEF FindClient, HandleEOF, Handling, Remove, BeginFirstRead, Exceptions
    <2>5. CASE HandleHello(c) \/ HandleHeartbeat(c)
      BY <2>1, <2>2, <2>5 DEF HandleHello, HandleHeartbeat, Handling, Exceptions
    <2>6. CASE HandleFlagged(c) \/ HandleGoodbye(c)
      BY <2>1, <2>2, <2>6 DEF HandleFlagged, HandleGoodbye, Handling, Exceptions
    <2> QED BY <1>2, <2>3, <2>4, <2>5, <2>6 DEF ReadStep
  <1>3. ASSUME NEW c \in Clients, WorkerStep(c) PROVE Ends
    BY <1>3 DEF WorkerStep, WorkerWakes, WorkerWrites, WorkerWriteThrows, WorkerClears, Exceptions
  <1>4. ASSUME NEW c \in Clients, HandleClientConnected(c) PROVE FALSE
    BY <1>4 DEF HandleClientConnected
  <1>5. CASE Stop
    BY <1>5 DEF Stop
  <1>6. CASE UNCHANGED vars
    BY <1>6 DEF vars
  <1> QED BY <1>1, <1>2, <1>3, <1>4, <1>5, <1>6 DEF Next

LEMMA ServerInvStep ==
  ASSUME TypeOK, ServerInv, [Next]_vars
  PROVE  ServerInv'
  <1>1. CASE server' = "running"
    <2>1. ASSUME NEW c \in Clients,
                 \/ ClientStep(c) \/ ReadStep(c) \/ WorkerStep(c)
                 \/ HandleClientConnected(c) /\ UNCHANGED client
          PROVE  ServerInv'
      <3>1. \A d \in Clients \ {c} : Alike(d)
        BY <1>1, <2>1, OthersAlike
      <3>2. /\ ~raced' /\ reader'[c] \notin {"none", "adding"} => c \in clients'
            /\ worker'[c] # "none" => in_heartbeat_loop'[c]
        BY <1>1, <2>1, ServerInvOwn
      <3> QED BY <1>1, <3>1, <3>2 DEF ServerInv, Alike
    <2>2. CASE Stop
      BY <1>1, <2>2, ServerOver DEF Stop
    <2>3. CASE UNCHANGED vars
      BY <2>3 DEF vars, serverVars, list, records, ServerInv
    <2> QED BY <2>1, <2>2, <2>3 DEF Next
  <1>2. CASE server' # "running"
    <2>1. \/ \E why \in {"stopped"} \cup Exceptions : ServerEnds(why)
          \/ UNCHANGED serverVars
      BY <1>2, OnlyRunning
    <2> QED BY <1>2, <2>1, ServerOver DEF ServerInv, serverVars, list, records
  <1> QED BY <1>1, <1>2

(* A client has one heartbeat worker at a time, however many callbacks and    *)
(* workers run: the flag in_heartbeat_loop is set while it has one.           *)
THEOREM WorkersAlone == Spec => []OneWorker
  <1> DEFINE IInv == TypeOK /\ ServerInv
  <1>1. Init => IInv
    BY TypeInit, ServerInvInit
  <1>2. IInv /\ [Next]_vars => IInv'
    BY TypeStep, ServerInvStep
  <1>3. IInv => OneWorker
    BY DEF ServerInv, OneWorker
  <1> QED BY <1>1, <1>2, <1>3, PTL DEF Spec

(* As long as no two changes of the list have overlapped, a callback never    *)
(* misses its client: the list has it before its first read is begun and      *)
(* until its last has been handled, whatever other clients come and go        *)
(* (Server.cs:79, 120, 192).                                                  *)
THEOREM ClientFound == Spec => []CallbackFindsClient
  <1> DEFINE IInv == TypeOK /\ ServerInv
  <1>1. Init => IInv
    BY TypeInit, ServerInvInit
  <1>2. IInv /\ [Next]_vars => IInv'
    BY TypeStep, ServerInvStep
  <1>3. IInv => CallbackFindsClient
    BY DEF ServerInv, CallbackFindsClient
  <1> QED BY <1>1, <1>2, <1>3, PTL DEF Spec

-----------------------------------------------------------------------------
(* Whose turn it is: a hello or an answer on its way up, or in the hands of   *)
(* the callback; the callback about to queue a worker; the worker, asleep or  *)
(* about to write; or a heartbeat on its way down.  Nobody, when the worker   *)
(* has returned, a packet went unread or a worker was running already.        *)
Asks(p) == p.op \in {"CS_HELLO", "CS_HEARTBEAT"}
Beats(p) == p.op = "SC_HEARTBEAT"

(* The cookies are even: none waits for its answer. *)
Even(c) == heartbeat_responses[c] = current_heartbeat_count[c]

(* The answer p will match: the last cookie saved is the next to compare. *)
Due(c, n) == heartbeat_responses[c] = current_heartbeat_count[c] + 1 /\ n = heartbeat_responses[c]

Fits(c, p) == /\ p.op = "CS_HELLO" => Even(c)
              /\ p.op = "CS_HEARTBEAT" => Due(c, p.arg)

UpTurn(c, w) ==
  /\ \A i \in 1..Len(toServer[c]) : Asks(toServer[c][i]) => w = "up" /\ Fits(c, toServer[c][i])
  /\ \A i, j \in 1..Len(toServer[c]) : Asks(toServer[c][i]) /\ Asks(toServer[c][j]) => i = j

DownTurn(c, w) ==
  /\ \A i \in 1..Len(toClient[c]) : Beats(toClient[c][i]) => w = "down" /\ Due(c, toClient[c][i].arg)
  /\ \A i, j \in 1..Len(toClient[c]) : Beats(toClient[c][i]) /\ Beats(toClient[c][j]) => i = j

ServerTurn(c, w) ==
  /\ reader[c] \in {"search", "handle"} /\ Asks(got[c]) => w = "hand" /\ Fits(c, got[c])
  /\ reader[c] = "rearm" => w = "rearm" /\ Even(c)
  /\ worker[c] = "sleep" => w = "sleep" /\ Even(c)
  /\ worker[c] = "write" => w = "write" /\ Due(c, heartbeat_responses[c])

Turn(c, w) ==
  /\ clientEnd[c] = "none" => w = "none" /\ Even(c)
  /\ UpTurn(c, w) /\ DownTurn(c, w) /\ ServerTurn(c, w)

Turns == {"none", "up", "hand", "rearm", "sleep", "write", "down", "nobody"}

TurnInv == server = "running" => \A c \in Clients : \E w \in Turns : Turn(c, w)

LEMMA TurnInit == Init => TurnInv
  <1> SUFFICES ASSUME Init, NEW c \in Clients PROVE Turn(c, "none")
    BY DEF TurnInv, Turns
  <1>1. toServer[c] = <<>> /\ toClient[c] = <<>>
    BY DEF Init, LinkInit
  <1>2. reader[c] = "none" /\ worker[c] = "none" /\ Even(c)
    BY DEF Init, ServerInit, Even
  <1>3. 1..Len(toServer[c]) = {} /\ 1..Len(toClient[c]) = {}
    BY <1>1
  <1> QED BY <1>2, <1>3 DEF Turn, UpTurn, DownTurn, ServerTurn

(* Nothing of a client changes, nothing of its turn does. *)
LEMMA TurnKept ==
  ASSUME NEW c \in Clients, NEW w, Turn(c, w), Alike(c)
  PROVE  Turn(c, w)'
  BY DEF Turn, UpTurn, DownTurn, ServerTurn, Fits, Even, Due, Alike

(* Streams that only lose packets, or gain one that asks nothing. *)
LEMMA UpShorter ==
  ASSUME NEW c \in Clients, NEW w, UpTurn(c, w),
         toServer[c] \in Seq(Packet(CS)), toServer[c] # <<>>, toServer'[c] \in AfterRead(toServer[c]),
         UNCHANGED counts
  PROVE  /\ UpTurn(c, w)'
         /\ Asks(toServer[c][1]) => \A u : UpTurn(c, u)'
  <1>1. PICK k \in 1..Len(toServer[c]) :
          /\ Len(toServer'[c]) = Len(toServer[c]) - k
          /\ \A i \in 1..Len(toServer'[c]) : toServer'[c][i] = toServer[c][i + k]
    BY AfterReadIs
  <1>2. Len(toServer[c]) \in Nat
    OBVIOUS
  <1>3. \A i \in 1..Len(toServer'[c]) : i + k \in 1..Len(toServer[c]) /\ i + k # 1
    BY <1>1, <1>2
  <1>4. \A i, j \in 1..Len(toServer'[c]) : i + k = j + k => i = j
    BY <1>1, <1>2
  <1>5. \A p : Fits(c, p)' <=> Fits(c, p)
    BY DEF Fits, Even, Due, counts
  <1>6. UpTurn(c, w)'
    BY <1>1, <1>3, <1>4, <1>5 DEF UpTurn
  <1>7. ASSUME Asks(toServer[c][1]), NEW u PROVE UpTurn(c, u)'
    <2>1. 1 \in 1..Len(toServer[c])
      BY <1>1, <1>2
    <2>2. \A i \in 1..Len(toServer'[c]) : ~Asks(toServer'[c][i])
      BY <1>1, <1>3, <1>7, <2>1 DEF UpTurn
    <2> QED BY <2>2 DEF UpTurn
  <1> QED BY <1>6, <1>7

LEMMA DownShorter ==
  ASSUME NEW c \in Clients, NEW w, DownTurn(c, w),
         toClient[c] \in Seq(Packet(SC)), toClient[c] # <<>>, toClient'[c] \in AfterRead(toClient[c]),
         UNCHANGED counts
  PROVE  /\ DownTurn(c, w)'
         /\ Beats(toClient[c][1]) => \A u : DownTurn(c, u)'
  <1>1. PICK k \in 1..Len(toClient[c]) :
          /\ Len(toClient'[c]) = Len(toClient[c]) - k
          /\ \A i \in 1..Len(toClient'[c]) : toClient'[c][i] = toClient[c][i + k]
    BY AfterReadIs
  <1>2. Len(toClient[c]) \in Nat
    OBVIOUS
  <1>3. \A i \in 1..Len(toClient'[c]) : i + k \in 1..Len(toClient[c]) /\ i + k # 1
    BY <1>1, <1>2
  <1>4. \A i, j \in 1..Len(toClient'[c]) : i + k = j + k => i = j
    BY <1>1, <1>2
  <1>5. \A n : Due(c, n)' <=> Due(c, n)
    BY DEF Due, counts
  <1>6. DownTurn(c, w)'
    BY <1>1, <1>3, <1>4, <1>5 DEF DownTurn
  <1>7. ASSUME Beats(toClient[c][1]), NEW u PROVE DownTurn(c, u)'
    <2>1. 1 \in 1..Len(toClient[c])
      BY <1>1, <1>2
    <2>2. \A i \in 1..Len(toClient'[c]) : ~Beats(toClient'[c][i])
      BY <1>1, <1>3, <1>7, <2>1 DEF DownTurn
    <2> QED BY <2>2 DEF DownTurn
  <1> QED BY <1>6, <1>7

(* One packet more: the turn stays if it asks nothing, and goes up with it if *)
(* no other asks.                                                             *)
LEMMA UpLonger ==
  ASSUME TypeOK, NEW c \in Clients, NEW w, UpTurn(c, w), NEW p \in Packet(CS), SendUp(c, p),
         UNCHANGED counts
  PROVE  /\ ~Asks(p) => UpTurn(c, w)'
         /\ w # "up" /\ Fits(c, p) => UpTurn(c, "up")'
  <1>1. toServer[c] \in Seq(Packet(CS)) /\ Len(toServer[c]) \in Nat
    BY DEF TypeOK, LinkTypeOK
  <1>2. \A q : Fits(c, q)' <=> Fits(c, q)
    BY DEF Fits, Even, Due, counts
  <1>3. CASE toServer' = toServer
    BY <1>2, <1>3 DEF UpTurn
  <1>4. CASE toServer'[c] = Append(toServer[c], p)
    <2>1. /\ Len(toServer'[c]) = Len(toServer[c]) + 1 /\ toServer'[c][Len(toServer[c]) + 1] = p
          /\ \A i \in 1..Len(toServer[c]) : toServer'[c][i] = toServer[c][i]
      BY <1>1, <1>4, AppendIs
    <2>2. \A i \in 1..Len(toServer'[c]) : i \in 1..Len(toServer[c]) \/ i = Len(toServer[c]) + 1
      BY <1>1, <2>1
    <2>3. ~Asks(p) => UpTurn(c, w)'
      BY <1>2, <2>1, <2>2 DEF UpTurn
    <2>4. w # "up" => \A i \in 1..Len(toServer[c]) : ~Asks(toServer[c][i])
      BY DEF UpTurn
    <2>5. w # "up" /\ Fits(c, p) => UpTurn(c, "up")'
      BY <1>2, <2>1, <2>2, <2>4 DEF UpTurn
    <2> QED BY <2>3, <2>5
  <1> QED BY <1>3, <1>4 DEF SendUp, TypeOK, LinkTypeOK

LEMMA DownLonger ==
  ASSUME TypeOK, NEW c \in Clients, NEW w, DownTurn(c, w), NEW p \in Packet(SC), SendDown(c, p),
         UNCHANGED counts
  PROVE  /\ ~Beats(p) => DownTurn(c, w)'
         /\ w # "down" /\ Due(c, p.arg) => DownTurn(c, "down")'
  <1>1. toClient[c] \in Seq(Packet(SC)) /\ Len(toClient[c]) \in Nat
    BY DEF TypeOK, LinkTypeOK
  <1>2. \A n : Due(c, n)' <=> Due(c, n)
    BY DEF Due, counts
  <1>3. CASE toClient' = toClient
    BY <1>2, <1>3 DEF DownTurn
  <1>4. CASE toClient'[c] = Append(toClient[c], p)
    <2>1. /\ Len(toClient'[c]) = Len(toClient[c]) + 1 /\ toClient'[c][Len(toClient[c]) + 1] = p
          /\ \A i \in 1..Len(toClient[c]) : toClient'[c][i] = toClient[c][i]
      BY <1>1, <1>4, AppendIs
    <2>2. \A i \in 1..Len(toClient'[c]) : i \in 1..Len(toClient[c]) \/ i = Len(toClient[c]) + 1
      BY <1>1, <2>1
    <2>3. ~Beats(p) => DownTurn(c, w)'
      BY <1>2, <2>1, <2>2 DEF DownTurn
    <2>4. w # "down" => \A i \in 1..Len(toClient[c]) : ~Beats(toClient[c][i])
      BY DEF DownTurn
    <2>5. w # "down" /\ Due(c, p.arg) => DownTurn(c, "down")'
      BY <1>2, <2>1, <2>2, <2>4 DEF DownTurn
    <2> QED BY <2>3, <2>5
  <1> QED BY <1>3, <1>4 DEF SendDown, TypeOK, LinkTypeOK

(* Where nobody asks, the turn may go anywhere. *)
LEMMA TurnMoves ==
  ASSUME NEW c \in Clients, NEW w, NEW u
  PROVE  /\ UpTurn(c, w) /\ w # "up" => UpTurn(c, u)
         /\ DownTurn(c, w) /\ w # "down" => DownTurn(c, u)
         /\ ServerTurn(c, w) /\ w \notin {"hand", "rearm", "sleep", "write"} => ServerTurn(c, u)
  BY DEF UpTurn, DownTurn, ServerTurn

(* A stream where nobody asks does not mind what is counted. *)
LEMMA QuietMoves ==
  ASSUME NEW c \in Clients, NEW w, NEW u
  PROVE  /\ UpTurn(c, w) /\ w # "up" /\ toServer'[c] = toServer[c] => UpTurn(c, u)'
         /\ DownTurn(c, w) /\ w # "down" /\ toClient'[c] = toClient[c] => DownTurn(c, u)'
  BY DEF UpTurn, DownTurn

LEMMA TurnClient ==
  ASSUME TypeOK, NEW c \in Clients, NEW w \in Turns, Turn(c, w), ClientStep(c)
  PROVE  \E u \in Turns : Turn(c, u)'
  <1>1. UpTurn(c, w) /\ DownTurn(c, w) /\ ServerTurn(c, w)
    BY DEF Turn
  <1>2. UNCHANGED counts /\ \A u : ServerTurn(c, u) => ServerTurn(c, u)'
    BY DEF ClientStep, serverVars, list, records, counts, ServerTurn, Fits, Even, Due
  <1>3. UNCHANGED toClient => \A u : DownTurn(c, u) => DownTurn(c, u)'
    BY <1>2 DEF DownTurn, Due, counts
  <1>4. UNCHANGED toServer => \A u : UpTurn(c, u) => UpTurn(c, u)'
    BY <1>2 DEF UpTurn, Fits, Even, Due, counts
  <1>5. CASE Initialize(c)
    <2>1. w = "none" /\ Even(c) /\ clientEnd'[c] = "open"
      BY <1>5 DEF Initialize, Turn, TypeOK, LinkTypeOK
    <2>2. PICK n \in 0..1 : SendUp(c, Pkt("CS_HELLO", n))
      BY <1>5 DEF Initialize
    <2>3. Pkt("CS_HELLO", n) \in Packet(CS) /\ Fits(c, Pkt("CS_HELLO", n))
      BY <2>1 DEF Pkt, Packet, CS, Fits
    <2>4. UpTurn(c, "up")'
      BY <1>1, <1>2, <2>1, <2>2, <2>3, UpLonger
    <2>5. DownTurn(c, "up")' /\ ServerTurn(c, "up")'
      BY <1>1, <1>2, <1>3, <1>5, <2>1, TurnMoves DEF Initialize
    <2> QED BY <2>1, <2>4, <2>5 DEF Turn, Turns
  <1>6. CASE ProcessRequests(c)
    <2> DEFINE p == toClient[c][1]
    <2>1. /\ toClient[c] \in Seq(Packet(SC)) /\ toClient[c] # <<>>
          /\ toClient'[c] \in AfterRead(toClient[c]) /\ clientEnd'[c] = "open"
      BY <1>6 DEF ProcessRequests, TypeOK, LinkTypeOK
    <2>2. Head(toClient[c]) = p /\ p \in Packet(SC) /\ 1 \in 1..Len(toClient[c])
      BY <2>1
    <2>3. DownTurn(c, w)' /\ (Beats(p) => \A u : DownTurn(c, u)')
      BY <1>1, <1>2, <2>1, DownShorter
    <2>4. CASE UNCHANGED toServer
      <3>1. UpTurn(c, w)' /\ ServerTurn(c, w)'
        BY <1>1, <1>2, <1>4, <2>4
      <3> QED BY <2>1, <2>3, <3>1 DEF Turn
    <2>5. CASE Beats(p) /\ SendUp(c, Pkt("CS_HEARTBEAT", p.arg))
      <3>1. w = "down" /\ Due(c, p.arg)
        BY <1>1, <2>2, <2>5 DEF DownTurn
      <3>2. Pkt("CS_HEARTBEAT", p.arg) \in Packet(CS) /\ Fits(c, Pkt("CS_HEARTBEAT", p.arg))
        BY <2>2, <3>1 DEF Pkt, Packet, CS, Fits
      <3>3. UpTurn(c, "up")'
        BY <1>1, <1>2, <2>5, <3>1, <3>2, UpLonger
      <3>4. ServerTurn(c, "up")'
        BY <1>1, <1>2, <3>1, TurnMoves
      <3> QED BY <2>1, <2>3, <2>5, <3>3, <3>4 DEF Turn, Turns
    <2> QED BY <1>6, <2>2, <2>4, <2>5 DEF ProcessRequests, Beats
  <1>7. CASE RecvError(c) \/ Die(c)
    <2>1. clientEnd'[c] # "none" /\ UNCHANGED <<toServer, toClient>>
      BY <1>7 DEF RecvError, Die, TypeOK, LinkTypeOK
    <2> QED BY <1>1, <1>2, <1>3, <1>4, <2>1 DEF Turn
  <1>8. ASSUME NEW op \in {"CS_FLAGGED_CHEATER", "CS_GOODBYE"}, SendUp(c, Pkt(op, 0)),
               UNCHANGED toClient, clientEnd'[c] # "none"
        PROVE  Turn(c, w)'
    <2>1. Pkt(op, 0) \in Packet(CS) /\ ~Asks(Pkt(op, 0))
      BY DEF Pkt, Packet, CS, Asks
    <2>2. UpTurn(c, w)'
      BY <1>1, <1>2, <1>8, <2>1, UpLonger
    <2> QED BY <1>1, <1>2, <1>3, <1>8, <2>2 DEF Turn
  <1>9. CASE FlagCheater(c) \/ EndConnection(c)
    BY <1>8, <1>9 DEF FlagCheater, EndConnection, TypeOK, LinkTypeOK
  <1> QED BY <1>5, <1>6, <1>7, <1>9 DEF ClientStep

LEMMA TurnRead ==
  ASSUME TypeOK, NEW c \in Clients, NEW w \in Turns, Turn(c, w), ReadStep(c), server' = "running"
  PROVE  \E u \in Turns : Turn(c, u)'
  <1>0. \A why \in {"stopped"} \cup Exceptions : ~ServerEnds(why)
    BY ServerOver
  <1>1. /\ UpTurn(c, w) /\ DownTurn(c, w) /\ ServerTurn(c, w)
        /\ clientEnd[c] = "none" => w = "none" /\ Even(c)
    BY DEF Turn
  <1>2. UNCHANGED counts => /\ \A p : Fits(c, p) => Fits(c, p)'
                            /\ \A n : Due(c, n) => Due(c, n)'
                            /\ Even(c) => Even(c)'
    BY DEF Fits, Even, Due, counts
  <1>3. UNCHANGED counts /\ UNCHANGED toClient => \A u : DownTurn(c, u) => DownTurn(c, u)'
    BY DEF DownTurn, Due, counts
  <1>4. UNCHANGED counts /\ UNCHANGED toServer => \A u : UpTurn(c, u) => UpTurn(c, u)'
    BY DEF UpTurn, Fits, Even, Due, counts
  <1>5. toServer'[c] = <<>> => \A u : UpTurn(c, u)'
    BY DEF UpTurn
  <1>6. CASE EndReadData(c)
    <2> DEFINE p == toServer[c][1]
    <2>1. /\ toServer[c] \in Seq(Packet(CS)) /\ toServer[c] # <<>>
          /\ toServer'[c] \in AfterRead(toServer[c])
          /\ reader'[c] = "search" /\ UNCHANGED <<toClient, clientEnd, worker, counts>>
      BY <1>6 DEF EndReadData, Reader, list, records, TypeOK, LinkTypeOK, ServerTypeOK
    <2>2. Head(toServer[c]) = p /\ 1 \in 1..Len(toServer[c])
      BY <2>1
    <2>3. got'[c] = p
      BY <1>6, <2>2 DEF EndReadData, TypeOK, ServerTypeOK
    <2>4. UpTurn(c, w)' /\ (Asks(p) => \A u : UpTurn(c, u)')
      BY <1>1, <2>1, UpShorter
    <2>5. CASE Asks(p)
      <3>1. w = "up" /\ Fits(c, p)
        BY <1>1, <2>2, <2>5 DEF UpTurn
      <3>2. DownTurn(c, "hand")'
        BY <1>1, <1>3, <2>1, <3>1, TurnMoves
      <3>3. ServerTurn(c, "hand")'
        BY <1>1, <1>2, <2>1, <2>3, <3>1 DEF ServerTurn
      <3>4. clientEnd'[c] # "none"
        BY <1>1, <2>1, <3>1
      <3> QED BY <2>4, <2>5, <3>2, <3>3, <3>4 DEF Turn, Turns
    <2>6. CASE ~Asks(p)
      <3>1. DownTurn(c, w)'
        BY <1>1, <1>3, <2>1
      <3>2. worker[c] = "write" => Due(c, heartbeat_responses[c])' /\ w = "write"
        BY <1>1, <2>1 DEF ServerTurn, Due, counts
      <3>3. ServerTurn(c, w)'
        BY <1>1, <1>2, <2>1, <2>3, <2>6, <3>2 DEF ServerTurn
      <3>4. Even(c) => Even(c)'
        BY <1>2, <2>1
      <3> QED BY <1>1, <2>1, <2>4, <3>1, <3>3, <3>4 DEF Turn
    <2> QED BY <2>5, <2>6
  (* Where the turn stays. *)
  <1>7. ASSUME UNCHANGED <<toClient, clientEnd, worker, counts>>,
               toServer'[c] = toServer[c] \/ toServer'[c] = <<>>,
               \/ reader'[c] \in {"none", "pending"}
               \/ reader'[c] = "search" /\ got'[c] = EOF
               \/ reader'[c] = "handle" /\ reader[c] = "search" /\ got'[c] = got[c]
        PROVE  Turn(c, w)'
    <2>1. UpTurn(c, w)'
      BY <1>1, <1>5, <1>7 DEF UpTurn, Fits, Even, Due, counts
    <2>2. DownTurn(c, w)'
      BY <1>1, <1>3, <1>7
    <2>3. ~Asks(EOF)
      BY DEF Asks, EOF
    <2>4. worker[c] = "write" => Due(c, heartbeat_responses[c])' /\ w = "write"
      BY <1>1, <1>7 DEF ServerTurn, Due, counts
    <2>5. ServerTurn(c, w)'
      BY <1>1, <1>2, <1>7, <2>3, <2>4 DEF ServerTurn
    <2>6. Even(c) => Even(c)'
      BY <1>2, <1>7
    <2> QED BY <1>1, <1>7, <2>1, <2>2, <2>5, <2>6 DEF Turn
  <1>8. CASE EndReadEOF(c) \/ EndReadThrows(c)
    <2>1. ~ServerEnds("NotConnected")
      BY <1>0 DEF Exceptions
    <2> QED BY <1>7, <1>8, <2>1 DEF EndReadEOF, EndReadThrows, Reader, link, records, TypeOK, ServerTypeOK
  <1>9. CASE FindClient(c)
    <2>1. ~ServerEnds("NullReference") /\ ~EnumerationThrows(c)
      BY <1>0, EnumerationEnds DEF Exceptions
    <2> QED BY <1>7, <1>9, <2>1 DEF FindClient, Reader, link, records, TypeOK, ServerTypeOK
  <1>10. ASSUME Refuse(c) PROVE Turn(c, w)'
    <2>1. ~ServerEnds("DisconnectFailed")
      BY <1>0 DEF Exceptions
    <2> QED BY <1>7, <1>10, <2>1 DEF Refuse, Drop, Reader, list, records, TypeOK, LinkTypeOK, ServerTypeOK
  (* The callback goes on with what it had in hand. *)
  <1>11. ASSUME reader[c] = "handle", Asks(got[c]), Handled(c), Even(c)',
                DownTurn(c, "rearm")', clientEnd'[c] # "none"
         PROVE  Turn(c, "rearm")'
    <2>1. w = "hand"
      BY <1>1, <1>11 DEF ServerTurn
    <2>2. UpTurn(c, "rearm")'
      BY <1>1, <1>11, <2>1, QuietMoves DEF Handled
    <2>3. reader'[c] = "rearm" /\ UNCHANGED worker
      BY <1>11 DEF Handled, Reader, TypeOK, ServerTypeOK
    <2>4. ServerTurn(c, "rearm")'
      BY <1>1, <1>11, <2>1, <2>3 DEF ServerTurn
    <2> QED BY <1>1, <1>11, <2>1, <2>2, <2>3, <2>4 DEF Turn
  <1>12. CASE HandleHello(c)
    <2>1. ~ServerEnds("WriteFailed")
      BY <1>0 DEF Exceptions
    <2>2. reader[c] = "handle" /\ Asks(got[c]) /\ w = "hand" /\ Even(c)
      BY <1>1, <1>12 DEF HandleHello, Handling, ServerTurn, Asks, Fits
    <2>3. CASE SendDown(c, Pkt("SC_HELLO", 0)) /\ Handled(c) /\ UNCHANGED counts
      <3>1. Pkt("SC_HELLO", 0) \in Packet(SC) /\ ~Beats(Pkt("SC_HELLO", 0))
        BY DEF Pkt, Packet, SC, Beats
      <3>2. DownTurn(c, "rearm")
        BY <1>1, <2>2, TurnMoves
      <3>3. DownTurn(c, "rearm")'
        BY <2>3, <3>1, <3>2, DownLonger
      <3>4. clientEnd'[c] # "none"
        BY <1>1, <2>2, <2>3 DEF SendDown, TypeOK, LinkTypeOK
      <3> QED BY <1>2, <1>11, <2>2, <2>3, <3>3, <3>4 DEF Turns
    <2> QED BY <1>10, <1>12, <2>1, <2>3 DEF HandleHello
  <1>13. CASE HandleHeartbeat(c)
    <2>1. reader[c] = "handle" /\ Asks(got[c]) /\ w = "hand" /\ Due(c, got[c].arg)
      BY <1>1, <1>13 DEF HandleHeartbeat, Handling, ServerTurn, Asks, Fits
    <2>2. /\ current_heartbeat_count[c] \in Nat
          /\ heartbeat_responses[c] = current_heartbeat_count[c] + 1
          /\ got[c].arg = current_heartbeat_count[c] + 1
      BY <2>1 DEF Due, TypeOK, ServerTypeOK
    <2>3. /\ current_heartbeat_count' = [current_heartbeat_count EXCEPT ![c] = @ + 1]
          /\ Handled(c) /\ UNCHANGED <<toClient, clientEnd, heartbeat_responses>>
      BY <1>13, <2>2 DEF HandleHeartbeat
    <2>4. Even(c)'
      BY <2>2, <2>3 DEF Even, TypeOK, ServerTypeOK
    <2>5. DownTurn(c, "rearm")'
      BY <1>1, <2>1, <2>3, QuietMoves
    <2>6. clientEnd'[c] # "none"
      BY <1>1, <2>1, <2>3
    <2> QED BY <1>11, <2>1, <2>3, <2>4, <2>5, <2>6 DEF Turns
  <1>14. CASE HandleFlagged(c) \/ HandleGoodbye(c)
    BY <1>0, <1>10, <1>14 DEF HandleFlagged, HandleGoodbye, Detections, Exceptions
  <1>15. CASE HandleEOF(c) \/ Remove(c) \/ BeginFirstRead(c)
    <2>1. ~ServerEnds("IndexOutOfRange") /\ ~EnumerationThrows(c)
      BY <1>0, EnumerationEnds DEF Exceptions
    <2>2. /\ UNCHANGED <<toClient, clientEnd, worker, counts>>
          /\ toServer'[c] = toServer[c] \/ toServer'[c] = <<>>
      BY <1>15, <2>1 DEF HandleEOF, Remove, BeginFirstRead, Drop, link, records, TypeOK, LinkTypeOK
    <2>3. CASE reader'[c] \in {"none", "pending"}
      BY <1>7, <2>2, <2>3
    <2>4. CASE reader'[c] = "removing"
      <3>1. UpTurn(c, w)' /\ DownTurn(c, w)'
        BY <1>1, <1>3, <1>5, <2>2 DEF UpTurn, Fits, Even, Due, counts
      <3>2. worker[c] = "write" => Due(c, heartbeat_responses[c])' /\ w = "write"
        BY <1>1, <2>2 DEF ServerTurn, Due, counts
      <3>3. ServerTurn(c, w)' /\ (Even(c) => Even(c)')
        BY <1>1, <1>2, <2>2, <2>4, <3>2 DEF ServerTurn
      <3> QED BY <1>1, <2>2, <3>1, <3>3 DEF Turn
    <2> QED BY <1>15, <2>1, <2>3, <2>4 DEF HandleEOF, Remove, BeginFirstRead, Drop, Reader, TypeOK, ServerTypeOK
  <1>16. CASE Rearm(c)
    <2>1. w = "rearm" /\ Even(c) /\ reader'[c] = "pending" /\ UNCHANGED <<link, counts>>
      BY <1>1, <1>16 DEF Rearm, Reader, ServerTurn, TypeOK, ServerTypeOK
    <2>2. \A u : UpTurn(c, u)' /\ DownTurn(c, u)'
      BY <1>1, <2>1, QuietMoves DEF link
    <2>3. Even(c)' /\ clientEnd'[c] # "none"
      BY <1>1, <1>2, <2>1 DEF link
    <2>4. CASE worker'[c] = "sleep"
      <3>1. ServerTurn(c, "sleep")'
        BY <2>1, <2>3, <2>4 DEF ServerTurn
      <3> QED BY <2>2, <2>3, <3>1 DEF Turn, Turns
    <2>5. CASE worker'[c] = worker[c]
      <3>1. ServerTurn(c, "nobody")'
        BY <1>1, <2>1, <2>5 DEF ServerTurn
      <3> QED BY <2>2, <2>3, <3>1 DEF Turn, Turns
    <2> QED BY <1>16, <2>4, <2>5 DEF Rearm, TypeOK, ServerTypeOK
  <1> QED BY <1>6, <1>8, <1>9, <1>12, <1>13, <1>14, <1>15, <1>16 DEF ReadStep

LEMMA TurnWorker ==
  ASSUME TypeOK, NEW c \in Clients, NEW w \in Turns, Turn(c, w), WorkerStep(c), server' = "running"
  PROVE  \E u \in Turns : Turn(c, u)'
  <1>1. /\ UpTurn(c, w) /\ DownTurn(c, w) /\ ServerTurn(c, w)
        /\ clientEnd[c] = "none" => w = "none" /\ Even(c)
    BY DEF Turn
  <1>2. CASE WorkerWakes(c)
    <2>1. /\ w = "sleep" /\ Even(c)
          /\ UNCHANGED <<link, reader, got, current_heartbeat_count>>
      BY <1>1, <1>2 DEF WorkerWakes, ServerTurn
    <2>2. \A u : UpTurn(c, u)' /\ DownTurn(c, u)'
      BY <1>1, <2>1, QuietMoves DEF link
    <2>3. clientEnd'[c] # "none"
      BY <1>1, <2>1 DEF link
    <2>4. CASE /\ heartbeat_responses' = [heartbeat_responses EXCEPT ![c] = @ + 1]
               /\ Worker(c, "write")
      <3>1. Due(c, heartbeat_responses[c])' /\ worker'[c] = "write"
        BY <2>1, <2>4 DEF Due, Even, Worker, TypeOK, ServerTypeOK
      <3>2. ServerTurn(c, "write")'
        BY <1>1, <2>1, <3>1 DEF ServerTurn
      <3> QED BY <2>2, <2>3, <3>2 DEF Turn, Turns
    <2>5. CASE Worker(c, "none")
      <3>1. worker'[c] = "none"
        BY <2>5 DEF Worker, TypeOK, ServerTypeOK
      <3>2. ServerTurn(c, "nobody")'
        BY <1>1, <2>1, <3>1 DEF ServerTurn
      <3> QED BY <2>2, <2>3, <3>2 DEF Turn, Turns
    <2> QED BY <1>2, <2>4, <2>5 DEF WorkerWakes
  <1>3. CASE WorkerWrites(c)
    <2>1. w = "write" /\ Due(c, heartbeat_responses[c]) /\ UNCHANGED <<reader, got, records>>
      BY <1>1, <1>3 DEF WorkerWrites, ServerTurn
    <2>2. clientEnd'[c] # "none"
      BY <1>1, <1>3, <2>1 DEF WorkerWrites, SendDown, TypeOK, LinkTypeOK
    <2>3. CASE /\ SendDown(c, Pkt("SC_HEARTBEAT", heartbeat_responses[c])) /\ Worker(c, "clear")
               /\ UNCHANGED toServer
      <3> DEFINE p == Pkt("SC_HEARTBEAT", heartbeat_responses[c])
      <3>1. p \in Packet(SC) /\ Due(c, p.arg)
        BY <2>1 DEF Pkt, Packet, SC, TypeOK, ServerTypeOK
      <3>2. DownTurn(c, "down")'
        BY <1>1, <2>1, <2>3, <3>1, DownLonger DEF records
      <3>3. UpTurn(c, "down")'
        BY <1>1, <2>1, <2>3, QuietMoves
      <3>4. worker'[c] = "clear"
        BY <2>3 DEF Worker, TypeOK, ServerTypeOK
      <3>5. ServerTurn(c, "down")'
        BY <1>1, <2>1, <3>4 DEF ServerTurn
      <3> QED BY <2>2, <3>2, <3>3, <3>5 DEF Turn, Turns
    (* Disconnected: nobody goes on. *)
    <2>4. CASE /\ toServer' = [toServer EXCEPT ![c] = <<>>] /\ Worker(c, "none")
               /\ UNCHANGED toClient
      <3>1. toServer'[c] = <<>> /\ worker'[c] = "none"
        BY <2>4 DEF Worker, TypeOK, LinkTypeOK, ServerTypeOK
      <3>2. UpTurn(c, "nobody")'
        BY <3>1 DEF UpTurn
      <3>3. DownTurn(c, "nobody")'
        BY <1>1, <2>1, <2>4, QuietMoves
      <3>4. ServerTurn(c, "nobody")'
        BY <1>1, <2>1, <3>1 DEF ServerTurn
      <3> QED BY <2>2, <3>2, <3>3, <3>4 DEF Turn, Turns
    <2> QED BY <1>3, <2>3, <2>4 DEF WorkerWrites
  <1>5. CASE WorkerWriteThrows(c)
    <2>1. ~ServerEnds("WriteFailed") /\ ~ServerEnds("DisconnectFailed")
      BY ServerOver DEF Exceptions
    <2> QED BY <1>5, <2>1 DEF WorkerWriteThrows
  <1>4. CASE WorkerClears(c)
    <2>1. UNCHANGED <<link, reader, got, counts>> /\ worker'[c] = "none"
      BY <1>4 DEF WorkerClears, Worker, TypeOK, ServerTypeOK
    <2>2. UpTurn(c, w)' /\ DownTurn(c, w)'
      BY <1>1, <2>1 DEF UpTurn, DownTurn, Fits, Even, Due, counts, link
    <2>3. ServerTurn(c, w)' /\ (Even(c) => Even(c)')
      BY <1>1, <2>1 DEF ServerTurn, Fits, Even, Due, counts
    <2> QED BY <1>1, <2>1, <2>2, <2>3 DEF Turn, link
  <1> QED BY <1>2, <1>3, <1>4, <1>5 DEF WorkerStep

(* A server that has ended does not run again. *)
LEMMA StillRunning ==
  ASSUME [Next]_vars, server' = "running"
  PROVE  server = "running"
  <1>1. ASSUME NEW c \in Clients, ReadStep(c) PROVE server = "running"
    BY <1>1 DEF ReadStep, EndReadData, EndReadEOF, EndReadThrows, FindClient, HandleHello,
                HandleHeartbeat, HandleFlagged, HandleGoodbye, HandleEOF, Handling, Remove,
                BeginFirstRead, Rearm
  <1>2. ASSUME NEW c \in Clients, ClientStep(c) \/ WorkerStep(c) \/ HandleClientConnected(c)
        PROVE  server = "running"
    BY <1>2 DEF ClientStep, serverVars, WorkerStep, WorkerWakes, WorkerWrites, WorkerWriteThrows, WorkerClears,
                HandleClientConnected
  <1> QED BY <1>1, <1>2 DEF Next, Stop, vars, serverVars

LEMMA TurnStep ==
  ASSUME TypeOK, TurnInv, [Next]_vars
  PROVE  TurnInv'
  <1> SUFFICES ASSUME server' = "running", NEW d \in Clients PROVE \E u \in Turns : Turn(d, u)'
    BY DEF TurnInv
  <1>1. server = "running"
    BY StillRunning
  <1>2. PICK w \in Turns : Turn(d, w)
    BY <1>1 DEF TurnInv
  <1>3. ASSUME NEW c \in Clients, c # d,
               \/ ClientStep(c) \/ ReadStep(c) \/ WorkerStep(c)
               \/ HandleClientConnected(c) /\ UNCHANGED client
        PROVE  \E u \in Turns : Turn(d, u)'
    <2>1. Alike(d)
      BY <1>3, OthersAlike
    <2> QED BY <1>2, <2>1, TurnKept
  <1>4. CASE ClientStep(d) \/ ReadStep(d) \/ WorkerStep(d)
    BY <1>2, <1>4, TurnClient, TurnRead, TurnWorker
  <1>5. CASE HandleClientConnected(d)
    <2>1. /\ reader'[d] = "adding"
          /\ UNCHANGED <<toServer, toClient, clientEnd, got, worker, counts>>
      BY <1>5 DEF HandleClientConnected, Reader, list, records, TypeOK, ServerTypeOK
    <2>2. Turn(d, w)'
      BY <1>2, <2>1 DEF Turn, UpTurn, DownTurn, ServerTurn, Fits, Even, Due, counts
    <2> QED BY <2>2
  <1>6. CASE Stop
    BY <1>6, ServerOver DEF Stop
  <1>7. CASE UNCHANGED vars
    <2>1. Alike(d)
      BY <1>7 DEF vars, link, serverVars, list, records, counts, Alike
    <2> QED BY <1>2, <2>1, TurnKept
  <1> QED BY <1>3, <1>4, <1>5, <1>6, <1>7 DEF Next

(* An honest client's answer is never refused, and never compared with a      *)
(* cookie that was not saved, although packets run together in a read, are    *)
(* lost, and hellos, flags and farewells come between: the cookie in hand is  *)
(* the last one saved and the next one due.                                   *)
THEOREM AnswersAlwaysMatch == Spec => []AnswersMatch
  <1> DEFINE IInv == TypeOK /\ ServerInv /\ TurnInv
  <1>1. Init => IInv
    BY TypeInit, ServerInvInit, TurnInit
  <1>2. IInv /\ [Next]_vars => IInv'
    BY TypeStep, ServerInvStep, TurnStep
  <1>3. IInv => AnswersMatch
    <2> SUFFICES ASSUME IInv, NEW c \in Clients, reader[c] = "handle", got[c].op = "CS_HEARTBEAT"
                 PROVE  /\ current_heartbeat_count[c] < heartbeat_responses[c]
                        /\ got[c].arg = current_heartbeat_count[c] + 1
      BY DEF AnswersMatch
    <2>1. server = "running"
      BY DEF ServerInv
    <2>2. PICK w \in Turns : Turn(c, w)
      BY <2>1 DEF TurnInv
    <2>3. Due(c, got[c].arg)
      BY <2>2 DEF Turn, ServerTurn, Asks, Fits
    <2>4. current_heartbeat_count[c] \in Nat
      BY DEF TypeOK, ServerTypeOK
    <2> QED BY <2>3, <2>4 DEF Due
  <1> QED BY <1>1, <1>2, <1>3, PTL DEF Spec

-----------------------------------------------------------------------------
(* Each session implements Heartbeats.                                        *)

LEMMA BeatInit ==
  ASSUME NEW c \in Clients, Init
  PROVE  Beating(c)!Init
  BY DEF Init, LinkInit, ServerInit, Ended, Beating!Init

(* What a step of a client does to the server's end and to the cookies. *)
Moves(c) ==
  /\ serverEnd[c] = "closed" => serverEnd'[c] = "closed"
  /\ \/ /\ heartbeat_responses'[c] = heartbeat_responses[c]
        /\ current_heartbeat_count'[c] = current_heartbeat_count[c]
     \/ /\ worker[c] = "sleep"
        /\ heartbeat_responses'[c] = heartbeat_responses[c] + 1
        /\ current_heartbeat_count'[c] = current_heartbeat_count[c]
     \/ /\ reader[c] = "handle" /\ got[c].op = "CS_HEARTBEAT"
        /\ heartbeat_responses'[c] = heartbeat_responses[c]
        /\ current_heartbeat_count'[c] = current_heartbeat_count[c] + 1

LEMMA OwnMoves ==
  ASSUME TypeOK, NEW c \in Clients, server' = "running",
         ClientStep(c) \/ ReadStep(c) \/ WorkerStep(c) \/ HandleClientConnected(c)
  PROVE  Moves(c)
  <1>0. \A why \in {"stopped"} \cup Exceptions : ~ServerEnds(why)
    BY ServerOver
  <1>1. CASE ClientStep(c)
    BY <1>1 DEF ClientStep, Initialize, ProcessRequests, RecvError, FlagCheater, EndConnection, Die,
                serverVars, list, records, counts, Moves
  <1>2. CASE EndReadData(c) \/ EndReadEOF(c) \/ EndReadThrows(c) \/ Rearm(c) \/ BeginFirstRead(c)
    <2>1. ~ServerEnds("NotConnected")
      BY <1>0 DEF Exceptions
    <2> QED BY <1>2, <2>1 DEF EndReadData, EndReadEOF, EndReadThrows, Rearm, BeginFirstRead, link,
                              records, counts, Moves
  <1>3. CASE FindClient(c) \/ HandleEOF(c) \/ Remove(c)
    <2>1. /\ ~ServerEnds("NullReference") /\ ~ServerEnds("IndexOutOfRange")
          /\ ~EnumerationThrows(c)
      BY <1>0, EnumerationEnds DEF Exceptions
    <2> QED BY <1>3, <2>1 DEF FindClient, HandleEOF, Remove, Drop, link, records, counts, Moves,
                              TypeOK, LinkTypeOK
  <1>4. ASSUME Refuse(c) PROVE Moves(c)
    <2>1. ~ServerEnds("DisconnectFailed")
      BY <1>0 DEF Exceptions
    <2> QED BY <1>4, <2>1 DEF Refuse, Drop, list, records, counts, Moves, TypeOK, LinkTypeOK
  <1>5. CASE HandleHello(c)
    <2>1. ~ServerEnds("WriteFailed")
      BY <1>0 DEF Exceptions
    <2> QED BY <1>4, <1>5, <2>1 DEF HandleHello, Handled, counts, Moves
  <1>6. CASE HandleHeartbeat(c)
    <2>1. ~ServerEnds("IndexOutOfRange")
      BY <1>0 DEF Exceptions
    <2> QED BY <1>4, <1>6, <2>1 DEF HandleHeartbeat, Handling, Handled, Moves, TypeOK, ServerTypeOK
  <1>7. CASE HandleFlagged(c) \/ HandleGoodbye(c)
    BY <1>0, <1>4, <1>7 DEF HandleFlagged, HandleGoodbye, Detections, Exceptions
  <1>8. CASE WorkerStep(c)
    <2>1. ~ServerEnds("WriteFailed") /\ ~ServerEnds("DisconnectFailed")
      BY <1>0 DEF Exceptions
    <2> QED BY <1>8, <2>1 DEF WorkerStep, WorkerWakes, WorkerWrites, WorkerWriteThrows, WorkerClears, link, list, records, counts,
                             Moves, TypeOK, LinkTypeOK, ServerTypeOK
  <1>9. CASE HandleClientConnected(c)
    BY <1>9 DEF HandleClientConnected, list, records, counts, Moves
  <1> QED BY <1>1, <1>2, <1>3, <1>5, <1>6, <1>7, <1>8, <1>9 DEF ReadStep

LEMMA StepMoves ==
  ASSUME TypeOK, NEW c \in Clients, [Next]_vars, server' = "running"
  PROVE  Moves(c)
  <1>1. Alike(c) => Moves(c)
    BY DEF Alike, Moves
  <1>2. ASSUME NEW d \in Clients, d # c,
               \/ ClientStep(d) \/ ReadStep(d) \/ WorkerStep(d)
               \/ HandleClientConnected(d) /\ UNCHANGED client
        PROVE  Moves(c)
    BY <1>1, <1>2, OthersAlike
  <1>3. ~Stop
    BY ServerOver DEF Stop
  <1>4. CASE UNCHANGED vars
    BY <1>4 DEF vars, link, serverVars, list, records, counts, Moves
  <1> QED BY <1>2, <1>3, <1>4, OwnMoves DEF Next

(* A server that is over stays so, and so does a connection it has closed. *)
LEMMA EndedStays ==
  ASSUME TypeOK, ServerInv, NEW c \in Clients, Ended(c), [Next]_vars
  PROVE  Ended(c)'
  <1>1. CASE server' # "running"
    BY <1>1 DEF Ended
  <1>2. CASE server' = "running"
    <2>1. server = "running"
      BY <1>2, StillRunning
    <2>2. serverEnd[c] = "closed"
      BY <2>1 DEF Ended
    <2>3. serverEnd'[c] = "closed"
      BY <1>2, <2>2, StepMoves DEF Moves
    <2> QED BY <2>3 DEF Ended
  <1> QED BY <1>1, <1>2

LEMMA BeatStep ==
  ASSUME TypeOK, ServerInv, TurnInv, NEW c \in Clients, [Next]_vars
  PROVE  [Beating(c)!Next]_(Beating(c)!beats)
  <1>1. CASE Ended(c)
    BY <1>1, EndedStays DEF Beating!beats
  <1>2. CASE ~Ended(c) /\ Ended(c)'
    BY <1>2 DEF Beating!Next, Beating!End
  <1>3. CASE ~Ended(c) /\ ~Ended(c)'
    <2>1. /\ server = "running" /\ server' = "running"
          /\ heartbeat_responses[c] \in Nat /\ current_heartbeat_count[c] \in Nat
      BY <1>3 DEF Ended, TypeOK, ServerTypeOK
    <2>2. PICK w \in Turns : Turn(c, w)
      BY <2>1 DEF TurnInv
    <2>3. /\ worker[c] = "sleep" => Even(c)
          /\ reader[c] = "handle" /\ got[c].op = "CS_HEARTBEAT" => Due(c, got[c].arg)
      BY <2>2 DEF Turn, ServerTurn, Asks, Fits
    <2>4. Moves(c)
      BY <2>1, StepMoves
    <2>5. CASE worker[c] = "sleep" /\ heartbeat_responses'[c] = heartbeat_responses[c] + 1
               /\ current_heartbeat_count'[c] = current_heartbeat_count[c]
      BY <1>3, <2>3, <2>5 DEF Beating!Next, Beating!Give, Even, Ended
    <2>6. CASE reader[c] = "handle" /\ got[c].op = "CS_HEARTBEAT"
               /\ heartbeat_responses'[c] = heartbeat_responses[c]
               /\ current_heartbeat_count'[c] = current_heartbeat_count[c] + 1
      BY <1>3, <2>1, <2>3, <2>6 DEF Beating!Next, Beating!Accept, Due, Ended
    <2> QED BY <1>3, <2>4, <2>5, <2>6 DEF Moves, Beating!beats, Ended
  <1> QED BY <1>1, <1>2, <1>3

(* Of every client, each cookie is given only after the one before it was     *)
(* answered and the answer accepted (Server.cs, HandleMessageReceived,        *)
(* SendHeartbeat; Handlers.cs, HandleClientHeartbeat), whatever callbacks,    *)
(* workers, other clients, losses and ends come between.                      *)
THEOREM CookiesInTurn ==
  ASSUME NEW c \in Clients
  PROVE  Spec => Beating(c)!Spec
  <1> DEFINE IInv == TypeOK /\ ServerInv /\ TurnInv
  <1>1. Init => IInv /\ Beating(c)!Init
    BY TypeInit, ServerInvInit, TurnInit, BeatInit
  <1>2. IInv /\ [Next]_vars => IInv'
    BY TypeStep, ServerInvStep, TurnStep
  <1>3. IInv /\ [Next]_vars => [Beating(c)!Next]_(Beating(c)!beats)
    BY BeatStep
  <1> QED BY <1>1, <1>2, <1>3, PTL DEF Spec, Beating!Spec

(* The same of each step and all clients, as the run checks it. *)
THEOREM CookiesOneByOne == Spec => BeatsInTurn
  <1> DEFINE IInv == TypeOK /\ ServerInv /\ TurnInv
  <1>1. Init => IInv
    BY TypeInit, ServerInvInit, TurnInit
  <1>2. IInv /\ [Next]_vars => IInv'
    BY TypeStep, ServerInvStep, TurnStep
  <1>3. IInv /\ [Next]_vars => [\A c \in Clients : Beating(c)!Next \/ UNCHANGED Beating(c)!beats]_vars
    BY BeatStep
  <1> QED BY <1>1, <1>2, <1>3, PTL DEF Spec, BeatsInTurn
=============================================================================
