-------------------------------- MODULE Wire --------------------------------
(***************************************************************************)
(* One connection, byte by byte: what NetClient writes with PacketWriter and *)
(* ciphers, what Server.cs deciphers and reads with PacketReader, and back.  *)
(* Nothing on the wire tells where a packet ends, so this is where a session *)
(* of whole packets (module Link) comes from, or does not.                   *)
(*                                                                           *)
(* A byte has Byte values, and a 16-bit number is two bytes, the low one     *)
(* first.  Every byte of a stream carries, for the properties only, what the *)
(* packet that begins with it says.                                          *)
(***************************************************************************)
EXTENDS Integers, Sequences

CONSTANTS Byte,
          Xor, OperationKey, Transformer,  \* of the ciphers and of the heartbeat
          CookieSize,                      \* 128
          bufferLen, RecvLength, ServerBuffer,  \* 1000, 512, 1024
          DefaultBufferSize, Expanded,     \* of a MemoryStream: 32, then 256
          versionNum,
          Hellos, Cookies, Flags,  \* bound: the data that is sent
          Tails,       \* bound: what lies behind an answer, and the data of a flag
          MaxHeartbeats, MaxFlags          \* bound: how often

Bytes == 0..(Byte - 1)
Numbers == 0..(Byte * Byte - 1)
Uninitialized == -1

ASSUME WireAssumption ==
  /\ Byte \in Nat \ {0, 1} /\ OperationKey \in Bytes
  /\ Xor \in [Bytes -> Bytes] /\ \A b \in Bytes : Xor[Xor[b]] = b
  /\ Transformer \in [Bytes -> Bytes] /\ \A b \in Bytes : Transformer[Transformer[b]] = b
  /\ {CookieSize, bufferLen, RecvLength, ServerBuffer, DefaultBufferSize, Expanded} \subseteq Nat \ {0}
  /\ Expanded >= DefaultBufferSize /\ versionNum \in Numbers /\ Flags \subseteq Numbers
  /\ Hellos \subseteq [1..4 -> Seq(Bytes)] /\ Tails \subseteq Seq(Bytes \ {0})
  /\ Cookies \subseteq {c \in [1..CookieSize -> Bytes] : \A i \in 1..CookieSize : Transformer[c[i]] # 0}
  /\ MaxHeartbeats \in Nat /\ MaxFlags \in Nat

VARIABLES
  split,       \* whether a read may return a part of a packet
  up, down,    \* the bytes on their way
  client, server,          \* "new", "open", "left" or what ended it
  handshake, flagsSent,
  buffer,      \* the server's, of ServerBuffer bytes, used by every read
  info,        \* gamecode, hardware_id, hostname, mac_address
  heartbeat_responses, current_heartbeat_count,
  due,         \* a heartbeat worker is queued
  atServer, atClient   \* history: the last packet handled, as said and as read

clientVars == <<client, handshake, flagsSent, atClient>>
serverVars == <<server, buffer, info, heartbeat_responses, current_heartbeat_count, due, atServer>>
vars == <<split, up, down, clientVars, serverVars>>

\* enum CS and enum SC
CS_HELLO == 1
CS_GOODBYE == 2
CS_HEARTBEAT == 3
CS_FLAGGED_CHEATER == 5
CS_QUERY_MEMORY == 6
SC_HELLO == 1
SC_HEARTBEAT == 2
SC_QUERY_MEMORY == 5

Msg(op, arg) == [op |-> op, arg |-> arg]
Nothing == Msg(0, 0)
Exchange(said, read) == [said |-> said, read |-> read]

-----------------------------------------------------------------------------
(* The ciphers.  Each side has one operator, for what it sends and for what   *)
(* it receives: the client's undoes the server's and conversely.              *)

Plus(b) == (b + OperationKey) % Byte
(* The difference kept as an int. *)
MinusWide(b) == b - OperationKey

Minus(b) == (b + Byte - OperationKey) % Byte

CipherData(b) == [i \in DOMAIN b |-> IF i % 2 = 1 THEN Plus(Xor[b[i]]) ELSE Minus(Xor[b[i]])]

Cipher(b) == [i \in DOMAIN b |-> IF i % 2 = 1 THEN Xor[Minus(b[i])] ELSE Xor[Plus(b[i])]]

-----------------------------------------------------------------------------
(* PacketWriter of the client: an array that doubles when it is full.         *)

UShort(n) == <<n % Byte, (n \div Byte) % Byte>>
UInt(n) == UShort(n) \o UShort(n \div (Byte * Byte))

Doubled(length, need) ==
  length * 2 ^ (CHOOSE k \in 0..need : /\ length * 2 ^ k >= need
                                       /\ k > 0 => length * 2 ^ (k - 1) < need)

(* The new array takes over what has been written so far. *)
GetBuffer(w, length) ==
  LET need == w.pos + length
  IN IF Len(w.buf) >= need THEN w.buf
     ELSE [i \in 1..Doubled(Len(w.buf), need) |-> IF i <= w.pos THEN w.buf[i] ELSE Uninitialized]

Write(w, b) ==
  LET buf == GetBuffer(w, Len(b))
  IN [buf |-> [i \in DOMAIN buf |-> IF i - w.pos \in DOMAIN b THEN b[i - w.pos] ELSE buf[i]],
      pos |-> w.pos + Len(b)]

PacketWriter(op) == Write([buf |-> [i \in 1..bufferLen |-> Uninitialized], pos |-> 0], UShort(op))
WriteString(w, s) == Write(Write(w, UShort(Len(s))), s)
Contents(w) == SubSeq(w.buf, 1, w.pos)

ClientHello(f) == WriteString(WriteString(WriteString(WriteString(PacketWriter(CS_HELLO), f[1]), f[2]), f[3]), f[4])
Heartbeat(text) == WriteString(PacketWriter(CS_HEARTBEAT), text)
DetectedCheater(flag) == Write(PacketWriter(CS_FLAGGED_CHEATER), UInt(flag))
DetectedCheaterWith(flag, data) ==
  WriteString(Write(Write(PacketWriter(CS_FLAGGED_CHEATER), UInt(flag)), UInt(1)), data)
MemoryBytes(bytes) == WriteString(PacketWriter(CS_QUERY_MEMORY), bytes)
ClientGoodbye(reason) == Write(PacketWriter(CS_GOODBYE), UInt(reason))

(* The server's writer is a MemoryStream, and all its capacity is sent.       *)
Capacity(n) == IF n <= DefaultBufferSize THEN DefaultBufferSize ELSE Doubled(Expanded, n)
Padded(b) == [i \in 1..Capacity(Len(b)) |-> IF i \in DOMAIN b THEN b[i] ELSE 0]

(* What is sent fits: opcodes and lengths their 16 bits, and every packet one  *)
(* read.  A longer packet would be torn, as under split.                      *)
ASSUME FitAssumption ==
  /\ {CS_QUERY_MEMORY, CookieSize} \subseteq Numbers
  /\ \A f \in Hellos : /\ \A k \in 1..4 : Len(f[k]) \in Numbers
                       /\ 10 + Len(f[1]) + Len(f[2]) + Len(f[3]) + Len(f[4]) <= ServerBuffer
  /\ \A t \in Tails : 4 + CookieSize + Len(t) <= ServerBuffer /\ 12 + Len(t) <= ServerBuffer
  /\ 6 <= ServerBuffer /\ Capacity(4) <= RecvLength /\ Capacity(4 + CookieSize) <= RecvLength

(* What is sent, as it travels. *)
OnWire(b, says) == [i \in DOMAIN b |-> [byte |-> b[i], says |-> IF i = 1 THEN says ELSE Nothing]]

SendData(w, says) ==
  \E sent \in {OnWire(CipherData(Contents(w)), says)} :
    up' = IF server \in {"new", "open"} THEN up \o sent ELSE up

SendBytes(b, says) ==
  \E sent \in {OnWire(Cipher(Padded(b)), says)} :
    down' = IF client = "open" THEN down \o sent ELSE down

-----------------------------------------------------------------------------
(* A read: a part of the stream that fits, and ends with a packet (unless not *)
(* even one fits) or anywhere.                                                *)
Reads(stream, room) ==
  LET fit == {n \in 1..Len(stream) : n <= room}
      whole == {n \in fit : n = Len(stream) \/ stream[n + 1].says # Nothing}
  IN IF split THEN fit ELSE IF whole # {} THEN whole ELSE {n \in fit : n = room}

Data(stream, n) == [i \in 1..n |-> stream[i].byte]
Rest(stream, n) == SubSeq(stream, n + 1, Len(stream))

\* Both PacketReaders: numbers, and a string with its length before it.
Short(b, at) == b[at] + Byte * b[at + 1]
Long(b, at) == Short(b, at) + Byte * Byte * Short(b, at + 2)
StringAt(b, at) == SubSeq(b, at + 2, at + 1 + Short(b, at))

(* The next field is looked for without the length before this one. *)
AfterText(b, at) == at + Short(b, at)

After(b, at) == at + 2 + Short(b, at)
Readable(b, at) == at + 1 <= Len(b) /\ After(b, at) <= Len(b) + 1

-----------------------------------------------------------------------------
(* The client.                                                                *)

Initialize(f) ==
  /\ client = "new" /\ client' = "open"
  /\ SendData(ClientHello(f), Msg(CS_HELLO, f))
  /\ UNCHANGED <<split, down, handshake, flagsSent, atClient, serverVars>>

FlagCheater(flag) ==
  /\ client = "open" /\ flagsSent < MaxFlags
  /\ flagsSent' = flagsSent + 1
  /\ \/ SendData(DetectedCheater(flag), Msg(CS_FLAGGED_CHEATER, flag))
     \/ \E data \in Tails : SendData(DetectedCheaterWith(flag, data), Msg(CS_FLAGGED_CHEATER, flag))
  /\ UNCHANGED <<split, down, client, handshake, atClient, serverVars>>

EndConnection ==
  /\ client = "open" /\ client' = "left"
  /\ SendData(ClientGoodbye(1), Msg(CS_GOODBYE, 1))
  /\ down' = <<>>
  /\ UNCHANGED <<split, handshake, flagsSent, atClient, serverVars>>

(* The answer to a cookie has no zero at its end: the string that is sent      *)
(* goes on with what lies behind it.  That it is called from this module,     *)
(* which it looks at first, it is here.                                       *)
MakeHeartbeat(cookie, tail) == [i \in DOMAIN cookie |-> Transformer[cookie[i]]] \o tail

(* The memory that was asked for is sent, if it can be read and there is room  *)
(* for a copy of it: else nothing is, or the program ends.                    *)
QueryMemory(address, size) ==
  LET asked == address # 0 /\ size # 0
  IN \/ UNCHANGED <<up, client>>
     \/ asked /\ client' = "terminated" /\ UNCHANGED up
     \/ /\ asked /\ UNCHANGED client
        /\ \E bytes \in Tails : Len(bytes) = size /\ SendData(MemoryBytes(bytes), Msg(CS_QUERY_MEMORY, bytes))

(* HandleInboundPacket: readString and readShort throw when the bytes that     *)
(* were received are too few, and the thread takes the program with it.       *)
HandleInboundPacket(b, said) ==
  LET enough(n) == Len(b) >= n
      op == IF enough(2) THEN Short(b, 1) ELSE 0
      refused == client' = "terminated" /\ UNCHANGED <<up, handshake, atClient>>
  IN \/ ~enough(2) /\ refused
     \/ /\ op = SC_HELLO
        /\ IF enough(4)
           THEN /\ handshake' = TRUE
                /\ atClient' = Exchange(said, Msg(op, Short(b, 3)))
                /\ UNCHANGED <<client, up>>
           ELSE refused
     \/ /\ op = SC_HEARTBEAT
        /\ IF ~enough(4) \/ (Short(b, 3) = CookieSize /\ ~enough(4 + CookieSize))
           THEN refused
           ELSE /\ UNCHANGED <<client, handshake>>
                /\ IF Short(b, 3) # CookieSize
                   THEN UNCHANGED <<up, atClient>>
                   ELSE LET cookie == SubSeq(b, 5, 4 + CookieSize)
                        IN /\ atClient' = Exchange(said, Msg(op, cookie))
                           /\ \E tail \in Tails :
                                SendData(Heartbeat(MakeHeartbeat(cookie, tail)),
                                         Msg(CS_HEARTBEAT, MakeHeartbeat(cookie, <<>>)))
     \/ /\ op = SC_QUERY_MEMORY
        /\ IF ~enough(10) THEN refused
           ELSE QueryMemory(Long(b, 3), Long(b, 7)) /\ UNCHANGED <<handshake, atClient>>
     \/ /\ enough(2) /\ op \notin {SC_HELLO, SC_HEARTBEAT, SC_QUERY_MEMORY}
        /\ UNCHANGED <<up, client, handshake, atClient>>

ProcessRequests ==
  /\ client = "open"
  /\ \E n \in Reads(down, RecvLength) :
       /\ down' = Rest(down, n)
       /\ \E b \in {CipherData(Data(down, n))} : HandleInboundPacket(b, down[1].says)
  /\ UNCHANGED <<split, flagsSent, serverVars>>

-----------------------------------------------------------------------------
(* The server's callback, from the bytes read to the packet handled.          *)

(* What an earlier read left stays behind the new bytes, and the reader sees it. *)
Overwrite(b, data) == data \o SubSeq(b, Len(data) + 1, Len(b))

Ends(why) ==
  /\ server' = why /\ due' = FALSE
  /\ UNCHANGED <<down, info, heartbeat_responses, current_heartbeat_count>>

Handled == due' = TRUE /\ UNCHANGED <<server, heartbeat_responses>>

HandleClientHello(b, said) ==
  LET o2 == After(b, 3)
      o3 == After(b, o2)
      o4 == After(b, o3)
      at == <<3, o2, o3, o4>>
      fields == [k \in 1..4 |-> StringAt(b, at[k])]
  IN IF ~(Readable(b, 3) /\ Readable(b, o2) /\ Readable(b, o3) /\ Readable(b, o4))
     THEN Ends("PacketException") /\ UNCHANGED atServer
     ELSE /\ atServer' = Exchange(said, Msg(CS_HELLO, fields))
          /\ IF \E k \in 2..4 : fields[k] = <<>>
             THEN Ends("dropped")
             ELSE /\ info' = fields
                  /\ SendBytes(UShort(SC_HELLO) \o UShort(versionNum), Msg(SC_HELLO, versionNum))
                  /\ Handled /\ UNCHANGED current_heartbeat_count

(* The answer is taken to be as long as it says. *)
CookieAsLong(b) == StringAt(b, 3)

(* Its length is read and not used. *)
CookieOf(b) == SubSeq(b, 5, 4 + CookieSize)

HandleClientHeartbeat(b, said) ==
  /\ atServer' = Exchange(said, Msg(CS_HEARTBEAT, CookieOf(b)))
  /\ IF current_heartbeat_count >= Len(heartbeat_responses)
     THEN Ends("IndexOutOfRange")
     ELSE IF [i \in DOMAIN CookieOf(b) |-> Transformer[CookieOf(b)[i]]]
               # heartbeat_responses[current_heartbeat_count + 1]
     THEN Ends("dropped")
     ELSE /\ current_heartbeat_count' = current_heartbeat_count + 1
          /\ Handled /\ UNCHANGED <<down, info>>

HandlePacket(b, said) ==
  LET op == Short(b, 1)
  IN \/ op = CS_HELLO /\ HandleClientHello(b, said)
     \/ op = CS_HEARTBEAT /\ HandleClientHeartbeat(b, said)
     \/ /\ op = CS_FLAGGED_CHEATER
        /\ atServer' = Exchange(said, Msg(op, Short(b, 3)))
        /\ Ends("KeyNotFound")
     \/ op = CS_QUERY_MEMORY /\ Handled /\ UNCHANGED <<atServer, down, info, current_heartbeat_count>>
     \/ /\ op \notin {CS_HELLO, CS_HEARTBEAT, CS_FLAGGED_CHEATER, CS_QUERY_MEMORY}
        /\ Ends("dropped") /\ UNCHANGED atServer

HandleMessageReceived ==
  /\ server = "open"
  /\ \E n \in Reads(up, ServerBuffer) :
       /\ up' = Rest(up, n)
       /\ \E b \in {Overwrite(buffer, Cipher(Data(up, n)))} :
            buffer' = b /\ HandlePacket(b, up[1].says)
  /\ UNCHANGED <<split, clientVars>>

HandleClientConnected ==
  /\ server = "new" /\ client # "new" /\ server' = "open"
  /\ UNCHANGED <<split, up, down, clientVars, buffer, info, heartbeat_responses,
                 current_heartbeat_count, due, atServer>>

EndReadEOF ==
  /\ server = "open" /\ client # "open" /\ up = <<>>
  /\ server' = "closed" /\ due' = FALSE
  /\ UNCHANGED <<split, up, down, clientVars, buffer, info, heartbeat_responses,
                 current_heartbeat_count, atServer>>

\* The worker leaves its place in the queue taken.
WorkerStaysDue == UNCHANGED due

WorkerGone == due' = FALSE

SendHeartbeat(cookie) ==
  /\ server = "open" /\ due /\ Len(heartbeat_responses) < MaxHeartbeats
  /\ heartbeat_responses' = Append(heartbeat_responses, cookie)
  /\ SendBytes(UShort(SC_HEARTBEAT) \o UShort(CookieSize) \o cookie, Msg(SC_HEARTBEAT, cookie))
  /\ WorkerGone
  /\ UNCHANGED <<split, up, clientVars, server, buffer, info, current_heartbeat_count, atServer>>

-----------------------------------------------------------------------------
Init ==
  /\ split \in BOOLEAN /\ up = <<>> /\ down = <<>>
  /\ client = "new" /\ server = "new" /\ handshake = FALSE /\ flagsSent = 0
  /\ buffer = [i \in 1..ServerBuffer |-> 0] /\ info = [k \in 1..4 |-> <<>>]
  /\ heartbeat_responses = <<>> /\ current_heartbeat_count = 0 /\ due = FALSE
  /\ atServer = Exchange(Nothing, Nothing) /\ atClient = Exchange(Nothing, Nothing)

ClientStep ==
  \/ \E f \in Hellos : Initialize(f)
  \/ \E flag \in Flags : FlagCheater(flag)
  \/ EndConnection \/ ProcessRequests

ServerStep ==
  \/ HandleClientConnected \/ HandleMessageReceived \/ EndReadEOF
  \/ \E cookie \in Cookies : SendHeartbeat(cookie)

Next == ClientStep \/ ServerStep

Spec == Init /\ [][Next]_vars

-----------------------------------------------------------------------------
(* Nothing that was never written is sent or read.                            *)
TypeOK ==
  /\ split \in BOOLEAN
  /\ \A i \in DOMAIN up : up[i].byte \in Bytes
  /\ \A i \in DOMAIN down : down[i].byte \in Bytes
  /\ client \in {"new", "open", "left", "terminated"}
  /\ server \in {"new", "open", "closed", "dropped", "PacketException", "IndexOutOfRange", "KeyNotFound"}
  /\ buffer \in [1..ServerBuffer -> Bytes] /\ info \in [1..4 -> Seq(Bytes)]
  /\ heartbeat_responses \in Seq(Cookies) /\ current_heartbeat_count \in 0..Len(heartbeat_responses)
  /\ handshake \in BOOLEAN /\ due \in BOOLEAN /\ flagsSent \in 0..MaxFlags

(* As long as reads do not tear packets, each end reads what the other wrote: *)
(* through the doubling writer and the ciphers with their even and odd places,*)
(* behind the padding of the server's packets, in a buffer that still holds   *)
(* the packet before, and however many packets a read brings.                 *)
ReadAsSaid == ~split => atServer.said = atServer.read /\ atClient.said = atClient.read

(* As long as reads do not tear packets, no reader throws, and an honest       *)
(* client's answers are accepted whatever follows them in its memory.         *)
NobodyThrown ==
  ~split => /\ client # "terminated" /\ server \notin {"PacketException", "IndexOutOfRange"}
            /\ server = "dropped" => atServer.said.op = CS_HELLO \/ client = "left"

-----------------------------------------------------------------------------
(* The connection implements Heartbeats, as long as reads do not tear packets: *)
(* the cookies saved are the given ones, the comparisons passed the answered   *)
(* ones, until the server has done with the client.                           *)
Ended == server \notin {"new", "open"}

Beating == INSTANCE Heartbeats
  WITH given <- IF Ended THEN 0 ELSE Len(heartbeat_responses),
       answered <- IF Ended THEN 0 ELSE current_heartbeat_count,
       over <- Ended

\* Whatever is cut, padded and run together on the way, a cookie is given only
\* after the one before it was read back and accepted.
BeatsInTurn == [][~split => Beating!Next \/ UNCHANGED Beating!beats]_vars
=============================================================================
