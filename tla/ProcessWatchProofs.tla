------------------------- MODULE ProcessWatchProofs -------------------------
(***************************************************************************)
(* Proofs about ProcessWatch for any process numbers, pages of patterns,     *)
(* sections and bounds: the types, and that a flag has its ground.  The      *)
(* second rests on this: an event that waits or is worked on names its       *)
(* process by a number that is right for as long as the process lives        *)
(* (EventsName), although numbers pass on while the scan reads.              *)
(***************************************************************************)
EXTENDS ProcessWatch, FiniteSetTheorems, TLAPS

(* A line up to its comment is a sequence of its tokens. *)
LEMMA UncommentedType ==
  ASSUME NEW line \in Seq(Tokens)
  PROVE  /\ Uncommented(line) \in Seq(Tokens)
         /\ Len(Uncommented(line)) <= Len(line)
  <1> DEFINE before == {i \in DOMAIN line : \A j \in 1..i : line[j] # Comment}
  <1>1. before \subseteq 1..Len(line) /\ Len(line) \in Nat
    OBVIOUS
  <1>2. IsFiniteSet(1..Len(line)) /\ Cardinality(1..Len(line)) = Len(line)
    <2> DEFINE n == Len(line)
    <2>1. n \in Nat
      BY <1>1
    <2> HIDE DEF n
    <2>2. 1 \in Int /\ n \in Int /\ (IF 1 > n THEN 0 ELSE n - 1 + 1) = n
      BY <2>1
    <2>3. IsFiniteSet(1..n) /\ Cardinality(1..n) = n
      BY <2>2, FS_Interval
    <2> QED BY <2>3 DEF n
  <1>3. Cardinality(before) \in 0..Len(line)
    <2>1. IsFiniteSet(before) /\ Cardinality(before) <= Cardinality(1..Len(line))
      BY <1>1, <1>2, FS_Subset
    <2>2. Cardinality(before) \in Nat
      BY <2>1, FS_CardinalityType
    <2> QED BY <1>1, <1>2, <2>1, <2>2
  <1> HIDE DEF before
  <1>4. SubSeq(line, 1, Cardinality(before)) \in Seq(Tokens)
        /\ Len(SubSeq(line, 1, Cardinality(before))) <= Len(line)
    BY <1>3
  <1> QED BY <1>4 DEF Uncommented, before

(* Every line of an answer gives a pattern of bytes. *)
LEMMA PatternType ==
  ASSUME NEW line \in Seq(Tokens)
  PROVE  Pattern(line) \in Seq(0..(Byte - 1))
  <1>1. \A i \in DOMAIN Uncommented(line) : i \in DOMAIN line
    BY UncommentedType
  <1>2. \A i \in DOMAIN Uncommented(line) : line[i] \in Int
    BY <1>1 DEF Tokens, Comment, Junk
  <1>3. \A i \in DOMAIN Uncommented(line) : line[i] % Byte \in 0..(Byte - 1)
    BY <1>2, WatchAssumption
  <1>4. DOMAIN Uncommented(line) = 1..Len(Uncommented(line)) /\ Len(Uncommented(line)) \in Nat
    BY UncommentedType
  <1> QED BY <1>3, <1>4 DEF Pattern

(* What the two loops of the scan find is the pattern itself. *)
LEMMA FoundOccurs ==
  ASSUME NEW text \in Seq(0..(Byte - 1)), NEW p \in Seq(0..(Byte - 1)), p # <<>>,
         Len(p) <= Len(text), Found(text, p)
  PROVE  Occurs(p, text)
  <1>1. PICK i \in 0..(Len(text) - Len(p)) : \A j \in 1..Len(p) : text[i + j] = p[j]
    BY DEF Found
  <1> DEFINE b == i + Len(p)
  <1>2. b \in 0..Len(text) /\ i \in 0..Len(text)
    OBVIOUS
  <1>3. SubSeq(text, i + 1, b) = [j \in 1..(b - i) |-> text[i + j]]
    BY <1>2
  <1>4. SubSeq(text, i + 1, b) = [j \in 1..Len(p) |-> p[j]]
    BY <1>1, <1>3
  <1>5. SubSeq(text, i + 1, b) = p
    BY <1>4
  <1> QED BY <1>2, <1>5 DEF Occurs

-----------------------------------------------------------------------------
(* Where the fetch and the set-up have not ended, nothing has been found; no  *)
(* more processes run, or are known from events, than were started; and where *)
(* nobody runs there is nothing to read.                                      *)
Pending == events \cup (IF pc = "scan" THEN {cur} ELSE {})

ControlInv ==
  /\ pc = "fetch" => next = 1
  /\ pc \in {"fetch", "setup"} => flagged = {} /\ ~foundSignature
  /\ pc = "scan" => cur \in Event
  /\ \A p \in Pids : process[p].id \in 0..started
  /\ \A p \in Pids : process[p].id = 0 => process[p].text = <<>>
  /\ \A e \in Pending : e.id \in 1..started

TypeInv == TypeOK /\ ControlInv

(* No two numbers run one process, and the number of an event is the one its  *)
(* process has, as long as it has one.                                        *)
EventsName ==
  /\ \A p, q \in Pids : process[p].id = process[q].id /\ process[p].id # 0 => p = q
  /\ \A e \in Pending : e.id \in Alive => process[e.pid].id = e.id

(* What justifies the flag of a process: it held a pattern, or its scan ran   *)
(* too far, or the list has a line of nothing; or nobody will ask, because it *)
(* is gone.                                                                   *)
Ground(id) ==
  \/ id \in held \cup overrun \/ id \notin Alive
  \/ \E k \in DOMAIN patterns : patterns[k] = <<>>

GroundInv ==
  /\ \A id \in flagged : Ground(id)
  /\ pc = "scan" /\ foundSignature => Ground(cur.id)

-----------------------------------------------------------------------------
LEMMA TypeInit == Init => TypeInv
  <1> SUFFICES ASSUME Init PROVE TypeInv
    OBVIOUS
  <1>1. process \in [Pids -> [id : 0..MaxStarts, text : Texts]]
    BY WatchAssumption DEF Init, Nobody
  <1>2. \A p \in Pids : process[p].id = 0 /\ process[p].text = <<>>
    BY DEF Init, Nobody
  <1>3. started \in 0..MaxStarts /\ changes \in 0..MaxChanges
    BY WatchAssumption DEF Init
  <1>4. known \subseteq 1..started /\ events \subseteq Event /\ patterns \in Seq(Seq(0..(Byte - 1)))
        /\ next \in 1..(Len(patterns) + 1)
    BY DEF Init
  <1>5. NoEvent \in {NoEvent} /\ Pending = {}
    BY DEF Init, Pending
  <1>6. 0 \in 0..started
    BY WatchAssumption DEF Init
  <1>7. TypeOK
    BY <1>1, <1>3, <1>4 DEF Init, TypeOK
  <1>8. ControlInv
    <2>1. pc = "fetch" /\ next = 1 /\ flagged = {} /\ ~foundSignature
      BY DEF Init
    <2> QED BY <1>2, <1>5, <1>6, <2>1 DEF ControlInv
  <1> QED BY <1>7, <1>8 DEF TypeInv

(* Ids that run are among those started. *)
LEMMA AliveStarted ==
  ASSUME TypeInv
  PROVE  Alive \subseteq 1..started
  BY DEF TypeInv, TypeOK, ControlInv, Alive

(* Each action keeps the types. *)
LEMMA TypeStep ==
  ASSUME TypeInv, [Next]_vars
  PROVE  TypeInv'
  <1> USE DEF TypeInv
  <1>1. ASSUME NEW p \in Pids, EndProcess(p) PROVE TypeInv'
    <2>1. /\ Nobody \in [id : 0..MaxStarts, text : Texts]
          /\ Nobody.id \in 0..started /\ Nobody.text = <<>>
      BY WatchAssumption DEF Nobody, TypeOK
    <2>2. process' \in [Pids -> [id : 0..MaxStarts, text : Texts]]
      BY <1>1, <2>1 DEF EndProcess, TypeOK
    <2>3. \A q \in Pids : process'[q].id \in 0..started'
      BY <1>1, <2>1 DEF EndProcess, TypeOK, ControlInv
    <2>4. \A q \in Pids : process'[q].id = 0 => process'[q].text = <<>>
      BY <1>1, <2>1 DEF EndProcess, TypeOK, ControlInv
    <2>5. /\ Pending' = Pending
          /\ UNCHANGED <<started, changes, known, events, patterns, pc, cur, next, foundSignature,
                         flagged, held, overrun, lost, signalled, crashed>>
      BY <1>1 DEF EndProcess, Pending, wmi, scan
    <2>6. TypeOK'
      BY <2>2, <2>5 DEF TypeOK
    <2>7. ControlInv'
      <3>1. \A e \in Pending' : e.id \in 1..started'
        BY <2>5 DEF ControlInv
      <3>2. /\ pc' = "fetch" => next' = 1
            /\ pc' \in {"fetch", "setup"} => flagged' = {} /\ ~foundSignature'
            /\ pc' = "scan" => cur' \in Event
        BY <2>5 DEF ControlInv
      <3> QED BY <2>3, <2>4, <3>1, <3>2 DEF ControlInv
    <2> QED BY <2>6, <2>7
  <1>2. ASSUME NEW p \in Pids, NEW t \in Texts, StartProcess(p, t) PROVE TypeInv'
    <2>1. started' \in 0..MaxStarts /\ started' = started + 1 /\ started \in Nat
      BY <1>2, WatchAssumption DEF StartProcess, TypeOK
    <2>2. process' \in [Pids -> [id : 0..MaxStarts, text : Texts]]
      BY <1>2, <2>1 DEF StartProcess, TypeOK
    <2>3. \A q \in Pids : /\ process'[q].id \in 0..started'
                         /\ process'[q].id = 0 => process'[q].text = <<>>
      BY <1>2, <2>1 DEF StartProcess, TypeOK, ControlInv
    <2>4. 1..started \subseteq 1..started'
      BY <2>1
    <2>5. /\ known \subseteq 1..started' /\ flagged \subseteq 1..started'
          /\ held \subseteq 1..started' /\ overrun \subseteq 1..started' /\ lost \subseteq 1..started'
      BY <2>4 DEF TypeOK
    <2>6. Pending' = Pending /\ \A e \in Pending : e.id \in 1..started'
      BY <1>2, <2>4 DEF StartProcess, ControlInv, Pending, wmi, scan
    <2> QED BY <1>2, <2>1, <2>2, <2>3, <2>5, <2>6 DEF StartProcess, TypeOK, ControlInv, wmi, scan
  <1>3. ASSUME NEW p \in Pids, NEW t \in Texts, ChangeText(p, t) PROVE TypeInv'
    <2>1. process' \in [Pids -> [id : 0..MaxStarts, text : Texts]]
      BY <1>3 DEF ChangeText, TypeOK
    <2>2. process[p].id # 0
      BY <1>3 DEF ChangeText, TypeOK, ControlInv, Nobody
    <2>3. \A q \in Pids : /\ process'[q].id \in 0..started
                         /\ process'[q].id = 0 => process'[q].text = <<>>
      BY <1>3, <2>2 DEF ChangeText, TypeOK, ControlInv
    <2>4. changes' \in 0..MaxChanges
      BY <1>3, WatchAssumption DEF ChangeText, TypeOK
    <2> QED BY <1>3, <2>1, <2>3, <2>4 DEF ChangeText, TypeOK, ControlInv, Pending, wmi, scan
  <1>4. CASE SignalShutdown
    BY <1>4 DEF SignalShutdown, TypeOK, ControlInv, Pending, world, wmi, scan
  <1>5. CASE Poll
    <2>1. known' \subseteq 1..started
      BY <1>5, AliveStarted DEF Poll
    <2>2. \A p \in Pids : process[p].id \in Alive
                           => process[p].id \in 1..MaxStarts /\ process[p].id \in 1..started
      BY AliveStarted DEF Alive, TypeOK
    <2>3. events' \subseteq Event
      BY <1>5, <2>2 DEF Poll, Event, TypeOK
    <2>4. \A e \in Pending' : e \in Pending \/ e.id \in 1..started
      BY <1>5, <2>2 DEF Poll, Pending, scan
    <2> QED BY <1>5, <2>1, <2>3, <2>4 DEF Poll, TypeOK, ControlInv, world, scan
  <1>6. CASE FetchBlacklistedBytePatterns
    <2>1. patterns' \in Seq(Seq(0..(Byte - 1))) /\ crashed' \in BOOLEAN
      <3>1. CASE UNCHANGED <<patterns, crashed>>
        BY <3>1 DEF TypeOK
      <3>2. ASSUME NEW answer \in Answers,
                   patterns' = IF crashed' THEN patterns
                               ELSE [l \in DOMAIN answer |-> Pattern(answer[l])]
            PROVE  patterns' \in Seq(Seq(0..(Byte - 1)))
        <4>1. answer \in Seq(Seq(Tokens))
          BY WatchAssumption
        <4>2. \A l \in DOMAIN answer : Pattern(answer[l]) \in Seq(0..(Byte - 1))
          BY <4>1, PatternType
        <4>3. DOMAIN answer = 1..Len(answer) /\ Len(answer) \in Nat
          BY <4>1
        <4>4. [l \in DOMAIN answer |-> Pattern(answer[l])] \in Seq(Seq(0..(Byte - 1)))
          BY <4>2, <4>3
        <4> QED BY <3>2, <4>4 DEF TypeOK
      <3> QED BY <1>6, <3>1, <3>2 DEF FetchBlacklistedBytePatterns
    <2>2. next = 1 /\ 1 \in 1..(Len(patterns') + 1)
      BY <1>6, <2>1 DEF FetchBlacklistedBytePatterns, ControlInv
    <2> QED BY <1>6, <2>1, <2>2
            DEF FetchBlacklistedBytePatterns, TypeOK, ControlInv, Pending, world, wmi, scan
  <1>7. CASE Subscribe
    <2>1. known' \subseteq 1..started
      BY <1>7, AliveStarted DEF Subscribe, TypeOK
    <2> QED BY <1>7, <2>1 DEF Subscribe, TypeOK, ControlInv, Pending, world, scan
  <1>8. CASE Leave
    BY <1>8 DEF Leave, TypeOK, ControlInv, Pending, world, wmi, scan
  <1>9. ASSUME NEW e \in events, NextEvent(e) PROVE TypeInv'
    <2>1. e \in Event
      BY DEF TypeOK
    <2>2. 1 \in 1..(Len(patterns) + 1)
      BY DEF TypeOK
    <2>3. Pending' \subseteq Pending
      BY <1>9 DEF NextEvent, TakeEvent, Pending
    <2> QED BY <1>9, <2>1, <2>2, <2>3 DEF NextEvent, TakeEvent, NothingFound, TypeOK, ControlInv, world
  <1>10. CASE ScanPattern
    <2>1. next' \in 1..(Len(patterns) + 1)
      BY <1>10 DEF ScanPattern, TypeOK
    <2>2. cur \in Event /\ cur.id \in 1..started
      BY <1>10 DEF ScanPattern, ControlInv, Pending
    <2>3. foundSignature' \in BOOLEAN /\ crashed' \in BOOLEAN
      BY <1>10 DEF ScanPattern, TypeOK
    <2>4. overrun' \subseteq 1..started
      BY <1>10, <2>2 DEF ScanPattern, TypeOK
    <2>5. held' \subseteq 1..started
      <3> DEFINE text == ReadRemoteTextSection(cur.pid)
      <3>1. cur.pid \in Pids
        BY <2>2 DEF Event
      <3>2. ASSUME Occurs(patterns[next], text) PROVE process[cur.pid].id \in 1..started
        <4>1. text # <<>>
          <5> SUFFICES ASSUME text = <<>> PROVE FALSE
            OBVIOUS
          <5>1. PICK a, b \in 0..0 : SubSeq(<<>>, a + 1, b) = patterns[next]
            BY <3>2 DEF Occurs
          <5>2. a = 0 /\ b = 0
            BY <5>1
          <5>3. SubSeq(<<>>, 1, 0) = <<>>
            OBVIOUS
          <5> QED BY <3>2, <5>1, <5>2, <5>3 DEF Occurs
        <4>2. process[cur.pid].id # 0
          BY <3>1, <4>1 DEF ControlInv, ReadRemoteTextSection
        <4>3. started \in Nat
          BY WatchAssumption DEF TypeOK
        <4> QED BY <3>1, <4>2, <4>3 DEF ControlInv
      <3> QED BY <1>10, <3>2 DEF ScanPattern, TypeOK
    <2>6. /\ pc = "scan" /\ pc' = "scan" /\ Pending' = Pending
          /\ UNCHANGED <<process, started, changes, known, events, patterns, cur, flagged, lost, signalled>>
      BY <1>10 DEF ScanPattern, Pending, world, wmi
    <2> QED BY <2>1, <2>2, <2>3, <2>4, <2>5, <2>6 DEF TypeOK, ControlInv
  <1>11. CASE Report
    <2>1. flagged' \subseteq 1..started
      BY <1>11 DEF Report, TypeOK, ControlInv, Pending
    <2>2. 1 \in 1..(Len(patterns) + 1)
      BY DEF TypeOK
    <2> QED BY <1>11, <2>1, <2>2 DEF Report, TypeOK, ControlInv, Pending, world, wmi
  <1>12. CASE UNCHANGED vars
    BY <1>12 DEF vars, world, wmi, scan, TypeOK, ControlInv, Pending
  <1>13. CASE NextFails
    BY <1>13 DEF NextFails, TypeOK, ControlInv, Pending, world, wmi, scan
  <1>14. ASSUME NEW e \in events, DropEvent(e) PROVE TypeInv'
    <2>1. e.id \in 1..started
      BY DEF ControlInv, Pending
    <2>2. Pending' \subseteq Pending /\ events' \subseteq events /\ lost' = lost \cup {e.id}
      BY <1>14 DEF DropEvent, TakeEvent, Pending
    <2> QED BY <1>14, <2>1, <2>2 DEF DropEvent, TypeOK, ControlInv, world
  <1> QED BY <1>1, <1>2, <1>3, <1>4, <1>5, <1>6, <1>7, <1>8, <1>9, <1>10, <1>11, <1>12, <1>13, <1>14
          DEF Next, Environment, Watch

(* The types, in every reachable state. *)
THEOREM TypeCorrect == Spec => []TypeOK
  <1>1. TypeInv /\ [Next]_vars => TypeInv'
    BY TypeStep
  <1>2. TypeInv => TypeOK
    BY DEF TypeInv
  <1> QED BY TypeInit, <1>1, <1>2, PTL DEF Spec

-----------------------------------------------------------------------------
LEMMA PendingType ==
  ASSUME TypeInv
  PROVE  Pending \subseteq Event
  BY DEF TypeInv, TypeOK, ControlInv, Pending

(* Steps that keep every id where it is, and bring no event. *)
LEMMA IdsKept ==
  ASSUME TypeInv, EventsName, Pending' \subseteq Pending,
         \A p \in Pids : process'[p].id = process[p].id
  PROVE  EventsName' /\ Alive' = Alive
  <1>1. Alive' = Alive
    BY DEF Alive
  <1>2. \A p, q \in Pids : process'[p].id = process'[q].id /\ process'[p].id # 0 => p = q
    BY DEF EventsName
  <1>3. \A e \in Pending' : e.id \in Alive' => process'[e.pid].id = e.id
    <2> SUFFICES ASSUME NEW e \in Pending', e.id \in Alive' PROVE process'[e.pid].id = e.id
      OBVIOUS
    <2>1. process[e.pid].id = e.id /\ e.id # 0
      BY <1>1 DEF EventsName, Alive
    <2>2. e.pid \in Pids
      BY PendingType DEF Event
    <2> QED BY <2>1, <2>2
  <1> QED BY <1>1, <1>2, <1>3 DEF EventsName

LEMMA NamesInit == Init => EventsName
  <1> SUFFICES ASSUME Init PROVE EventsName
    OBVIOUS
  <1>1. Pending = {} /\ \A p \in Pids : process[p].id = 0
    BY DEF Init, Pending, Nobody
  <1> QED BY <1>1 DEF EventsName

(* Each action keeps the numbers of the events right: a number passes on only *)
(* when its process has ended, and then nobody asks for that event.           *)
LEMMA NamesStep ==
  ASSUME TypeInv, EventsName, [Next]_vars
  PROVE  EventsName'
  <1>1. ASSUME NEW p \in Pids, EndProcess(p) PROVE EventsName'
    <2>1. /\ process'[p].id = 0 /\ Pending' = Pending
          /\ \A q \in Pids \ {p} : process'[q] = process[q]
      BY <1>1 DEF EndProcess, Nobody, Pending, wmi, scan, TypeInv, TypeOK
    <2>2. \A q, r \in Pids : process'[q].id = process'[r].id /\ process'[q].id # 0 => q = r
      BY <2>1 DEF EventsName
    <2>3. ASSUME NEW e \in Pending, e.id \in Alive' PROVE process'[e.pid].id = e.id
      <3>1. PICK q \in Pids : process'[q].id = e.id /\ e.id # 0
        BY <2>3 DEF Alive
      <3>2. q # p /\ process[q].id = e.id
        BY <2>1, <3>1
      <3>3. e.id \in Alive
        BY <3>1, <3>2 DEF Alive
      <3>4. process[e.pid].id = e.id /\ e.pid \in Pids
        BY <3>3, PendingType DEF EventsName, Event
      <3>5. e.pid = q
        BY <3>1, <3>2, <3>4 DEF EventsName
      <3> QED BY <3>1, <3>5
    <2> QED BY <2>1, <2>2, <2>3 DEF EventsName
  <1>2. ASSUME NEW p \in Pids, NEW t \in Texts, StartProcess(p, t) PROVE EventsName'
    <2>1. /\ process'[p].id = started + 1 /\ process[p].id = 0 /\ Pending' = Pending
          /\ \A q \in Pids \ {p} : process'[q] = process[q]
      BY <1>2 DEF StartProcess, Nobody, Pending, wmi, scan, TypeInv, TypeOK
    <2>2. started \in Nat /\ \A q \in Pids : process[q].id \in 0..started
      BY WatchAssumption DEF TypeInv, TypeOK, ControlInv
    <2>3. \A q \in Pids \ {p} : process'[q].id # started + 1
      BY <2>1, <2>2
    <2>4. \A q, r \in Pids : process'[q].id = process'[r].id /\ process'[q].id # 0 => q = r
      BY <2>1, <2>3 DEF EventsName
    <2>5. ASSUME NEW e \in Pending, e.id \in Alive' PROVE process'[e.pid].id = e.id
      <3>1. PICK q \in Pids : process'[q].id = e.id /\ e.id # 0
        BY <2>5 DEF Alive
      <3>2. e.id # started + 1
        BY <2>2 DEF TypeInv, ControlInv
      <3>3. process[q].id = e.id
        BY <2>1, <3>1, <3>2
      <3>4. e.id \in Alive
        BY <3>1, <3>3 DEF Alive
      <3>5. process[e.pid].id = e.id /\ e.pid \in Pids
        BY <3>4, PendingType DEF EventsName, Event
      <3> QED BY <2>1, <3>1, <3>5
    <2> QED BY <2>1, <2>4, <2>5 DEF EventsName
  <1>3. ASSUME NEW p \in Pids, NEW t \in Texts, ChangeText(p, t) PROVE EventsName'
    <2>1. Pending' = Pending /\ \A q \in Pids : process'[q].id = process[q].id
      BY <1>3 DEF ChangeText, Pending, wmi, scan, TypeInv, TypeOK
    <2> QED BY <2>1, IdsKept
  <1>4. CASE Poll
    <2>1. process' = process /\ Alive' = Alive
      BY <1>4 DEF Poll, world, Alive
    <2>2. \A e \in Pending' : e \in Pending \/ process[e.pid].id = e.id
      BY <1>4 DEF Poll, Pending, scan
    <2> QED BY <2>1, <2>2 DEF EventsName
  <1>5. ASSUME NEW e \in events, NextEvent(e) PROVE EventsName'
    <2>1. Pending' \subseteq Pending /\ process' = process
      BY <1>5 DEF NextEvent, TakeEvent, Pending, world
    <2> QED BY <2>1, IdsKept
  <1>6. ASSUME UNCHANGED <<process, events>>, pc' = "scan" => pc = "scan" /\ cur' = cur
        PROVE  EventsName'
    <2>1. Pending' \subseteq Pending
      BY <1>6 DEF Pending
    <2> QED BY <1>6, <2>1, IdsKept
  <1>7. CASE SignalShutdown \/ FetchBlacklistedBytePatterns \/ Subscribe \/ Leave \/ NextFails
    BY <1>6, <1>7
       DEF SignalShutdown, FetchBlacklistedBytePatterns, Subscribe, Leave, NextFails, world, wmi, scan
  <1>8. CASE ScanPattern \/ Report \/ UNCHANGED vars
    BY <1>6, <1>8 DEF ScanPattern, Report, world, wmi, scan, vars
  <1>9. ASSUME NEW e \in events, DropEvent(e) PROVE EventsName'
    <2>1. Pending' \subseteq Pending /\ process' = process
      BY <1>9 DEF DropEvent, TakeEvent, Pending, world
    <2> QED BY <2>1, IdsKept
  <1> QED BY <1>1, <1>2, <1>3, <1>4, <1>5, <1>7, <1>8, <1>9 DEF Next, Environment, Watch

-----------------------------------------------------------------------------
(* No step brings back a process that has ended, or unreads what was read.    *)
LEMMA GroundStays ==
  ASSUME TypeInv, [Next]_vars, patterns' = patterns, NEW id \in 1..started, Ground(id)
  PROVE  Ground(id)'
  <1>1. held \subseteq held' /\ overrun \subseteq overrun'
    BY DEF Next, Environment, Watch, EndProcess, StartProcess, ChangeText, SignalShutdown, Poll,
           FetchBlacklistedBytePatterns, Subscribe, Leave, NextFails, DropEvent, NextEvent, ScanPattern,
           Report, scan, vars
  <1>2. id \in Alive' => id \in Alive
    <2>1. ASSUME NEW p \in Pids, process'[p].id = id PROVE \E q \in Pids : process[q].id = id
      <3>1. id # 0 /\ id # started + 1
        BY WatchAssumption DEF TypeInv, TypeOK
      <3>2. \/ process' = process
            \/ \E q \in Pids : process' = [process EXCEPT ![q] = Nobody]
            \/ \E q \in Pids, t \in Texts :
                 process' = [process EXCEPT ![q] = [id |-> started + 1, text |-> t]]
            \/ \E q \in Pids, t \in Texts : process' = [process EXCEPT ![q].text = t]
        BY DEF Next, Environment, Watch, EndProcess, StartProcess, ChangeText, SignalShutdown, Poll,
               FetchBlacklistedBytePatterns, Subscribe, Leave, NextFails, DropEvent, NextEvent,
               ScanPattern, Report, world, vars
      <3>3. ASSUME NEW q \in Pids, process' = [process EXCEPT ![q] = Nobody] PROVE process[p].id = id
        BY <2>1, <3>1, <3>3 DEF Nobody, TypeInv, TypeOK
      <3>4. ASSUME NEW q \in Pids, NEW t \in Texts,
                   process' = [process EXCEPT ![q] = [id |-> started + 1, text |-> t]]
            PROVE  process[p].id = id
        BY <2>1, <3>1, <3>4 DEF TypeInv, TypeOK
      <3>5. ASSUME NEW q \in Pids, NEW t \in Texts, process' = [process EXCEPT ![q].text = t]
            PROVE  process[p].id = id
        BY <2>1, <3>5 DEF TypeInv, TypeOK
      <3> QED BY <2>1, <3>2, <3>3, <3>4, <3>5
    <2> QED BY <2>1 DEF Alive
  <1> QED BY <1>1, <1>2 DEF Ground

LEMMA GroundInit == Init => GroundInv
  BY DEF Init, GroundInv

(* Only the scan of a pattern and the report touch what a flag rests on.      *)
LEMMA GroundStep ==
  ASSUME TypeInv, EventsName, GroundInv, [Next]_vars
  PROVE  GroundInv'
  <1>1. \A id \in flagged : id \in 1..started
    BY DEF TypeInv, TypeOK
  <1>2. pc = "scan" => cur \in Event /\ cur \in Pending /\ cur.id \in 1..started
    BY DEF TypeInv, ControlInv, Pending
  <1>3. CASE FetchBlacklistedBytePatterns
    BY <1>3 DEF FetchBlacklistedBytePatterns, TypeInv, ControlInv, GroundInv, scan
  <1>4. CASE ScanPattern
    <2>1. /\ pc = "scan" /\ UNCHANGED <<pc, patterns, process, cur, flagged>>
          /\ next \in 1..Len(patterns)
      BY <1>4 DEF ScanPattern, TypeInv, TypeOK, world
    <2>2. \A id \in flagged' : Ground(id)'
      BY <1>1, <2>1, GroundStays DEF GroundInv
    <2>3. ASSUME foundSignature' PROVE Ground(cur.id)'
      <3> DEFINE text == ReadRemoteTextSection(cur.pid)
                 p == patterns[next]
      <3>1. CASE foundSignature
        <4>1. cur.id \in 1..started /\ Ground(cur.id)
          BY <1>2, <2>1, <3>1 DEF GroundInv
        <4>2. \A id \in 1..started : Ground(id) => Ground(id)'
          BY <2>1, GroundStays
        <4> QED BY <2>1, <4>1, <4>2 DEF Ground
      <3>2. CASE ~foundSignature
        <4>1. text # <<>> /\ (Len(text) < Len(p) \/ Found(text, p))
          BY <1>4, <2>3, <3>2 DEF ScanPattern
        <4>2. CASE Len(text) < Len(p)
          <5>1. cur.id \in overrun'
            BY <1>4, <4>1, <4>2 DEF ScanPattern
          <5> QED BY <2>1, <5>1 DEF Ground
        <4>3. CASE p = <<>>
          BY <2>1, <4>3 DEF Ground
        <4>4. CASE p # <<>> /\ ~(Len(text) < Len(p))
          <5>1. cur.pid \in Pids
            BY <1>2, <2>1 DEF Event
          <5>2. text \in Seq(0..(Byte - 1)) /\ p \in Seq(0..(Byte - 1))
            BY <2>1, <5>1, WatchAssumption DEF ReadRemoteTextSection, TypeInv, TypeOK
          <5>3. Len(text) \in Nat /\ Len(p) \in Nat
            BY <5>2
          <5>4. Occurs(p, text)
            BY <4>1, <4>4, <5>2, <5>3, FoundOccurs
          <5>5. process[cur.pid].id \in held'
            BY <1>4, <5>4 DEF ScanPattern
          <5>6. cur.id \in Alive => process[cur.pid].id = cur.id
            BY <1>2, <2>1 DEF EventsName
          <5>7. Alive' = Alive
            BY <2>1 DEF Alive
          <5> QED BY <2>1, <5>5, <5>6, <5>7 DEF Ground
        <4> QED BY <4>2, <4>3, <4>4
      <3> QED BY <3>1, <3>2
    <2> QED BY <2>2, <2>3 DEF GroundInv
  <1>5. CASE Report
    <2>1. /\ pc = "scan" /\ pc' = "wait" /\ UNCHANGED patterns
          /\ flagged' = IF foundSignature THEN flagged \cup {cur.id} ELSE flagged
      BY <1>5 DEF Report, TypeInv, TypeOK, ControlInv
    <2>2. \A id \in flagged' : id \in 1..started /\ Ground(id)
      BY <1>1, <1>2, <2>1 DEF GroundInv
    <2>3. \A id \in flagged' : Ground(id)'
      BY <2>1, <2>2, GroundStays
    <2> QED BY <2>1, <2>3 DEF GroundInv
  <1>6. CASE \E e \in events : NextEvent(e)
    <2>1. ~foundSignature' /\ UNCHANGED <<patterns, flagged>>
      BY <1>6 DEF NextEvent, NothingFound
    <2>2. \A id \in flagged' : Ground(id)'
      BY <1>1, <2>1, GroundStays DEF GroundInv
    <2> QED BY <2>1, <2>2 DEF GroundInv
  <1>7. ASSUME UNCHANGED <<patterns, flagged, cur, foundSignature>>, pc' = "scan" => pc = "scan"
        PROVE  GroundInv'
    <2>1. \A id \in 1..started : Ground(id) => Ground(id)'
      BY <1>7, GroundStays
    <2>2. \A id \in flagged' : Ground(id)'
      BY <1>1, <1>7, <2>1 DEF GroundInv
    <2>3. ASSUME pc' = "scan" /\ foundSignature' PROVE Ground(cur.id)'
      <3>1. cur.id \in 1..started /\ Ground(cur.id)
        BY <1>2, <1>7, <2>3 DEF GroundInv
      <3> QED BY <1>7, <2>1, <3>1 DEF Ground
    <2> QED BY <2>2, <2>3 DEF GroundInv
  <1>8. CASE Environment \/ Poll
    BY <1>7, <1>8 DEF Environment, EndProcess, StartProcess, ChangeText, SignalShutdown, Poll, scan
  <1>9. CASE Subscribe \/ Leave \/ NextFails \/ UNCHANGED vars
    BY <1>7, <1>9 DEF Subscribe, Leave, NextFails, scan, vars
  <1>10. CASE \E e \in events : DropEvent(e)
    BY <1>7, <1>10 DEF DropEvent
  <1> QED BY <1>3, <1>4, <1>5, <1>6, <1>8, <1>9, <1>10 DEF Next, Watch

(* A process that still runs is flagged only with ground: for what its own    *)
(* section held when the scan read it, and never for what an earlier process  *)
(* under its number or an earlier event left, unless a scan ran past a        *)
(* section or the list has an empty line.                                     *)
THEOREM FlagsHaveGround == Spec => []FlagHasGround
  <1> DEFINE IInv == TypeInv /\ EventsName /\ GroundInv
  <1>1. Init => IInv
    BY TypeInit, NamesInit, GroundInit
  <1>2. IInv /\ [Next]_vars => IInv'
    BY TypeStep, NamesStep, GroundStep
  <1>3. IInv => FlagHasGround
    BY DEF GroundInv, Ground, FlagHasGround
  <1> QED BY <1>1, <1>2, <1>3, PTL DEF Spec

=============================================================================
