---------------------------- MODULE ProcessWatch ----------------------------
(***************************************************************************)
(* The watch over new processes: the patterns fetched from the web when the  *)
(* detections are made, the WMI subscription of MonitorProcessCreation, and   *)
(* the byte scan of each process it reports, while processes start, unpack    *)
(* themselves, end, and pass their number on.                                 *)
(*                                                                           *)
(* A process is a number (its pid), what was started under it (its id, which  *)
(* also stands for its name) and the .text section as a sequence of bytes:    *)
(* <<>> if it cannot be read, not loaded yet or protected or none.            *)
(***************************************************************************)
EXTENDS Integers, Sequences, FiniteSets

CONSTANTS Pids,        \* process numbers, above those of the system's processes
          Byte,        \* values of a byte
          Answers,     \* bound: what the repository of patterns may answer
          Texts,       \* bound: what a .text section may hold
          MaxStarts,   \* bound: processes started
          MaxChanges   \* bound: changes of a section

(* An answer is a sequence of lines, a line one of tokens: the number that     *)
(* stoul reads, a comment, or something that stoul throws at, as an empty      *)
(* token between two spaces.  The status of the answer is not looked at, so it *)
(* may be an error page.                                                       *)
Comment == -1
Junk == -2
Tokens == Nat \cup {Comment, Junk}

ASSUME WatchAssumption ==
  /\ Byte \in Nat \ {0} /\ MaxStarts \in Nat /\ MaxChanges \in Nat
  /\ Answers \subseteq Seq(Seq(Tokens))
  /\ Texts \subseteq Seq(0..(Byte - 1)) /\ <<>> \in Texts

VARIABLES
  process,    \* what runs under each number
  started, changes,
  known,      \* ids WMI saw at its last poll
  events,     \* creations it has to hand out
  patterns,   \* BlacklistedBytePatterns
  pc,         \* the constructor's fetch, then MonitorProcessCreation
  cur, next, foundSignature,   \* its event, the pattern it is at, the result
  signalled,  \* ShutdownSignalled
  crashed,
  flagged,    \* ids given to AddFlagged
  \* history: ids read while they held a pattern; events whose scan read too far, and that were dropped
  held, overrun, lost

world == <<process, started, changes>>
wmi == <<known, events>>
scan == <<cur, next, foundSignature, flagged, held, overrun, lost>>
vars == <<world, wmi, patterns, pc, scan, signalled, crashed>>

Nobody == [id |-> 0, text |-> <<>>]
Event == [pid : Pids, id : 1..MaxStarts]
NoEvent == [pid |-> CHOOSE p \in Pids : TRUE, id |-> 0]
Alive == {process[p].id : p \in Pids} \ {0}

TypeOK ==
  /\ process \in [Pids -> [id : 0..MaxStarts, text : Texts]]
  /\ started \in 0..MaxStarts /\ changes \in 0..MaxChanges
  /\ known \subseteq 1..started /\ events \subseteq Event
  /\ patterns \in Seq(Seq(0..(Byte - 1)))
  /\ pc \in {"fetch", "setup", "wait", "scan", "deaf", "gone"}
  /\ cur \in Event \cup {NoEvent} /\ next \in 1..(Len(patterns) + 1)
  /\ foundSignature \in BOOLEAN /\ signalled \in BOOLEAN /\ crashed \in BOOLEAN
  /\ flagged \subseteq 1..started
  /\ held \subseteq 1..started /\ overrun \subseteq 1..started /\ lost \subseteq 1..started

Init ==
  /\ process = [p \in Pids |-> Nobody] /\ started = 0 /\ changes = 0
  /\ known = {} /\ events = {} /\ patterns = <<>>
  /\ pc = "fetch" /\ cur = NoEvent /\ next = 1 /\ foundSignature = FALSE
  /\ signalled = FALSE /\ crashed = FALSE
  /\ flagged = {} /\ held = {} /\ overrun = {} /\ lost = {}

-----------------------------------------------------------------------------
(* Other processes, and the thread that shuts the program down.  What they do *)
(* when the watch has ended, or hears no more, is left out.                   *)

Ended == crashed \/ pc \in {"deaf", "gone"}

StartProcess(p, t) ==
  /\ ~Ended /\ process[p] = Nobody /\ started < MaxStarts
  /\ started' = started + 1
  /\ process' = [process EXCEPT ![p] = [id |-> started', text |-> t]]
  /\ UNCHANGED <<changes, wmi, patterns, pc, scan, signalled, crashed>>

ChangeText(p, t) ==
  /\ ~Ended /\ process[p] # Nobody /\ process[p].text # t /\ changes < MaxChanges
  /\ process' = [process EXCEPT ![p].text = t]
  /\ changes' = changes + 1
  /\ UNCHANGED <<started, wmi, patterns, pc, scan, signalled, crashed>>

EndProcess(p) ==
  /\ ~Ended /\ process[p] # Nobody
  /\ process' = [process EXCEPT ![p] = Nobody]
  /\ UNCHANGED <<started, changes, wmi, patterns, pc, scan, signalled, crashed>>

SignalShutdown ==
  /\ ~crashed /\ pc \notin {"fetch", "gone"} /\ ~signalled
  /\ signalled' = TRUE
  /\ UNCHANGED <<world, wmi, patterns, pc, scan, crashed>>

(* WITHIN 1: WMI compares what runs now with what ran a second ago.           *)
Poll ==
  /\ ~crashed /\ pc \in {"wait", "scan"} /\ known # Alive
  /\ events' = events \cup {[pid |-> p, id |-> process[p].id] :
                              p \in {q \in Pids : process[q].id \in Alive \ known}}
  /\ known' = Alive
  /\ UNCHANGED <<world, patterns, pc, scan, signalled, crashed>>

-----------------------------------------------------------------------------
(* FetchBlacklistedBytePatterns, in the constructor.                          *)

Uncommented(line) ==
  SubSeq(line, 1, Cardinality({i \in DOMAIN line : \A j \in 1..i : line[j] # Comment}))

(* The number is not narrowed to a byte. *)
PatternWide(line) == [i \in DOMAIN Uncommented(line) |-> line[i]]

(* A line of nothing, or with nothing before its comment, is a pattern too.   *)
Pattern(line) == [i \in DOMAIN Uncommented(line) |-> line[i] % Byte]

(* Nothing catches what stoul throws: the program ends before it has begun.   *)
FetchBlacklistedBytePatterns ==
  /\ ~crashed /\ pc = "fetch"
  /\ pc' = "setup"
  /\ \/ UNCHANGED <<patterns, crashed>>   \* no answer: a warning
     \/ \E answer \in Answers :
          /\ crashed' = (\E l \in DOMAIN answer :
                           \E i \in DOMAIN Uncommented(answer[l]) : answer[l][i] = Junk)
          /\ patterns' = IF crashed' THEN patterns ELSE [l \in DOMAIN answer |-> Pattern(answer[l])]
  /\ UNCHANGED <<world, wmi, scan, signalled>>

-----------------------------------------------------------------------------
(* MonitorProcessCreation.                                                    *)

(* Five COM calls; when one fails the thread is gone, and nobody is told.     *)
Subscribe ==
  /\ ~crashed /\ pc = "setup"
  /\ \/ pc' = "gone" /\ UNCHANGED known
     \/ pc' = "wait" /\ known' = Alive
  /\ UNCHANGED <<world, events, patterns, scan, signalled, crashed>>

Leave ==
  /\ ~crashed /\ pc \in {"wait", "deaf"} /\ signalled
  /\ pc' = "gone"
  /\ UNCHANGED <<world, wmi, patterns, scan, signalled, crashed>>

(* foundSignature keeps the result of the process before. *)
FoundSoFar == UNCHANGED foundSignature

NothingFound == foundSignature' = FALSE

(* Next fails for good, as when the service has stopped: it returns nothing,   *)
(* and its result is not looked at.                                           *)
NextFails ==
  /\ ~crashed /\ pc = "wait" /\ ~signalled
  /\ pc' = "deaf"
  /\ UNCHANGED <<world, wmi, patterns, scan, signalled, crashed>>

TakeEvent(e) ==
  /\ ~crashed /\ pc = "wait" /\ ~signalled
  /\ e \in events /\ events' = events \ {e}

(* A Get or QueryInterface fails: there is no process number, and no scan.    *)
DropEvent(e) ==
  /\ TakeEvent(e)
  /\ lost' = lost \cup {e.id}
  /\ UNCHANGED <<world, known, patterns, pc, cur, next, foundSignature, flagged, held, overrun,
                 signalled, crashed>>

NextEvent(e) ==
  /\ TakeEvent(e)
  /\ cur' = e /\ next' = 1 /\ NothingFound
  /\ pc' = "scan"
  /\ UNCHANGED <<world, known, patterns, flagged, held, overrun, lost, signalled, crashed>>

(* An offset at the end of the section is left out. *)
FoundBeforeEnd(text, p) ==
  \E i \in 0..(Len(text) - Len(p) - 1) : \A j \in 1..Len(p) : text[i + j] = p[j]

(* The two loops of the byte scan. *)
Found(text, p) ==
  \E i \in 0..(Len(text) - Len(p)) : \A j \in 1..Len(p) : text[i + j] = p[j]

Occurs(p, text) ==
  p # <<>> /\ \E a, b \in 0..Len(text) : SubSeq(text, a + 1, b) = p

(* Whatever runs under the number now. *)
ReadRemoteTextSection(pid) == process[pid].text

(* One pattern: the section is read anew and scanned.  size() - patternSize    *)
(* wraps around for a section shorter than the pattern: the scan goes on      *)
(* behind the buffer, and ends with a match in what it finds there or a fault.*)
ScanPattern ==
  /\ ~crashed /\ pc = "scan" /\ next <= Len(patterns)
  /\ LET text == ReadRemoteTextSection(cur.pid)
         p == patterns[next]
         short == text # <<>> /\ Len(text) < Len(p)
     IN /\ \/ ~short /\ UNCHANGED crashed
           \/ short /\ crashed' \in BOOLEAN
        /\ foundSignature' = (foundSignature \/ (text # <<>> /\ (short \/ Found(text, p))))
        /\ overrun' = IF short THEN overrun \cup {cur.id} ELSE overrun
        /\ held' = IF Occurs(p, text) THEN held \cup {process[cur.pid].id} ELSE held
  /\ next' = next + 1
  /\ UNCHANGED <<world, wmi, patterns, pc, cur, flagged, lost, signalled>>

(* AddFlagged with the name the event came with. *)
Report ==
  /\ ~crashed /\ pc = "scan" /\ next > Len(patterns)
  /\ flagged' = IF foundSignature THEN flagged \cup {cur.id} ELSE flagged
  /\ pc' = "wait" /\ cur' = NoEvent /\ next' = 1
  /\ UNCHANGED <<world, wmi, patterns, foundSignature, held, overrun, lost, signalled, crashed>>

-----------------------------------------------------------------------------
Environment ==
  \/ \E p \in Pids : EndProcess(p) \/ \E t \in Texts : StartProcess(p, t) \/ ChangeText(p, t)
  \/ SignalShutdown

Watch ==
  \/ FetchBlacklistedBytePatterns \/ Subscribe \/ Leave
  \/ \E e \in events : NextEvent(e) \/ DropEvent(e)
  \/ ScanPattern \/ Report

Next == Environment \/ NextFails \/ Poll \/ Watch

(* WMI polls and the thread is scheduled.  No process has to do anything, and *)
(* the subscription need not fail.                                            *)
Fairness == WF_vars(Poll) /\ WF_vars(Watch)

Spec == Init /\ [][Next]_vars /\ Fairness

-----------------------------------------------------------------------------
(* A process that still runs is flagged for what its own section held while   *)
(* it was read, and not for what an earlier one was, unless its section is    *)
(* shorter than a pattern or the list has a line without a byte.  Of one that *)
(* has ended nothing is sure: its number may be another's.                    *)
FlagHasGround ==
  \A id \in flagged \cap Alive :
    id \in held \cup overrun \/ \E k \in DOMAIN patterns : patterns[k] = <<>>

Watching == pc \in {"wait", "scan"} /\ ~signalled /\ ~crashed

(* The process holds this pattern, and the list has it. *)
Harbours(id, pattern) ==
  /\ \E k \in DOMAIN patterns : patterns[k] = pattern
  /\ \E p \in Pids : process[p].id = id /\ Occurs(pattern, process[p].text)

(* A process that starts while the watch is on, holds one and the same        *)
(* pattern from then on and lives on, is flagged in the end, also when others *)
(* start, end and change around it and take the numbers of those that ended,  *)
(* unless WMI drops its event.  One that goes from one pattern to another     *)
(* between the reads need not be.                                             *)
BlacklistedFlagged ==
  \A id \in 1..MaxStarts, pattern \in UNION {{Pattern(a[l]) : l \in DOMAIN a} : a \in Answers} :
    (Watching /\ id \notin known /\ Harbours(id, pattern))
      ~> (id \in flagged \cup lost \/ ~Watching \/ ~Harbours(id, pattern))
=============================================================================
