--------------------------- MODULE EvidenceLocker ---------------------------
(***************************************************************************)
(* Common/EvidenceLocker.cpp: the list of detected flags and evidence that *)
(* every detection thread appends to and that PushAllEvidence sends to the *)
(* server.  One step is one access to a shared container: AddFlagged       *)
(* searches before it locks, and PushAllEvidence, SendFlag and             *)
(* FlagWithData take no lock on the lists at all.                          *)
(*                                                                         *)
(* Detections::Monitor runs PushAllEvidence in a std::async whose future   *)
(* is destroyed at the end of the loop body, so the monitor thread waits   *)
(* for the push (Core/Detections.cpp:306); the other detection threads do  *)
(* not.  AlreadySentEvidence is touched by the push alone and only its     *)
(* membership matters: it is a set here.  SendFlagMutex is taken only by   *)
(* the push, never contended, and left out.                                *)
(***************************************************************************)
EXTENDS Naturals, Sequences

CONSTANTS Watchers,    \* detection threads other than the monitor thread
          Monitor,     \* the thread of Detections::Monitor
          Pusher,      \* the std::async thread of PushAllEvidence
          Flags,       \* DetectionFlags
          Data,        \* evidence strings: a module, an address, a process
          NoData,      \* stands for a flag reported without evidence
          NoThread,    \* EvidenceListMutex is free
          Reports      \* what each detection thread may find

Detectors == Watchers \cup {Monitor}
Threads   == Detectors \cup {Pusher}
Report    == [flag : Flags, data : Data \cup {NoData}]
Evidence  == [flag : Flags, data : Data]

ASSUME DistinctThreads == /\ Monitor \notin Watchers
                          /\ Pusher \notin Detectors
                          /\ NoThread \notin Threads
ASSUME NoDataIsNoData  == NoData \notin Data
ASSUME SomeFlag == Flags # {}
ASSUME ReportsAssumption == Reports \in [Detectors -> SUBSET Report]

VARIABLES
  pc,                  \* where each thread stands
  call,                \* the arguments of the AddFlagged call of each thread
  FlaggedList,         \* std::list<DetectionFlags>
  SentFlags,           \* unordered_map: operator[] gives FALSE by default
  HasEvidenceData,     \* the same
  EvidenceData,        \* std::list<Evidence>
  AlreadySentEvidence, \* data strings already sent
  EvidenceListMutex,   \* the thread that holds it, or NoThread
  flagIt, eviIt,       \* positions of PushAllEvidence in the two lists
  sent                 \* how often the server was sent each report

lists == <<FlaggedList, SentFlags, HasEvidenceData, EvidenceData>>
push  == <<flagIt, eviIt, AlreadySentEvidence, sent>>
vars  == <<pc, call, lists, EvidenceListMutex, push>>

-----------------------------------------------------------------------------
\* Arguments of a thread that is not in AddFlagged: of no consequence.
AnyReport == CHOOSE r \in Report : TRUE

Init ==
  /\ pc = [t \in Threads |-> "idle"]
  /\ call = [t \in Threads |-> AnyReport]
  /\ FlaggedList = <<>>
  /\ SentFlags = [f \in Flags |-> FALSE]
  /\ HasEvidenceData = [f \in Flags |-> FALSE]
  /\ EvidenceData = <<>>
  /\ AlreadySentEvidence = {}
  /\ EvidenceListMutex = NoThread
  /\ flagIt = 1 /\ eviIt = 1
  /\ sent = [r \in Report |-> 0]

Goto(t, label) == pc' = [pc EXCEPT ![t] = label]

Listed(f)   == \E i \in DOMAIN FlaggedList : FlaggedList[i] = f
Recorded(d) == \E i \in DOMAIN EvidenceData : EvidenceData[i].data = d

\* The overload without data is the one SendFlag and FlagWithData call.
WithData(t) == t # Pusher /\ call[t].data # NoData

\* Where PushAllEvidence continues after SendFlag or FlagWithData.
AfterSend == IF call[Pusher].data = NoData
             THEN Goto(Pusher, "flag") /\ flagIt' = flagIt + 1 /\ UNCHANGED eviIt
             ELSE Goto(Pusher, "evidence") /\ eviIt' = eviIt + 1 /\ UNCHANGED flagIt

\* AddFlagged returns: `true` (added) makes SendFlag and FlagWithData return
\* without sending, `false` (already listed) lets them send.
Return(t, added) ==
  IF t # Pusher THEN /\ Goto(t, "idle")
                     /\ call' = [call EXCEPT ![t] = AnyReport]
                     /\ UNCHANGED <<flagIt, eviIt>>
  ELSE /\ UNCHANGED call
       /\ IF added THEN AfterSend
                   ELSE Goto(t, "send") /\ UNCHANGED <<flagIt, eviIt>>

-----------------------------------------------------------------------------
(* AddFlagged, both overloads.                                             *)

\* A detection routine of thread t calls AddFlagged.
Detect(t) ==
  /\ pc[t] = "idle"
  /\ \E r \in Reports[t] : call' = [call EXCEPT ![t] = r]
  /\ Goto(t, "find")
  /\ UNCHANGED <<lists, EvidenceListMutex, push>>

\* The search, without the lock.  With data it is the data that must be new,
\* whatever flag it was recorded under; without, the flag must be.
Known(t) == IF WithData(t) THEN Recorded(call[t].data) ELSE Listed(call[t].flag)

FindFlag(t) ==
  /\ pc[t] = "find"
  /\ IF Known(t) THEN Return(t, FALSE)
                 ELSE Goto(t, "lock") /\ UNCHANGED <<call, flagIt, eviIt>>
  /\ UNCHANGED <<lists, EvidenceListMutex, AlreadySentEvidence, sent>>

\* lock_guard, then FlaggedList.push_back(flag).
PushFlagNoLock(t) ==
  /\ pc[t] = "lock"
  /\ EvidenceListMutex' = t
  /\ FlaggedList' = Append(FlaggedList, call[t].flag)
  /\ Goto(t, "mark")
  /\ UNCHANGED <<call, SentFlags, HasEvidenceData, EvidenceData, push>>

PushFlag(t) ==
  /\ pc[t] = "lock"
  /\ EvidenceListMutex = NoThread
  /\ EvidenceListMutex' = t
  /\ FlaggedList' = Append(FlaggedList, call[t].flag)
  /\ Goto(t, "mark")
  /\ UNCHANGED <<call, SentFlags, HasEvidenceData, EvidenceData, push>>

\* SentFlags[flag] = false; without data AddFlagged unlocks and returns.
MarkUnsentAddsAny(t) ==
  /\ pc[t] = "mark"
  /\ SentFlags' = [SentFlags EXCEPT ![call[t].flag] = FALSE]
  /\ Goto(t, "add")
  /\ UNCHANGED <<call, FlaggedList, HasEvidenceData, EvidenceData,
                 EvidenceListMutex, push>>

MarkUnsent(t) ==
  /\ pc[t] = "mark"
  /\ SentFlags' = [SentFlags EXCEPT ![call[t].flag] = FALSE]
  /\ IF WithData(t)
     THEN /\ Goto(t, "add")
          /\ UNCHANGED <<call, EvidenceListMutex, flagIt, eviIt>>
     ELSE EvidenceListMutex' = NoThread /\ Return(t, TRUE)
  /\ UNCHANGED <<FlaggedList, HasEvidenceData, EvidenceData,
                 AlreadySentEvidence, sent>>

\* AddEvidence: EvidenceData.push_back ...
AddEvidence(t) ==
  /\ pc[t] = "add"
  /\ EvidenceData' = Append(EvidenceData, call[t])
  /\ Goto(t, "has")
  /\ UNCHANGED <<call, FlaggedList, SentFlags, HasEvidenceData,
                 EvidenceListMutex, push>>

\* ... and HasEvidenceData[flag] = true; AddFlagged unlocks and returns.
SetHasEvidence(t) ==
  /\ pc[t] = "has"
  /\ HasEvidenceData' = [HasEvidenceData EXCEPT ![call[t].flag] = TRUE]
  /\ EvidenceListMutex' = NoThread
  /\ Return(t, TRUE)
  /\ UNCHANGED <<FlaggedList, SentFlags, EvidenceData,
                 AlreadySentEvidence, sent>>

-----------------------------------------------------------------------------
(* PushAllEvidence, SendFlag and FlagWithData.                             *)

\* The end of a pass of the monitor loop: std::async(PushAllEvidence).  The
\* monitor thread then sleeps and waits in the destructor of the future.
StartPushNoWait ==
  /\ pc[Monitor] = "idle" /\ pc[Pusher] = "idle"
  /\ pc' = [pc EXCEPT ![Pusher] = "flag"]
  /\ flagIt' = 1
  /\ UNCHANGED <<call, lists, EvidenceListMutex, eviIt, AlreadySentEvidence, sent>>

StartPush ==
  /\ pc[Monitor] = "idle" /\ pc[Pusher] = "idle"
  /\ pc' = [pc EXCEPT ![Monitor] = "wait", ![Pusher] = "flag"]
  /\ flagIt' = 1
  /\ UNCHANGED <<call, lists, EvidenceListMutex, eviIt, AlreadySentEvidence, sent>>

FinishPush ==
  /\ pc[Pusher] = "flag"
  /\ flagIt > Len(FlaggedList)
  /\ Goto(Pusher, "idle")
  /\ UNCHANGED <<call, lists, EvidenceListMutex, push>>

\* The future is ready and the monitor loop goes round.
NextPass ==
  /\ pc[Monitor] = "wait" /\ pc[Pusher] = "idle"
  /\ Goto(Monitor, "idle")
  /\ UNCHANGED <<call, lists, EvidenceListMutex, push>>

\* if (!SentFlags[flag])
ReadSent ==
  /\ pc[Pusher] = "flag"
  /\ flagIt <= Len(FlaggedList)
  /\ IF SentFlags[FlaggedList[flagIt]]
     THEN flagIt' = flagIt + 1 /\ UNCHANGED pc
     ELSE Goto(Pusher, "unsent") /\ UNCHANGED flagIt
  /\ UNCHANGED <<call, lists, EvidenceListMutex, eviIt, AlreadySentEvidence, sent>>

\* if (HasEvidenceData[flag]) walk the evidence, else SendFlag(flag).
ReadHasEvidence ==
  LET flag == FlaggedList[flagIt] IN
  /\ pc[Pusher] = "unsent"
  /\ IF HasEvidenceData[flag]
     THEN Goto(Pusher, "evidence") /\ eviIt' = 1 /\ UNCHANGED call
     ELSE /\ Goto(Pusher, "find")
          /\ call' = [call EXCEPT ![Pusher] = [flag |-> flag, data |-> NoData]]
          /\ UNCHANGED eviIt
  /\ UNCHANGED <<lists, EvidenceListMutex, flagIt, AlreadySentEvidence, sent>>

\* The evidence to send for a flag: of its type, its data not sent yet.
SendableAnyType(e) == e.data \notin AlreadySentEvidence
SendableAlways(e)  == e.flag = FlaggedList[flagIt]
Sendable(e) == /\ e.flag = FlaggedList[flagIt]
               /\ e.data \notin AlreadySentEvidence

ReadEvidence ==
  /\ pc[Pusher] = "evidence"
  /\ \/ /\ eviIt > Len(EvidenceData)
        /\ Goto(Pusher, "flag")
        /\ flagIt' = flagIt + 1
        /\ UNCHANGED <<call, eviIt>>
     \/ /\ eviIt <= Len(EvidenceData)
        /\ Sendable(EvidenceData[eviIt])
        /\ Goto(Pusher, "find")
        /\ call' = [call EXCEPT ![Pusher] = [flag |-> FlaggedList[flagIt],
                                             data |-> EvidenceData[eviIt].data]]
        /\ UNCHANGED <<flagIt, eviIt>>
     \/ /\ eviIt <= Len(EvidenceData)
        /\ ~ Sendable(EvidenceData[eviIt])
        /\ eviIt' = eviIt + 1
        /\ UNCHANGED <<pc, call, flagIt>>
  /\ UNCHANGED <<lists, EvidenceListMutex, AlreadySentEvidence, sent>>

\* NetClient::FlagCheater succeeds.  FlagWithData is called with
\* ShouldMarkAsSent = false: it remembers the data and leaves SentFlags.
SendOkForgets ==
  /\ pc[Pusher] = "send"
  /\ sent' = [sent EXCEPT ![call[Pusher]] = @ + 1]
  /\ IF call[Pusher].data = NoData
     THEN Goto(Pusher, "marksent") /\ UNCHANGED <<flagIt, eviIt>>
     ELSE AfterSend
  /\ UNCHANGED <<call, lists, EvidenceListMutex, AlreadySentEvidence>>

SendOk ==
  /\ pc[Pusher] = "send"
  /\ sent' = [sent EXCEPT ![call[Pusher]] = @ + 1]
  /\ IF call[Pusher].data = NoData
     THEN /\ Goto(Pusher, "marksent")
          /\ UNCHANGED <<flagIt, eviIt, AlreadySentEvidence>>
     ELSE /\ AlreadySentEvidence' = AlreadySentEvidence \cup {call[Pusher].data}
          /\ AfterSend
  /\ UNCHANGED <<call, lists, EvidenceListMutex>>

\* FlagCheater fails: `return false`, and the flag stays unsent.
SendFailMarks ==
  /\ pc[Pusher] = "send"
  /\ AfterSend
  /\ SentFlags' = [SentFlags EXCEPT ![call[Pusher].flag] = TRUE]
  /\ UNCHANGED <<call, FlaggedList, HasEvidenceData, EvidenceData,
                 EvidenceListMutex, AlreadySentEvidence, sent>>

SendFail ==
  /\ pc[Pusher] = "send"
  /\ AfterSend
  /\ UNCHANGED <<call, lists, EvidenceListMutex, AlreadySentEvidence, sent>>

\* SendFlag: SentFlags[flag] = true, after SendFlagMutex is released.
MarkSent ==
  /\ pc[Pusher] = "marksent"
  /\ SentFlags' = [SentFlags EXCEPT ![call[Pusher].flag] = TRUE]
  /\ AfterSend
  /\ UNCHANGED <<call, FlaggedList, HasEvidenceData, EvidenceData,
                 EvidenceListMutex, AlreadySentEvidence, sent>>

-----------------------------------------------------------------------------
AddFlaggedStep(t) == FindFlag(t) \/ PushFlag(t) \/ MarkUnsent(t)
                     \/ AddEvidence(t) \/ SetHasEvidence(t)

PushStep == FinishPush \/ ReadSent \/ ReadHasEvidence \/ ReadEvidence \/ MarkSent

Next == \/ \E t \in Detectors : Detect(t)
        \/ \E t \in Threads : AddFlaggedStep(t)
        \/ StartPush \/ NextPass \/ PushStep
        \/ SendOk \/ SendFail

Spec == Init /\ [][Next]_vars

\* Threads are scheduled; EvidenceListMutex is not starved; every pass of the
\* monitor loop makes finitely many checks and then pushes (StartPush is
\* enabled again and again, between two checks); a connection that keeps
\* being tried works again and again.  No detection has to occur.
Fairness == /\ \A t \in Threads : /\ WF_vars(FindFlag(t) \/ MarkUnsent(t)
                                             \/ AddEvidence(t) \/ SetHasEvidence(t))
                                  /\ SF_vars(PushFlag(t))
            /\ SF_vars(StartPush)
            /\ WF_vars(PushStep) /\ WF_vars(NextPass)
            /\ SF_vars(SendOk)

FairSpec == Spec /\ Fairness

-----------------------------------------------------------------------------
(* Properties.                                                             *)

Labels == {"idle", "find", "lock", "mark", "add", "has", "wait", "flag",
           "unsent", "evidence", "send", "marksent"}

\* Types of the variables of the locker and of the threads in it.
TypeOK ==
  /\ pc \in [Threads -> Labels]
  /\ call \in [Threads -> Report]
  /\ FlaggedList \in Seq(Flags)
  /\ SentFlags \in [Flags -> BOOLEAN]
  /\ HasEvidenceData \in [Flags -> BOOLEAN]
  /\ EvidenceData \in Seq(Evidence)
  /\ AlreadySentEvidence \subseteq Data
  /\ EvidenceListMutex \in Threads \cup {NoThread}
  /\ flagIt \in Nat \ {0} /\ eviIt \in Nat \ {0}
  /\ sent \in [Report -> Nat]

\* FlaggedList and EvidenceData have one writer at a time: a thread between
\* push_back and the end of AddFlagged holds EvidenceListMutex.
Writing(t) == pc[t] \in {"mark", "add", "has"}
OneWriter == \A t \in Threads : Writing(t) => EvidenceListMutex = t

\* A flag counts as sent only when the server was sent it on its own: a failed
\* send, or a send of evidence, leaves it to be pushed again.
MarkedOnlyIfSent == \A f \in Flags :
  SentFlags[f] => sent[[flag |-> f, data |-> NoData]] > 0

\* No piece of evidence is sent to the server twice, however often the flag is
\* pushed again and however often its sends fail in between.
EvidenceSentOnce == \A r \in Report : r.data # NoData => sent[r] <= 1

\* The flags no thread but the monitor thread reports.
MonitorOnly(f) == \A t \in Watchers : \A r \in Reports[t] : r.flag # f

\* Evidence the server was not sent.
Unsent(e) == e.data \notin AlreadySentEvidence

\* Evidence for a flag of the monitor thread's own checks (a module without a
\* signature, a mapped region) cannot be stranded behind a flag that counts as
\* sent, because the monitor thread waits for the push it started.
MonitorEvidenceKept == \A i \in DOMAIN EvidenceData :
  LET e == EvidenceData[i] IN
  MonitorOnly(e.flag) /\ Unsent(e) => ~ SentFlags[e.flag]

\* The same for every thread: what PushAllEvidence says of itself, "push all
\* unsent flags to server, if any evidence is with a flag it will also send
\* that" (Common/EvidenceLocker.cpp:134).
NoEvidenceStranded == \A i \in DOMAIN EvidenceData :
  LET e == EvidenceData[i] IN Unsent(e) => ~ SentFlags[e.flag]

\* A flag that only the monitor thread reports, never with evidence, is sent
\* to the server at most once.
MonitorFlagSentOnce == \A f \in Flags :
  MonitorOnly(f) /\ (\A r \in Reports[Monitor] : r.flag = f => r.data = NoData)
    => sent[[flag |-> f, data |-> NoData]] <= 1

\* Every detection reaches the server in the end: once a thread calls
\* AddFlagged(flag, ...), some message with that flag gets sent, whatever
\* becomes of its evidence.
FlagSent(f) == \E r \in Report : r.flag = f /\ sent[r] > 0
DetectionReachesServer == \A t \in Detectors, f \in Flags :
  (pc[t] = "find" /\ call[t].flag = f) ~> FlagSent(f)

-----------------------------------------------------------------------------
(* The locker implements EvidenceReporting: a listed flag and a recorded   *)
(* piece of evidence are records, and sends are deliveries.                *)

recordedBar == {r \in Report : IF r.data = NoData THEN Listed(r.flag)
                               ELSE \E i \in DOMAIN EvidenceData : EvidenceData[i] = r}
deliveredBar == {r \in Report : sent[r] > 0}

Reporting == INSTANCE EvidenceReporting WITH Records <- Report,
               recorded <- recordedBar, delivered <- deliveredBar

\* Nothing recorded is forgotten, nothing unrecorded is sent, and evidence is
\* sent with the flag it was recorded under.
ImplementsReporting == Reporting!Spec
=============================================================================
