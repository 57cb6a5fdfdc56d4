------------------------ MODULE EvidenceLockerProofs ------------------------
(***************************************************************************)
(* Proofs about EvidenceLocker, for any set of detection threads, flags    *)
(* and evidence and whatever those threads report.                         *)
(***************************************************************************)
EXTENDS EvidenceLocker, SequenceTheorems, TLAPS

\* While PushAllEvidence is at a flag, its position is inside FlaggedList.
PushInside == pc[Pusher] \notin {"idle", "flag"} => flagIt <= Len(FlaggedList)

\* Only a call with data reaches AddEvidence.
AddsData == \A t \in Threads : pc[t] = "add" => call[t].data \in Data

TypeInv == TypeOK /\ PushInside /\ AddsData

LEMMA AnyReportType == AnyReport \in Report
  <1>1. PICK f \in Flags : TRUE BY SomeFlag
  <1>2. [flag |-> f, data |-> NoData] \in Report BY <1>1 DEF Report
  <1>. QED BY <1>2 DEF AnyReport

LEMMA PusherIsThread == /\ Pusher \in Threads /\ Monitor \in Threads
                        /\ Monitor # Pusher
                        /\ \A t \in Watchers : t \in Threads /\ t # Monitor /\ t # Pusher
                        /\ \A t \in Detectors : t \in Threads /\ t # Pusher
  BY DistinctThreads DEF Threads, Detectors

LEMMA TypeInvInit == Init => TypeInv
  BY AnyReportType, PusherIsThread, NoDataIsNoData
  DEF Init, TypeInv, TypeOK, PushInside, AddsData, Labels

\* AfterSend moves only the push, to the next flag or the next evidence.
LEMMA AfterSendMoves ==
  ASSUME TypeInv, AfterSend, pc[Pusher] \notin {"idle", "flag"}
  PROVE  /\ pc' \in [Threads -> Labels]
         /\ \A t \in Threads \ {Pusher} : pc'[t] = pc[t]
         /\ pc'[Pusher] \in {"flag", "evidence"}
         /\ flagIt' \in Nat \ {0} /\ eviIt' \in Nat \ {0}
         /\ pc'[Pusher] = "evidence" => flagIt' <= Len(FlaggedList)
  <1>. USE PusherIsThread DEF TypeInv, TypeOK, PushInside, Labels, Goto
  <1>1. CASE call[Pusher].data = NoData
    <2>1. flagIt' = flagIt + 1 /\ eviIt' = eviIt BY <1>1 DEF AfterSend
    <2>2. pc' = [pc EXCEPT ![Pusher] = "flag"] BY <1>1 DEF AfterSend
    <2>. QED BY <2>1, <2>2
  <1>2. CASE call[Pusher].data # NoData BY <1>2 DEF AfterSend
  <1>. QED BY <1>1, <1>2

\* Return moves only the thread that returns, out of AddFlagged.
LEMMA ReturnMoves ==
  ASSUME TypeInv, NEW t \in Threads, NEW added \in BOOLEAN, Return(t, added),
         pc[t] \in {"find", "mark", "has"}
  PROVE  /\ pc' \in [Threads -> Labels]
         /\ call' \in [Threads -> Report]
         /\ \A u \in Threads \ {t} : pc'[u] = pc[u] /\ call'[u] = call[u]
         /\ pc'[t] \in {"idle", "send", "flag", "evidence"}
         /\ flagIt' \in Nat \ {0} /\ eviIt' \in Nat \ {0}
         /\ pc'[Pusher] \notin {"idle", "flag"} => flagIt' <= Len(FlaggedList)
  <1>1. CASE t # Pusher
    BY <1>1, PusherIsThread, AnyReportType
    DEF Return, TypeInv, TypeOK, PushInside, Labels, Goto
  <1>2. CASE t = Pusher /\ added
    BY <1>2, AfterSendMoves DEF Return, TypeInv, TypeOK
  <1>3. CASE t = Pusher /\ ~ added
    BY <1>3, PusherIsThread DEF Return, TypeInv, TypeOK, PushInside, Labels, Goto
  <1>. QED BY <1>1, <1>2, <1>3

LEMMA TypeInvStep == TypeInv /\ [Next]_vars => TypeInv'
  <1>. SUFFICES ASSUME TypeInv, [Next]_vars PROVE TypeInv'
    OBVIOUS
  <1>. USE PusherIsThread DEF TypeInv, TypeOK, PushInside, AddsData, Labels
  <1>1. ASSUME NEW t \in Detectors, Detect(t) PROVE TypeInv'
    BY <1>1, ReportsAssumption DEF Detect, lists, push, Goto
  <1>2. ASSUME NEW t \in Threads, FindFlag(t) PROVE TypeInv'
    <2>1. CASE Known(t) BY <1>2, <2>1, ReturnMoves DEF FindFlag, lists
    <2>2. CASE ~ Known(t) BY <1>2, <2>2 DEF FindFlag, lists, Goto
    <2>. QED BY <2>1, <2>2
  <1>3. ASSUME NEW t \in Threads, PushFlag(t) PROVE TypeInv'
    BY <1>3 DEF PushFlag, push, Report, Goto
  <1>4. ASSUME NEW t \in Threads, MarkUnsent(t) PROVE TypeInv'
    <2>1. CASE WithData(t) BY <1>4, <2>1 DEF MarkUnsent, WithData, Report, Goto
    <2>2. CASE ~ WithData(t) BY <1>4, <2>2, ReturnMoves DEF MarkUnsent
    <2>. QED BY <2>1, <2>2
  <1>5. ASSUME NEW t \in Threads, AddEvidence(t) PROVE TypeInv'
    <2>1. call[t] \in Evidence BY <1>5 DEF AddEvidence, Report, Evidence
    <2>. QED BY <1>5, <2>1 DEF AddEvidence, push, Goto
  <1>6. ASSUME NEW t \in Threads, SetHasEvidence(t) PROVE TypeInv'
    BY <1>6, ReturnMoves DEF SetHasEvidence
  <1>7. CASE StartPush
    <2>1. /\ pc' \in [Threads -> Labels]
          /\ pc'[Pusher] = "flag" /\ pc'[Monitor] = "wait"
          /\ \A t \in Threads \ {Monitor, Pusher} : pc'[t] = pc[t]
      BY <1>7 DEF StartPush
    <2>. QED BY <1>7, <2>1 DEF StartPush, lists
  <1>8. CASE NextPass
    BY <1>8 DEF NextPass, lists, push, Goto
  <1>9. CASE FinishPush
    BY <1>9 DEF FinishPush, lists, push, Goto
  <1>10. CASE ReadSent
    <2>1. CASE SentFlags[FlaggedList[flagIt]]
      BY <1>10, <2>1 DEF ReadSent, lists
    <2>2. CASE ~ SentFlags[FlaggedList[flagIt]]
      BY <1>10, <2>2 DEF ReadSent, lists, Goto
    <2>. QED BY <2>1, <2>2
  <1>11. CASE ReadHasEvidence
    <2>1. FlaggedList[flagIt] \in Flags BY <1>11 DEF ReadHasEvidence
    <2>2. CASE HasEvidenceData[FlaggedList[flagIt]]
      BY <1>11, <2>2 DEF ReadHasEvidence, lists, Goto
    <2>3. CASE ~ HasEvidenceData[FlaggedList[flagIt]]
      BY <1>11, <2>1, <2>3 DEF ReadHasEvidence, lists, Report, Goto
    <2>. QED BY <2>2, <2>3
  <1>12. CASE ReadEvidence
    <2>1. FlaggedList[flagIt] \in Flags BY <1>12 DEF ReadEvidence
    <2>2. CASE eviIt > Len(EvidenceData)
      <3>1. /\ pc' = [pc EXCEPT ![Pusher] = "flag"]
            /\ flagIt' = flagIt + 1
            /\ UNCHANGED <<call, lists, eviIt, EvidenceListMutex, AlreadySentEvidence, sent>>
        BY <1>12, <2>2 DEF ReadEvidence, Goto
      <3>. QED BY <3>1 DEF lists
    <2>3. CASE eviIt <= Len(EvidenceData) /\ Sendable(EvidenceData[eviIt])
      <3>0. EvidenceData[eviIt] \in Evidence BY <2>3
      <3>1. EvidenceData[eviIt].data \in Data BY <3>0 DEF Evidence
      <3>2. /\ pc' = [pc EXCEPT ![Pusher] = "find"]
            /\ call' = [call EXCEPT ![Pusher] =
                 [flag |-> FlaggedList[flagIt], data |-> EvidenceData[eviIt].data]]
            /\ UNCHANGED <<lists, flagIt, eviIt, EvidenceListMutex,
                           AlreadySentEvidence, sent>>
        BY <1>12, <2>3 DEF ReadEvidence, Goto
      <3>. QED BY <1>12, <2>1, <3>1, <3>2 DEF ReadEvidence, lists, Report
    <2>4. CASE eviIt <= Len(EvidenceData) /\ ~ Sendable(EvidenceData[eviIt])
      <3>1. /\ eviIt' = eviIt + 1
            /\ UNCHANGED <<pc, call, lists, flagIt, EvidenceListMutex,
                           AlreadySentEvidence, sent>>
        BY <1>12, <2>4 DEF ReadEvidence
      <3>. QED BY <3>1 DEF lists
    <2>5. eviIt > Len(EvidenceData) \/ eviIt <= Len(EvidenceData)
      BY LenProperties
    <2>. QED BY <2>2, <2>3, <2>4, <2>5
  <1>13. CASE MarkSent
    BY <1>13, AfterSendMoves DEF MarkSent, Report
  <1>14. CASE SendOk
    <2>1. sent' \in [Report -> Nat] BY <1>14 DEF SendOk
    <2>2. CASE call[Pusher].data = NoData
      <3>1. /\ pc' = [pc EXCEPT ![Pusher] = "marksent"]
            /\ UNCHANGED <<call, lists, flagIt, eviIt, EvidenceListMutex,
                           AlreadySentEvidence>>
        BY <1>14, <2>2 DEF SendOk, Goto
      <3>. QED BY <1>14, <2>1, <3>1 DEF SendOk, lists
    <2>3. CASE call[Pusher].data # NoData
      <3>1. /\ AlreadySentEvidence' = AlreadySentEvidence \cup {call[Pusher].data}
            /\ AfterSend
            /\ UNCHANGED <<call, lists, EvidenceListMutex>>
        BY <1>14, <2>3 DEF SendOk
      <3>2. AlreadySentEvidence' \subseteq Data BY <2>3, <3>1 DEF Report
      <3>. QED BY <1>14, <2>1, <3>1, <3>2, AfterSendMoves DEF SendOk, lists
    <2>. QED BY <2>2, <2>3
  <1>15. CASE SendFail
    BY <1>15, AfterSendMoves DEF SendFail, lists
  <1>16. CASE UNCHANGED vars
    BY <1>16 DEF vars, lists, push
  <1>. QED
    BY <1>1, <1>2, <1>3, <1>4, <1>5, <1>6, <1>7, <1>8, <1>9, <1>10, <1>11, <1>12,
       <1>13, <1>14, <1>15, <1>16
    DEF Next, AddFlaggedStep, PushStep

\* The locker's variables and the threads in it keep their types: lists, flags
\* and evidence stay what the code declares them to be.
THEOREM TypeCorrect == Spec => []TypeOK
  <1>. QED BY TypeInvInit, TypeInvStep, PTL DEF Spec, TypeInv

LEMMA TypeInvInvariant == Spec => []TypeInv
  <1>. QED BY TypeInvInit, TypeInvStep, PTL DEF Spec

-----------------------------------------------------------------------------
(* Where the threads can be.                                               *)

\* PushAllEvidence only calls AddFlagged for a flag of the list, so AddFlagged
\* finds it and never locks or appends.
PushPlaces ==
  /\ pc[Pusher] \in {"idle", "flag", "unsent", "evidence", "find", "send", "marksent"}
  /\ pc[Pusher] \in {"find", "send", "marksent"} =>
       call[Pusher].flag = FlaggedList[flagIt]

\* The monitor thread waits for its push, and a detection thread in AddFlagged
\* has one of its own reports to add.
DetectorPlaces ==
  /\ pc[Pusher] # "idle" => pc[Monitor] = "wait"
  /\ \A t \in Detectors : pc[t] # "idle" /\ pc[t] # "wait" => call[t] \in Reports[t]

\* What is being sent is recorded: the flag is listed, the evidence is the one
\* PushAllEvidence stands at.
SendsRecorded ==
  pc[Pusher] \in {"find", "send"} /\ call[Pusher].data # NoData =>
    eviIt <= Len(EvidenceData) /\ EvidenceData[eviIt] = call[Pusher]

\* A flag about to be marked was sent on its own.
MarksSent ==
  pc[Pusher] = "marksent" =>
    call[Pusher].data = NoData /\ sent[call[Pusher]] > 0

ControlInv == TypeInv /\ PushPlaces /\ DetectorPlaces /\ SendsRecorded /\ MarksSent

-----------------------------------------------------------------------------
(* What the actions move.                                                  *)

\* PushAllEvidence changes nothing that the detection threads write, but for
\* SentFlags, and moves no other thread.
LEMMA PushMoves ==
  ASSUME TypeInv, PushStep \/ SendOk \/ SendFail
  PROVE  /\ \A t \in Threads \ {Pusher} : pc'[t] = pc[t] /\ call'[t] = call[t]
         /\ pc[Pusher] \in {"flag", "unsent", "evidence", "send", "marksent"}
         /\ pc'[Pusher] \in {"idle", "flag", "unsent", "evidence", "find", "marksent"}
         /\ UNCHANGED <<FlaggedList, HasEvidenceData, EvidenceData, EvidenceListMutex>>
  <1>. USE PusherIsThread DEF TypeInv, TypeOK
  <1>1. CASE FinishPush BY <1>1 DEF FinishPush, lists, push, Goto
  <1>2. CASE ReadSent
    <2>1. CASE SentFlags[FlaggedList[flagIt]] BY <1>2, <2>1 DEF ReadSent, lists
    <2>2. CASE ~ SentFlags[FlaggedList[flagIt]] BY <1>2, <2>2 DEF ReadSent, lists, Goto
    <2>. QED BY <2>1, <2>2
  <1>3. CASE ReadHasEvidence
    <2>1. CASE HasEvidenceData[FlaggedList[flagIt]]
      BY <1>3, <2>1 DEF ReadHasEvidence, lists, Goto
    <2>2. CASE ~ HasEvidenceData[FlaggedList[flagIt]]
      BY <1>3, <2>2 DEF ReadHasEvidence, lists, Goto
    <2>. QED BY <2>1, <2>2
  <1>4. CASE ReadEvidence BY <1>4 DEF ReadEvidence, lists, Goto
  <1>5. CASE MarkSent BY <1>5, AfterSendMoves DEF MarkSent
  <1>6. CASE SendOk
    <2>1. CASE call[Pusher].data = NoData BY <1>6, <2>1 DEF SendOk, lists, Goto
    <2>2. CASE call[Pusher].data # NoData BY <1>6, <2>2, AfterSendMoves DEF SendOk, lists
    <2>. QED BY <2>1, <2>2
  <1>7. CASE SendFail BY <1>7, AfterSendMoves DEF SendFail, lists
  <1>. QED BY <1>1, <1>2, <1>3, <1>4, <1>5, <1>6, <1>7 DEF PushStep

\* A detection thread in AddFlagged moves no other thread and nothing of the push.
LEMMA DetectorMoves ==
  ASSUME TypeInv, NEW t \in Detectors, Detect(t) \/ AddFlaggedStep(t)
  PROVE  /\ \A u \in Threads \ {t} : pc'[u] = pc[u] /\ call'[u] = call[u]
         /\ UNCHANGED push
         /\ pc[t] \in {"idle", "find", "lock", "mark", "add", "has"}
         /\ pc'[t] \in {"idle", "find", "lock", "mark", "add", "has"}
         /\ pc'[t] # "idle" /\ ~ Detect(t) => call'[t] = call[t]
  <1>. USE PusherIsThread DEF TypeInv, TypeOK, Goto, Return
  <1>1. CASE Detect(t) BY <1>1 DEF Detect
  <1>2. CASE FindFlag(t) BY <1>2, AnyReportType DEF FindFlag, push
  <1>3. CASE PushFlag(t) BY <1>3 DEF PushFlag
  <1>4. CASE MarkUnsent(t) BY <1>4, AnyReportType DEF MarkUnsent, push
  <1>5. CASE AddEvidence(t) BY <1>5 DEF AddEvidence
  <1>6. CASE SetHasEvidence(t) BY <1>6, AnyReportType DEF SetHasEvidence, push
  <1>. QED BY <1>1, <1>2, <1>3, <1>4, <1>5, <1>6 DEF AddFlaggedStep

\* StartPush and NextPass move the monitor and the push, and nothing else.
LEMMA MonitorMoves ==
  ASSUME TypeInv, StartPush \/ NextPass
  PROVE  /\ \A t \in Threads \ {Monitor, Pusher} : pc'[t] = pc[t]
         /\ pc'[Monitor] \in {"idle", "wait"} /\ pc[Monitor] \in {"idle", "wait"}
         /\ pc[Pusher] = "idle"
         /\ pc'[Pusher] \in {"idle", "flag"}
         /\ pc'[Pusher] = "flag" => pc'[Monitor] = "wait"
         /\ UNCHANGED <<call, lists, EvidenceListMutex, AlreadySentEvidence, sent>>
  <1>. USE PusherIsThread DEF TypeInv, TypeOK
  <1>1. CASE StartPush BY <1>1 DEF StartPush
  <1>2. CASE NextPass BY <1>2 DEF NextPass, Goto, push
  <1>. QED BY <1>1, <1>2

\* One call of AddFlagged appends at most the flag, and the evidence, it has.
LEMMA DetectorAdds ==
  ASSUME TypeInv, NEW t \in Detectors, Detect(t) \/ AddFlaggedStep(t)
  PROVE  /\ \/ FlaggedList' = FlaggedList
            \/ PushFlag(t) /\ FlaggedList' = Append(FlaggedList, call[t].flag)
         /\ \/ EvidenceData' = EvidenceData
            \/ AddEvidence(t) /\ EvidenceData' = Append(EvidenceData, call[t])
  BY DEF AddFlaggedStep, Detect, FindFlag, PushFlag, MarkUnsent, AddEvidence,
         SetHasEvidence, lists

\* AddFlagged called by PushAllEvidence only finds the flag it is called with.
PusherFinds == /\ pc[Pusher] = "find"
               /\ pc' = [pc EXCEPT ![Pusher] = "send"]
               /\ UNCHANGED <<call, lists, EvidenceListMutex, push>>

LEMMA PusherInAddFlagged ==
  ASSUME TypeInv, PushPlaces, AddFlaggedStep(Pusher)
  PROVE  PusherFinds
  <1>. USE PusherIsThread DEF TypeInv, TypeOK, PushPlaces
  <1>1. FindFlag(Pusher)
    BY DEF AddFlaggedStep, PushFlag, MarkUnsent, AddEvidence, SetHasEvidence
  <1>2. Known(Pusher)
    <2>1. flagIt \in DOMAIN FlaggedList BY <1>1, LenProperties DEF FindFlag, PushInside
    <2>. QED BY <1>1, <2>1 DEF FindFlag, Known, WithData, Listed
  <1>. QED BY <1>1, <1>2 DEF FindFlag, Return, Goto, PusherFinds, push

\* A step is one of: a detection thread's, the push's search, a move of the
\* monitor loop, another step of the push, or a stutter.
LEMMA StepCases ==
  ASSUME TypeInv, PushPlaces, [Next]_vars
  PROVE  \/ \E t \in Detectors : Detect(t) \/ AddFlaggedStep(t)
         \/ PusherFinds
         \/ StartPush \/ NextPass
         \/ PushStep \/ SendOk \/ SendFail
         \/ UNCHANGED vars
  BY PusherInAddFlagged DEF Next, Threads

-----------------------------------------------------------------------------
(* Where the threads are, step by step.                                    *)

LEMMA ControlInit == Init => ControlInv
  BY TypeInvInit, PusherIsThread
  DEF Init, ControlInv, TypeInv, TypeOK, PushPlaces, DetectorPlaces, SendsRecorded, MarksSent

LEMMA PushPlacesStep == ControlInv /\ [Next]_vars => PushPlaces'
  <1>. SUFFICES ASSUME ControlInv, [Next]_vars PROVE PushPlaces'
    OBVIOUS
  <1>. USE PusherIsThread DEF ControlInv, TypeInv, TypeOK, PushInside
  <1>1. ASSUME NEW t \in Detectors, Detect(t) \/ AddFlaggedStep(t) PROVE PushPlaces'
    <2>1. pc'[Pusher] = pc[Pusher] /\ call'[Pusher] = call[Pusher] /\ flagIt' = flagIt
      BY <1>1, DetectorMoves DEF push
    <2>2. pc[Pusher] \in {"find", "send", "marksent"} => FlaggedList'[flagIt] = FlaggedList[flagIt]
      BY <1>1, DetectorAdds, AppendProperties DEF PushFlag
    <2>. QED BY <2>1, <2>2 DEF PushPlaces
  <1>2. CASE PusherFinds BY <1>2 DEF PusherFinds, push, lists, PushPlaces
  <1>3. CASE StartPush \/ NextPass BY <1>3, MonitorMoves DEF PushPlaces
  <1>4. CASE PushStep \/ SendOk \/ SendFail
    <2>1. /\ pc'[Pusher] \in {"idle", "flag", "unsent", "evidence", "find", "marksent"}
          /\ FlaggedList' = FlaggedList
      BY <1>4, PushMoves
    <2>2. ASSUME pc'[Pusher] \in {"find", "marksent"}
          PROVE  call'[Pusher].flag = FlaggedList[flagIt] /\ flagIt' = flagIt
      <3>1. CASE FinishPush BY <2>2, <3>1 DEF FinishPush, Goto
      <3>2. CASE ReadSent BY <2>2, <3>2 DEF ReadSent, Goto
      <3>3. CASE ReadHasEvidence BY <2>2, <3>3 DEF ReadHasEvidence, Goto
      <3>4. CASE ReadEvidence BY <2>2, <3>4 DEF ReadEvidence, Goto
      <3>5. CASE MarkSent BY <2>2, <3>5, AfterSendMoves DEF MarkSent
      <3>6. CASE SendOk
        <4>1. CASE call[Pusher].data = NoData BY <3>6, <4>1 DEF SendOk, PushPlaces
        <4>2. CASE call[Pusher].data # NoData BY <2>2, <3>6, <4>2, AfterSendMoves DEF SendOk
        <4>. QED BY <4>1, <4>2
      <3>7. CASE SendFail BY <2>2, <3>7, AfterSendMoves DEF SendFail
      <3>. QED BY <1>4, <3>1, <3>2, <3>3, <3>4, <3>5, <3>6, <3>7 DEF PushStep
    <2>. QED BY <2>1, <2>2 DEF PushPlaces
  <1>5. CASE UNCHANGED vars BY <1>5 DEF vars, push, lists, PushPlaces
  <1>. QED BY <1>1, <1>2, <1>3, <1>4, <1>5, StepCases

LEMMA DetectorPlacesStep == ControlInv /\ [Next]_vars => DetectorPlaces'
  <1>. SUFFICES ASSUME ControlInv, [Next]_vars PROVE DetectorPlaces'
    OBVIOUS
  <1>. USE PusherIsThread DEF ControlInv, TypeInv, TypeOK, DetectorPlaces
  <1>1. ASSUME NEW t \in Detectors, Detect(t) \/ AddFlaggedStep(t) PROVE DetectorPlaces'
    <2>1. pc'[Pusher] # "idle" => pc'[Monitor] = "wait"
      BY <1>1, DetectorMoves
    <2>2. pc'[t] # "idle" => call'[t] \in Reports[t]
      <3>1. CASE Detect(t) BY <3>1 DEF Detect
      <3>2. CASE ~ Detect(t) BY <1>1, <3>2, DetectorMoves DEF AddFlaggedStep, FindFlag,
              PushFlag, MarkUnsent, AddEvidence, SetHasEvidence
      <3>. QED BY <3>1, <3>2
    <2>. QED BY <1>1, <2>1, <2>2, DetectorMoves
  <1>2. CASE PusherFinds BY <1>2 DEF PusherFinds, lists, push
  <1>3. CASE StartPush \/ NextPass BY <1>3, MonitorMoves
  <1>4. CASE PushStep \/ SendOk \/ SendFail BY <1>4, PushMoves
  <1>5. CASE UNCHANGED vars BY <1>5 DEF vars
  <1>. QED BY <1>1, <1>2, <1>3, <1>4, <1>5, StepCases

LEMMA SendsRecordedStep == ControlInv /\ [Next]_vars => SendsRecorded'
  <1>. SUFFICES ASSUME ControlInv, [Next]_vars PROVE SendsRecorded'
    OBVIOUS
  <1>. USE PusherIsThread DEF ControlInv, TypeInv, TypeOK, PushInside
  <1>1. ASSUME NEW t \in Detectors, Detect(t) \/ AddFlaggedStep(t) PROVE SendsRecorded'
    <2>1. pc'[Pusher] = pc[Pusher] /\ call'[Pusher] = call[Pusher] /\ eviIt' = eviIt
      BY <1>1, DetectorMoves DEF push
    <2>2. CASE EvidenceData' = EvidenceData BY <2>1, <2>2 DEF SendsRecorded
    <2>3. CASE EvidenceData' # EvidenceData
      <3>1. EvidenceData' = Append(EvidenceData, call[t]) /\ call[t] \in Evidence
        BY <1>1, <2>3, DetectorAdds DEF AddEvidence, AddsData, Evidence, Report
      <3>. QED BY <2>1, <3>1, AppendProperties DEF SendsRecorded
    <2>. QED BY <2>2, <2>3
  <1>2. CASE PusherFinds BY <1>2 DEF PusherFinds, lists, push, SendsRecorded
  <1>3. CASE StartPush \/ NextPass BY <1>3, MonitorMoves DEF SendsRecorded
  <1>4. CASE PushStep \/ SendOk \/ SendFail
    <2>1. /\ pc'[Pusher] \in {"idle", "flag", "unsent", "evidence", "find", "marksent"}
          /\ EvidenceData' = EvidenceData
      BY <1>4, PushMoves
    <2>2. ASSUME pc'[Pusher] = "find", call'[Pusher].data # NoData
          PROVE  eviIt' <= Len(EvidenceData) /\ EvidenceData[eviIt'] = call'[Pusher]
      <3>1. ReadEvidence
        <4>1. ~ FinishPush BY <2>2 DEF FinishPush, Goto
        <4>2. ~ ReadSent BY <2>2 DEF ReadSent, Goto
        <4>3. ~ ReadHasEvidence BY <2>2 DEF ReadHasEvidence, Goto
        <4>4. ~ MarkSent BY <2>2, AfterSendMoves DEF MarkSent
        <4>5. ~ SendFail BY <2>2, AfterSendMoves DEF SendFail
        <4>6. ~ SendOk BY <2>2, AfterSendMoves DEF SendOk, Goto
        <4>. QED BY <1>4, <4>1, <4>2, <4>3, <4>4, <4>5, <4>6 DEF PushStep
      <3>2. /\ eviIt' = eviIt /\ eviIt <= Len(EvidenceData)
            /\ Sendable(EvidenceData[eviIt])
            /\ call'[Pusher] = [flag |-> FlaggedList[flagIt],
                                data |-> EvidenceData[eviIt].data]
        BY <2>2, <3>1 DEF ReadEvidence, Goto
      <3>3. EvidenceData[eviIt] \in Evidence BY <3>2, LenProperties
      <3>. QED BY <3>2, <3>3 DEF Sendable, Evidence
    <2>. QED BY <2>1, <2>2 DEF SendsRecorded
  <1>5. CASE UNCHANGED vars BY <1>5 DEF vars, push, lists, SendsRecorded
  <1>. QED BY <1>1, <1>2, <1>3, <1>4, <1>5, StepCases

LEMMA MarksSentStep == ControlInv /\ [Next]_vars => MarksSent'
  <1>. SUFFICES ASSUME ControlInv, [Next]_vars PROVE MarksSent'
    OBVIOUS
  <1>. USE PusherIsThread DEF ControlInv, TypeInv, TypeOK
  <1>1. ASSUME NEW t \in Detectors, Detect(t) \/ AddFlaggedStep(t) PROVE MarksSent'
    BY <1>1, DetectorMoves DEF push, MarksSent
  <1>2. CASE PusherFinds BY <1>2 DEF PusherFinds, lists, push, MarksSent
  <1>3. CASE StartPush \/ NextPass BY <1>3, MonitorMoves DEF MarksSent
  <1>4. CASE PushStep \/ SendOk \/ SendFail
    <2>1. CASE SendOk
      <3>1. CASE call[Pusher].data = NoData BY <2>1, <3>1 DEF SendOk, MarksSent
      <3>2. CASE call[Pusher].data # NoData
        BY <2>1, <3>2, AfterSendMoves DEF SendOk, MarksSent
      <3>. QED BY <3>1, <3>2
    <2>2. CASE ~ SendOk
      <3>1. pc'[Pusher] # "marksent"
        <4>1. CASE FinishPush BY <4>1 DEF FinishPush, Goto
        <4>2. CASE ReadSent BY <4>2 DEF ReadSent, Goto
        <4>3. CASE ReadHasEvidence BY <4>3 DEF ReadHasEvidence, Goto
        <4>4. CASE ReadEvidence BY <4>4 DEF ReadEvidence, Goto
        <4>5. CASE MarkSent BY <4>5, AfterSendMoves DEF MarkSent
        <4>6. CASE SendFail BY <4>6, AfterSendMoves DEF SendFail
        <4>. QED BY <1>4, <2>2, <4>1, <4>2, <4>3, <4>4, <4>5, <4>6 DEF PushStep
      <3>. QED BY <3>1 DEF MarksSent
    <2>. QED BY <2>1, <2>2
  <1>5. CASE UNCHANGED vars BY <1>5 DEF vars, push, MarksSent
  <1>. QED BY <1>1, <1>2, <1>3, <1>4, <1>5, StepCases

LEMMA ControlInvariant == Spec => []ControlInv
  <1>1. Init => ControlInv BY ControlInit
  <1>2. ControlInv /\ [Next]_vars => ControlInv'
    BY TypeInvStep, PushPlacesStep, DetectorPlacesStep, SendsRecordedStep, MarksSentStep
    DEF ControlInv
  <1>. QED BY <1>1, <1>2, PTL DEF Spec

-----------------------------------------------------------------------------
(* One writer, and flags marked as sent were sent.                         *)

LEMMA OneWriterStep == ControlInv /\ OneWriter /\ [Next]_vars => OneWriter'
  <1>. SUFFICES ASSUME ControlInv, OneWriter, [Next]_vars PROVE OneWriter'
    OBVIOUS
  <1>. USE PusherIsThread DEF ControlInv, TypeInv, TypeOK, OneWriter, Writing
  <1>1. ASSUME NEW t \in Detectors, Detect(t) \/ AddFlaggedStep(t) PROVE OneWriter'
    <2>1. t \in Threads /\ \A u \in Threads \ {t} : pc'[u] = pc[u]
      BY <1>1, DetectorMoves
    <2>2. CASE Detect(t) BY <2>1, <2>2 DEF Detect, Goto
    <2>3. CASE FindFlag(t) BY <2>1, <2>3 DEF FindFlag, Return, Goto
    <2>4. CASE PushFlag(t) BY <2>1, <2>4, DistinctThreads DEF PushFlag, Goto
    <2>5. CASE MarkUnsent(t) BY <2>1, <2>5 DEF MarkUnsent, Return, Goto
    <2>6. CASE AddEvidence(t) BY <2>1, <2>6 DEF AddEvidence, Goto
    <2>7. CASE SetHasEvidence(t) BY <2>1, <2>7 DEF SetHasEvidence, Return, Goto
    <2>. QED BY <1>1, <2>2, <2>3, <2>4, <2>5, <2>6, <2>7 DEF AddFlaggedStep
  <1>2. CASE PusherFinds BY <1>2 DEF PusherFinds
  <1>3. CASE StartPush \/ NextPass BY <1>3, MonitorMoves
  <1>4. CASE PushStep \/ SendOk \/ SendFail BY <1>4, PushMoves
  <1>5. CASE UNCHANGED vars BY <1>5 DEF vars
  <1>. QED BY <1>1, <1>2, <1>3, <1>4, <1>5, StepCases

\* FlaggedList and EvidenceData have one writer at a time, whatever the number
\* of detection threads: EvidenceListMutex does its work.
THEOREM WritersExclude == Spec => []OneWriter
  <1>1. Init => OneWriter BY DEF Init, OneWriter, Writing
  <1>. QED BY <1>1, OneWriterStep, ControlInvariant, PTL DEF Spec

LEMMA MarkedStep == ControlInv /\ MarkedOnlyIfSent /\ [Next]_vars => MarkedOnlyIfSent'
  <1>. SUFFICES ASSUME ControlInv, MarkedOnlyIfSent, [Next]_vars PROVE MarkedOnlyIfSent'
    OBVIOUS
  <1>. USE PusherIsThread DEF ControlInv, TypeInv, TypeOK, MarkedOnlyIfSent
  <1>0. \A f \in Flags : [flag |-> f, data |-> NoData] \in Report BY DEF Report
  <1>1. ASSUME NEW t \in Detectors, Detect(t) \/ AddFlaggedStep(t) PROVE MarkedOnlyIfSent'
    <2>1. sent' = sent BY <1>1, DetectorMoves DEF push
    <2>2. \A f \in Flags : SentFlags'[f] => SentFlags[f]
      BY <1>1 DEF AddFlaggedStep, Detect, FindFlag, PushFlag, MarkUnsent, AddEvidence,
                  SetHasEvidence, lists
    <2>. QED BY <2>1, <2>2
  <1>2. CASE PusherFinds BY <1>2 DEF PusherFinds, lists, push
  <1>3. CASE StartPush \/ NextPass BY <1>3, MonitorMoves DEF lists
  <1>4. CASE PushStep \/ SendOk \/ SendFail
    <2>1. CASE MarkSent
      <3>1. call[Pusher] \in Report /\ sent[call[Pusher]] > 0 /\ call[Pusher].data = NoData
        BY <2>1 DEF MarkSent, MarksSent
      <3>2. call[Pusher] = [flag |-> call[Pusher].flag, data |-> NoData]
        BY <3>1 DEF Report
      <3>. QED BY <2>1, <3>1, <3>2 DEF MarkSent
    <2>2. CASE SendOk
      <3>1. SentFlags' = SentFlags /\ \A r \in Report : sent'[r] >= sent[r]
        BY <2>2 DEF SendOk, lists
      <3>. QED BY <1>0, <2>2, <3>1 DEF SendOk
    <2>3. CASE ~ MarkSent /\ ~ SendOk
      BY <1>4, <2>3 DEF PushStep, FinishPush, ReadSent, ReadHasEvidence, ReadEvidence,
                        SendFail, lists, push
    <2>. QED BY <2>1, <2>2, <2>3
  <1>5. CASE UNCHANGED vars BY <1>5 DEF vars, lists, push
  <1>. QED BY <1>1, <1>2, <1>3, <1>4, <1>5, StepCases

\* A flag counts as sent only when the server was sent it on its own, in every
\* interleaving of the push with AddFlagged and whichever sends fail.
THEOREM MarkedWereSent == Spec => []MarkedOnlyIfSent
  <1>1. Init => MarkedOnlyIfSent BY DEF Init, MarkedOnlyIfSent
  <1>. QED BY <1>1, MarkedStep, ControlInvariant, PTL DEF Spec

-----------------------------------------------------------------------------
(* Evidence goes out once.                                                 *)

SentIsRemembered == \A r \in Report :
  r.data # NoData /\ sent[r] > 0 => r.data \in AlreadySentEvidence

SendsNew == pc[Pusher] \in {"find", "send"} /\ call[Pusher].data # NoData =>
              call[Pusher].data \notin AlreadySentEvidence

OnceInv == EvidenceSentOnce /\ SentIsRemembered /\ SendsNew

LEMMA OnceStep == ControlInv /\ OnceInv /\ [Next]_vars => OnceInv'
  <1>. SUFFICES ASSUME ControlInv, OnceInv, [Next]_vars PROVE OnceInv'
    OBVIOUS
  <1>. USE PusherIsThread DEF ControlInv, TypeInv, TypeOK, OnceInv, EvidenceSentOnce,
                              SentIsRemembered
  <1>1. ASSUME NEW t \in Detectors, Detect(t) \/ AddFlaggedStep(t) PROVE OnceInv'
    BY <1>1, DetectorMoves DEF push, SendsNew
  <1>2. CASE PusherFinds BY <1>2 DEF PusherFinds, push, SendsNew
  <1>3. CASE StartPush \/ NextPass BY <1>3, MonitorMoves DEF SendsNew
  <1>4. CASE SendOk
    <2>1. sent' = [sent EXCEPT ![call[Pusher]] = @ + 1] /\ call' = call
      BY <1>4 DEF SendOk
    <2>2. CASE call[Pusher].data = NoData
      <3>1. AlreadySentEvidence' = AlreadySentEvidence BY <1>4, <2>2 DEF SendOk
      <3>. QED BY <2>1, <2>2, <3>1 DEF SendsNew
    <2>3. CASE call[Pusher].data # NoData
      <3>1. /\ AlreadySentEvidence' = AlreadySentEvidence \cup {call[Pusher].data}
            /\ pc'[Pusher] \in {"flag", "evidence"}
        BY <1>4, <2>3, AfterSendMoves DEF SendOk
      <3>2. sent[call[Pusher]] = 0
        BY <1>4, <2>3 DEF SendOk, SendsNew
      <3>3. EvidenceSentOnce' BY <2>1, <3>2
      <3>4. SentIsRemembered' BY <2>1, <3>1
      <3>. QED BY <3>1, <3>3, <3>4 DEF SendsNew
    <2>. QED BY <2>2, <2>3
  <1>5. CASE PushStep \/ SendFail
    <2>1. sent' = sent /\ AlreadySentEvidence' = AlreadySentEvidence
      BY <1>5 DEF PushStep, FinishPush, ReadSent, ReadHasEvidence, ReadEvidence,
                  MarkSent, SendFail, push
    <2>2. SendsNew'
      <3>1. CASE FinishPush BY <3>1 DEF FinishPush, Goto, SendsNew
      <3>2. CASE ReadSent BY <3>2 DEF ReadSent, Goto, SendsNew
      <3>3. CASE ReadHasEvidence BY <3>3 DEF ReadHasEvidence, Goto, SendsNew
      <3>4. CASE ReadEvidence
        BY <2>1, <3>4 DEF ReadEvidence, Sendable, Goto, SendsNew
      <3>5. CASE MarkSent BY <3>5, AfterSendMoves DEF MarkSent, SendsNew
      <3>6. CASE SendFail BY <3>6, AfterSendMoves DEF SendFail, SendsNew
      <3>. QED BY <1>5, <3>1, <3>2, <3>3, <3>4, <3>5, <3>6 DEF PushStep
    <2>. QED BY <2>1, <2>2
  <1>6. CASE UNCHANGED vars BY <1>6 DEF vars, push, SendsNew
  <1>. QED BY <1>1, <1>2, <1>3, <1>4, <1>5, <1>6, StepCases

\* No piece of evidence is sent to the server twice, however often its flag is
\* pushed again: AlreadySentEvidence remembers every one that went out.
THEOREM EvidenceOnce == Spec => []EvidenceSentOnce
  <1>1. Init => OnceInv
    BY DEF Init, OnceInv, EvidenceSentOnce, SentIsRemembered, SendsNew
  <1>2. OnceInv => EvidenceSentOnce BY DEF OnceInv
  <1>. QED BY <1>1, <1>2, OnceStep, ControlInvariant, PTL DEF Spec

-----------------------------------------------------------------------------
(* The locker implements EvidenceReporting.                                *)

\* What a list holds, and what Append adds to it.
Members(seq) == {seq[i] : i \in DOMAIN seq}

LEMMA AppendMembers ==
  ASSUME NEW S, NEW seq \in Seq(S), NEW e \in S
  PROVE  Members(Append(seq, e)) = Members(seq) \cup {e}
  <1>1. /\ Len(seq) \in Nat
        /\ DOMAIN seq = 1 .. Len(seq)
        /\ DOMAIN Append(seq, e) = 1 .. Len(seq) + 1
        /\ \A i \in 1 .. Len(seq) : Append(seq, e)[i] = seq[i]
        /\ Append(seq, e)[Len(seq) + 1] = e
    BY AppendProperties, LenProperties
  <1>2. /\ Len(seq) + 1 \in 1 .. Len(seq) + 1
        /\ \A i \in 1 .. Len(seq) : i \in 1 .. Len(seq) + 1
        /\ \A i \in 1 .. Len(seq) + 1 : i = Len(seq) + 1 \/ i \in 1 .. Len(seq)
    BY <1>1
  <1>. QED BY <1>1, <1>2, Zenon DEF Members

LEMMA RefinesInit == Init => Reporting!Init
  BY DEF Init, Reporting!Init, recordedBar, deliveredBar, Listed

\* The step that appends a flag records it.
LEMMA PushFlagRecords ==
  ASSUME TypeInv, NEW t \in Detectors, PushFlag(t)
  PROVE  Reporting!Record([flag |-> call[t].flag, data |-> NoData])
  <1>. USE PusherIsThread DEF TypeInv, TypeOK
  <1>1. call[t] \in Report /\ call[t].flag \in Flags BY DEF Report
  <1>2. FlaggedList' = Append(FlaggedList, call[t].flag)
        /\ UNCHANGED <<EvidenceData, sent>>
    BY DEF PushFlag, push
  <1>3. Members(FlaggedList') = Members(FlaggedList) \cup {call[t].flag}
    BY <1>1, <1>2, AppendMembers
  <1>4. \A f : Listed(f)' <=> Listed(f) \/ f = call[t].flag
    BY <1>3, Zenon DEF Members, Listed
  <1>5. recordedBar' = recordedBar \cup {[flag |-> call[t].flag, data |-> NoData]}
    BY <1>1, <1>2, <1>4 DEF recordedBar, Report
  <1>6. deliveredBar' = deliveredBar BY <1>2 DEF deliveredBar
  <1>. QED BY <1>5, <1>6 DEF Reporting!Record

\* The step that appends evidence records it.
LEMMA AddEvidenceRecords ==
  ASSUME TypeInv, NEW t \in Detectors, AddEvidence(t)
  PROVE  Reporting!Record(call[t])
  <1>. USE PusherIsThread DEF TypeInv, TypeOK
  <1>1. call[t] \in Report /\ call[t].data \in Data /\ call[t] \in Evidence
    BY DEF AddEvidence, AddsData, Report, Evidence
  <1>2. EvidenceData' = Append(EvidenceData, call[t]) /\ UNCHANGED <<FlaggedList, sent>>
    BY DEF AddEvidence, push
  <1>3. Members(EvidenceData') = Members(EvidenceData) \cup {call[t]}
    BY <1>1, <1>2, AppendMembers
  <1>4. \A r : (\E i \in DOMAIN EvidenceData' : EvidenceData'[i] = r)
           <=> (\E i \in DOMAIN EvidenceData : EvidenceData[i] = r) \/ r = call[t]
    BY <1>3, Zenon DEF Members
  <1>5. recordedBar' = recordedBar \cup {call[t]}
    <2>1. call[t].data # NoData BY <1>1, NoDataIsNoData
    <2>2. \A f : Listed(f)' <=> Listed(f) BY <1>2 DEF Listed
    <2>. QED BY ONLY <1>1, <1>4, <2>1, <2>2, Zenon DEF recordedBar
  <1>6. deliveredBar' = deliveredBar BY <1>2 DEF deliveredBar
  <1>. QED BY <1>5, <1>6 DEF Reporting!Record

\* A successful send delivers what is recorded.
LEMMA SendOkDelivers ==
  ASSUME ControlInv, SendOk
  PROVE  Reporting!Deliver(call[Pusher])
  <1>. USE PusherIsThread DEF ControlInv, TypeInv, TypeOK
  <1>1. call[Pusher] \in recordedBar
    <2>1. flagIt \in DOMAIN FlaggedList BY LenProperties DEF SendOk, PushInside
    <2>2. CASE call[Pusher].data = NoData
      BY <2>1, <2>2 DEF SendOk, PushPlaces, recordedBar, Listed
    <2>3. CASE call[Pusher].data # NoData
      <3>1. eviIt \in DOMAIN EvidenceData /\ EvidenceData[eviIt] = call[Pusher]
        BY <2>3, LenProperties DEF SendOk, SendsRecorded
      <3>. QED BY <2>3, <3>1 DEF recordedBar
    <2>. QED BY <2>2, <2>3
  <1>2. sent' = [sent EXCEPT ![call[Pusher]] = @ + 1]
        /\ UNCHANGED <<FlaggedList, EvidenceData>>
    BY DEF SendOk, lists
  <1>3. recordedBar' = recordedBar BY <1>2 DEF recordedBar, Listed
  <1>4. deliveredBar' = deliveredBar \cup {call[Pusher]} BY <1>2 DEF deliveredBar
  <1>. QED BY <1>1, <1>3, <1>4 DEF Reporting!Deliver

LEMMA RefinesStep == ControlInv /\ [Next]_vars => [Reporting!Next]_(Reporting!absVars)
  <1>. SUFFICES ASSUME ControlInv, [Next]_vars
                PROVE  Reporting!Next \/ UNCHANGED Reporting!absVars
    OBVIOUS
  <1>. USE PusherIsThread DEF ControlInv
  <1>0. ASSUME UNCHANGED <<FlaggedList, EvidenceData, sent>>
        PROVE  UNCHANGED Reporting!absVars
    BY <1>0 DEF Reporting!absVars, recordedBar, deliveredBar, Listed
  <1>1. ASSUME NEW t \in Detectors, Detect(t) \/ AddFlaggedStep(t)
        PROVE  Reporting!Next \/ UNCHANGED Reporting!absVars
    <2>1. CASE PushFlag(t)
      <3>1. [flag |-> call[t].flag, data |-> NoData] \in Report
        BY DEF Report, TypeInv, TypeOK
      <3>. QED BY <2>1, <3>1, PushFlagRecords DEF Reporting!Next
    <2>2. CASE AddEvidence(t)
      BY <2>2, AddEvidenceRecords DEF Reporting!Next, TypeInv, TypeOK
    <2>3. CASE ~ PushFlag(t) /\ ~ AddEvidence(t)
      BY <1>0, <1>1, <2>3, DetectorMoves, DetectorAdds DEF push
    <2>. QED BY <2>1, <2>2, <2>3
  <1>2. CASE PusherFinds BY <1>0, <1>2 DEF PusherFinds, lists, push
  <1>3. CASE StartPush \/ NextPass BY <1>0, <1>3, MonitorMoves DEF lists
  <1>4. CASE SendOk BY <1>4, SendOkDelivers DEF Reporting!Next, TypeInv, TypeOK
  <1>5. CASE PushStep \/ SendFail
    BY <1>0, <1>5, PushMoves DEF PushStep, FinishPush, ReadSent, ReadHasEvidence,
       ReadEvidence, MarkSent, SendFail, push
  <1>6. CASE UNCHANGED vars BY <1>0, <1>6 DEF vars, lists, push
  <1>. QED BY <1>1, <1>2, <1>3, <1>4, <1>5, <1>6, StepCases

\* The locker, with its unlocked searches, its retries and its thread of
\* pushes, implements EvidenceReporting: nothing recorded is forgotten, and the
\* server is told of nothing, and of no evidence under a flag, that was not
\* recorded.
THEOREM RefinesReporting == Spec => ImplementsReporting
  <1>. QED BY RefinesInit, RefinesStep, ControlInvariant, PTL
           DEF Spec, ImplementsReporting, Reporting!Spec

-----------------------------------------------------------------------------
(* The evidence of the monitor thread is kept.                             *)

\* Evidence for a flag of the monitor thread alone shows in HasEvidenceData, at
\* the latest when the monitor thread leaves AddFlagged.
EvidenceIsNoted == \A i \in DOMAIN EvidenceData :
  LET f == EvidenceData[i].flag IN
  MonitorOnly(f) => HasEvidenceData[f] \/ (pc[Monitor] = "has" /\ call[Monitor].flag = f)

\* Such a flag is sent, and marked, on its own only while it has no evidence.
SendsBare == LET f == call[Pusher].flag IN
  pc[Pusher] \in {"find", "send", "marksent"} /\ call[Pusher].data = NoData
    /\ MonitorOnly(f) => ~ HasEvidenceData[f]

AddsUnsent == pc[Monitor] = "add" => ~ SentFlags[call[Monitor].flag]

KeptInv == MonitorEvidenceKept /\ EvidenceIsNoted /\ SendsBare /\ AddsUnsent

LEMMA EvidenceFlags ==
  ASSUME TypeInv
  PROVE  \A i \in DOMAIN EvidenceData : EvidenceData[i].flag \in Flags
  <1>1. \A i \in DOMAIN EvidenceData : EvidenceData[i] \in Evidence
    BY LenProperties DEF TypeInv, TypeOK
  <1>2. \A e \in Evidence : e.flag \in Flags BY DEF Evidence
  <1>. QED BY <1>1, <1>2

LEMMA KeptDetectorStep ==
  ASSUME ControlInv, KeptInv, NEW t \in Detectors, Detect(t) \/ AddFlaggedStep(t)
  PROVE  KeptInv'
  <1>. USE PusherIsThread DEF ControlInv, TypeInv, TypeOK
  <1>1. /\ \A u \in Threads \ {t} : pc'[u] = pc[u] /\ call'[u] = call[u]
        /\ UNCHANGED push /\ t \in Threads /\ t # Pusher
        /\ pc[t] # "wait"
    BY DetectorMoves
  <1>2. call[t] \in Report /\ call[t].flag \in Flags BY <1>1 DEF Report
  <1>3. t # Monitor /\ pc[t] # "idle" => ~ MonitorOnly(call[t].flag)
    BY <1>1 DEF DetectorPlaces, MonitorOnly, Detectors
  <1>4. t = Monitor => pc[Pusher] = "idle" BY <1>1 DEF DetectorPlaces
  <1>5. CASE Detect(t)
    BY <1>1, <1>4, <1>5 DEF Detect, Goto, lists, KeptInv, MonitorEvidenceKept, Unsent,
       EvidenceIsNoted, SendsBare, AddsUnsent, push
  <1>6. CASE FindFlag(t)
    BY <1>1, <1>4, <1>6 DEF FindFlag, Return, Goto, lists, KeptInv, MonitorEvidenceKept,
       Unsent, EvidenceIsNoted, SendsBare, AddsUnsent, push
  <1>7. CASE PushFlag(t)
    BY <1>1, <1>4, <1>7 DEF PushFlag, Goto, KeptInv, MonitorEvidenceKept, Unsent,
       EvidenceIsNoted, SendsBare, AddsUnsent, push
  <1>8. CASE MarkUnsent(t)
    <2>1. /\ SentFlags' = [SentFlags EXCEPT ![call[t].flag] = FALSE]
          /\ UNCHANGED <<EvidenceData, HasEvidenceData>>
          /\ pc[t] = "mark" /\ pc'[t] \in {"idle", "add"}
          /\ pc'[t] = "add" => call'[t] = call[t]
      BY <1>1, <1>8 DEF MarkUnsent, Return, Goto
    <2>2. MonitorEvidenceKept'
      BY <1>1, <2>1 DEF KeptInv, MonitorEvidenceKept, Unsent, push
    <2>3. EvidenceIsNoted' BY <1>1, <2>1 DEF KeptInv, EvidenceIsNoted
    <2>4. SendsBare' BY <1>1, <2>1 DEF KeptInv, SendsBare
    <2>5. AddsUnsent'
      <3>1. CASE t = Monitor BY <1>2, <2>1, <3>1 DEF AddsUnsent
      <3>2. CASE t # Monitor
        <4>1. pc'[Monitor] = pc[Monitor] /\ call'[Monitor] = call[Monitor]
              /\ call[Monitor].flag \in Flags
          BY <1>1, <3>2 DEF Report
        <4>. QED BY <1>2, <2>1, <4>1 DEF KeptInv, AddsUnsent
      <3>. QED BY <3>1, <3>2
    <2>. QED BY <2>2, <2>3, <2>4, <2>5 DEF KeptInv
  <1>9. CASE AddEvidence(t)
    <2>1. /\ EvidenceData' = Append(EvidenceData, call[t]) /\ call' = call
          /\ UNCHANGED <<SentFlags, HasEvidenceData, AlreadySentEvidence>>
          /\ pc[t] = "add" /\ pc'[t] = "has"
      BY <1>9 DEF AddEvidence, Goto, push
    <2>2. call[t] \in Evidence BY <2>1 DEF AddsData, Evidence, Report
    <2>3. \A i \in DOMAIN EvidenceData' :
             \/ i \in DOMAIN EvidenceData /\ EvidenceData'[i] = EvidenceData[i]
             \/ EvidenceData'[i] = call[t]
      BY <2>1, <2>2, AppendProperties, LenProperties
    <2>4. MonitorEvidenceKept'
      <3>1. MonitorOnly(call[t].flag) => ~ SentFlags[call[t].flag]
        BY <1>3, <2>1 DEF KeptInv, AddsUnsent
      <3>. QED BY <2>1, <2>3, <3>1 DEF KeptInv, MonitorEvidenceKept, Unsent
    <2>5. EvidenceIsNoted'
      <3>1. MonitorOnly(call[t].flag) => pc'[Monitor] = "has" /\ call'[Monitor] = call[t]
        BY <1>3, <2>1
      <3>2. \A f : pc[Monitor] = "has" /\ call[Monitor].flag = f
                   => pc'[Monitor] = "has" /\ call'[Monitor].flag = f
        BY <1>1, <2>1
      <3>. QED BY <2>1, <2>3, <3>1, <3>2 DEF KeptInv, EvidenceIsNoted
    <2>6. SendsBare' BY <1>1, <2>1 DEF KeptInv, SendsBare
    <2>7. AddsUnsent' BY <1>1, <2>1 DEF KeptInv, AddsUnsent
    <2>. QED BY <2>4, <2>5, <2>6, <2>7 DEF KeptInv
  <1>10. CASE SetHasEvidence(t)
    <2>1. /\ HasEvidenceData' = [HasEvidenceData EXCEPT ![call[t].flag] = TRUE]
          /\ UNCHANGED <<SentFlags, EvidenceData, AlreadySentEvidence>>
          /\ pc[t] = "has" /\ pc'[t] = "idle"
      BY <1>1, <1>10 DEF SetHasEvidence, Return, Goto
    <2>2. MonitorEvidenceKept' BY <2>1 DEF KeptInv, MonitorEvidenceKept, Unsent
    <2>3. EvidenceIsNoted'
      <3>1. \A i \in DOMAIN EvidenceData : EvidenceData[i].flag \in Flags
        BY EvidenceFlags
      <3>2. \A f \in Flags : HasEvidenceData'[f] <=> HasEvidenceData[f] \/ f = call[t].flag
        BY <1>2, <2>1
      <3>3. CASE t = Monitor BY <2>1, <3>1, <3>2, <3>3 DEF KeptInv, EvidenceIsNoted
      <3>4. CASE t # Monitor
        BY <1>1, <2>1, <3>1, <3>2, <3>4 DEF KeptInv, EvidenceIsNoted
      <3>. QED BY <3>3, <3>4
    <2>4. SendsBare'
      <3>1. ASSUME pc[Pusher] # "idle" PROVE ~ MonitorOnly(call[t].flag)
        BY <1>3, <1>4, <2>1, <3>1
      <3>. QED BY <1>1, <2>1, <3>1 DEF KeptInv, SendsBare, Report
    <2>5. AddsUnsent' BY <1>1, <2>1 DEF KeptInv, AddsUnsent
    <2>. QED BY <2>2, <2>3, <2>4, <2>5 DEF KeptInv
  <1>. QED BY <1>5, <1>6, <1>7, <1>8, <1>9, <1>10 DEF AddFlaggedStep

LEMMA KeptStep == ControlInv /\ KeptInv /\ [Next]_vars => KeptInv'
  <1>. SUFFICES ASSUME ControlInv, KeptInv, [Next]_vars PROVE KeptInv'
    OBVIOUS
  <1>. USE PusherIsThread DEF ControlInv, TypeInv, TypeOK
  <1>1. ASSUME NEW t \in Detectors, Detect(t) \/ AddFlaggedStep(t) PROVE KeptInv'
    BY <1>1, KeptDetectorStep
  <1>2. CASE PusherFinds
    BY <1>2 DEF PusherFinds, lists, push, KeptInv, MonitorEvidenceKept, Unsent,
       EvidenceIsNoted, SendsBare, AddsUnsent
  <1>3. CASE StartPush \/ NextPass
    BY <1>3, MonitorMoves DEF lists, KeptInv, MonitorEvidenceKept, Unsent,
       EvidenceIsNoted, SendsBare, AddsUnsent
  <1>4. CASE PushStep \/ SendOk \/ SendFail
    <2>0. /\ pc'[Monitor] = pc[Monitor] /\ call'[Monitor] = call[Monitor]
          /\ pc[Monitor] = "wait"
          /\ UNCHANGED <<HasEvidenceData, EvidenceData>>
      BY <1>4, PushMoves DEF DetectorPlaces
    <2>1. EvidenceIsNoted' BY <2>0 DEF KeptInv, EvidenceIsNoted
    <2>2. AddsUnsent' BY <2>0 DEF AddsUnsent
    <2>3. SendsBare'
      <3>1. CASE FinishPush BY <3>1 DEF FinishPush, Goto, SendsBare
      <3>2. CASE ReadSent BY <3>2 DEF ReadSent, Goto, SendsBare
      <3>3. CASE ReadHasEvidence
        BY <2>0, <3>3 DEF ReadHasEvidence, Goto, SendsBare
      <3>4. CASE ReadEvidence
        <4>1. CASE pc'[Pusher] = "find"
          <5>1. /\ eviIt <= Len(EvidenceData)
                /\ call'[Pusher].data = EvidenceData[eviIt].data
            BY <3>4, <4>1 DEF ReadEvidence, Goto
          <5>2. EvidenceData[eviIt] \in Evidence BY <5>1, LenProperties
          <5>. QED BY <5>1, <5>2, NoDataIsNoData DEF SendsBare, Evidence
        <4>2. CASE pc'[Pusher] # "find"
          BY <3>4, <4>2 DEF ReadEvidence, Goto, SendsBare
        <4>. QED BY <4>1, <4>2
      <3>5. CASE MarkSent BY <3>5, AfterSendMoves DEF MarkSent, SendsBare
      <3>6. CASE SendFail BY <3>6, AfterSendMoves DEF SendFail, SendsBare
      <3>7. CASE SendOk
        <4>1. CASE call[Pusher].data = NoData
          BY <2>0, <3>7, <4>1 DEF SendOk, Goto, KeptInv, SendsBare
        <4>2. CASE call[Pusher].data # NoData
          BY <3>7, <4>2, AfterSendMoves DEF SendOk, SendsBare
        <4>. QED BY <4>1, <4>2
      <3>. QED BY <1>4, <3>1, <3>2, <3>3, <3>4, <3>5, <3>6, <3>7 DEF PushStep
    <2>4. MonitorEvidenceKept'
      <3>1. AlreadySentEvidence \subseteq AlreadySentEvidence'
        BY <1>4 DEF PushStep, FinishPush, ReadSent, ReadHasEvidence, ReadEvidence,
           MarkSent, SendOk, SendFail, AfterSend, push
      <3>2. CASE MarkSent
        <4>1. /\ SentFlags' = [SentFlags EXCEPT ![call[Pusher].flag] = TRUE]
              /\ MonitorOnly(call[Pusher].flag) => ~ HasEvidenceData[call[Pusher].flag]
          BY <3>2 DEF MarkSent, MarksSent, KeptInv, SendsBare
        <4>2. \A i \in DOMAIN EvidenceData : EvidenceData[i].flag \in Flags /\
                (MonitorOnly(EvidenceData[i].flag) => EvidenceData[i].flag # call[Pusher].flag)
          BY <2>0, <4>1, EvidenceFlags DEF KeptInv, EvidenceIsNoted
        <4>. QED BY <2>0, <3>1, <4>1, <4>2 DEF KeptInv, MonitorEvidenceKept, Unsent
      <3>3. CASE ~ MarkSent
        <4>1. SentFlags' = SentFlags
          BY <1>4, <3>3 DEF PushStep, FinishPush, ReadSent, ReadHasEvidence, ReadEvidence,
             SendOk, SendFail, lists
        <4>. QED BY <2>0, <3>1, <4>1 DEF KeptInv, MonitorEvidenceKept, Unsent
      <3>. QED BY <3>2, <3>3
    <2>. QED BY <2>1, <2>2, <2>3, <2>4 DEF KeptInv
  <1>5. CASE UNCHANGED vars
    BY <1>5 DEF vars, lists, push, KeptInv, MonitorEvidenceKept, Unsent,
       EvidenceIsNoted, SendsBare, AddsUnsent
  <1>. QED BY <1>1, <1>2, <1>3, <1>4, <1>5, StepCases

\* Evidence for a flag of the monitor thread alone is never stranded behind a
\* flag that counts as sent: the next push still looks at it.
THEOREM MonitorKeepsEvidence == Spec => []MonitorEvidenceKept
  <1>1. Init => KeptInv
    BY PusherIsThread DEF Init, KeptInv, MonitorEvidenceKept, EvidenceIsNoted,
       SendsBare, AddsUnsent
  <1>2. KeptInv => MonitorEvidenceKept BY DEF KeptInv
  <1>. QED BY <1>1, <1>2, KeptStep, ControlInvariant, PTL DEF Spec

-----------------------------------------------------------------------------
(* The flags the monitor thread reports without evidence are sent once.    *)

Bare(f) == [flag |-> f, data |-> NoData]

\* A flag of the monitor thread alone, never reported with evidence.
BareFlag(f) == /\ MonitorOnly(f)
               /\ \A r \in Reports[Monitor] : r.flag = f => r.data = NoData

\* Once sent, such a flag is marked or about to be; a push that is on its way
\* to send it has it unmarked, hence unsent; and it is listed only once,
\* because no other thread can append it between the search and the push_back.
BareFlagInv(f) ==
  /\ sent[Bare(f)] <= 1
  /\ sent[Bare(f)] > 0 =>
       /\ Listed(f)
       /\ SentFlags[f] \/ (pc[Pusher] = "marksent" /\ call[Pusher].flag = f)
  /\ pc[Pusher] = "unsent" /\ FlaggedList[flagIt] = f => ~ SentFlags[f]
  /\ pc[Pusher] \in {"find", "send"} /\ call[Pusher] = Bare(f) => ~ SentFlags[f]
  /\ pc[Monitor] = "lock" /\ call[Monitor].flag = f => ~ Listed(f)
  /\ pc[Monitor] = "mark" /\ call[Monitor].flag = f => sent[Bare(f)] = 0

LEMMA BareDetectorStep ==
  ASSUME ControlInv, NEW f \in Flags, BareFlag(f), BareFlagInv(f),
         NEW t \in Detectors, Detect(t) \/ AddFlaggedStep(t)
  PROVE  BareFlagInv(f)'
  <1>. USE PusherIsThread DEF ControlInv, TypeInv, TypeOK
  <1>1. /\ \A u \in Threads \ {t} : pc'[u] = pc[u] /\ call'[u] = call[u]
        /\ UNCHANGED push /\ t \in Threads /\ t # Pusher
        /\ pc[t] # "wait"
    BY DetectorMoves
  <1>2. call[t] \in Report /\ call[t].flag \in Flags BY <1>1 DEF Report
  <1>3. pc[t] # "idle" /\ call[t].flag = f => t = Monitor /\ call[t].data = NoData
    BY <1>1 DEF DetectorPlaces, MonitorOnly, Detectors, BareFlag
  <1>4. t = Monitor => pc[Pusher] = "idle" BY <1>1 DEF DetectorPlaces
  <1>5. CASE FlaggedList' = FlaggedList /\ SentFlags' = SentFlags
    <2>1. Listed(f)' <=> Listed(f) BY <1>5 DEF Listed
    <2>2. pc'[t] # "mark"
      BY <1>1, <1>5, <1>2, AppendProperties
      DEF Detect, AddFlaggedStep, FindFlag, PushFlag, MarkUnsent, AddEvidence,
          SetHasEvidence, Return, Goto
    <2>3. ASSUME t = Monitor, pc'[t] = "lock", call'[t].flag = f PROVE ~ Listed(f)
      <3>1. FindFlag(t)
        BY <1>1, <2>3 DEF Detect, AddFlaggedStep, FindFlag, PushFlag, MarkUnsent,
           AddEvidence, SetHasEvidence, Return, Goto
      <3>2. call'[t] = call[t] /\ ~ Known(t)
        BY <1>1, <2>3, <3>1 DEF FindFlag, Return, Goto
      <3>. QED BY <1>3, <2>3, <3>1, <3>2 DEF Known, WithData, FindFlag
    <2>4. CASE t = Monitor
      BY <1>1, <1>4, <1>5, <2>1, <2>2, <2>3, <2>4 DEF push, BareFlagInv
    <2>5. CASE t # Monitor
      BY <1>1, <1>5, <2>1, <2>5 DEF push, BareFlagInv
    <2>. QED BY <2>4, <2>5
  <1>6. CASE PushFlag(t)
    <2>1. /\ FlaggedList' = Append(FlaggedList, call[t].flag)
          /\ pc[t] = "lock" /\ pc'[t] = "mark"
          /\ UNCHANGED <<call, SentFlags>>
      BY <1>1, <1>6 DEF PushFlag, Goto
    <2>2. Members(FlaggedList') = Members(FlaggedList) \cup {call[t].flag}
      BY <1>2, <2>1, AppendMembers
    <2>3. Listed(f)' <=> Listed(f) \/ f = call[t].flag
      BY <2>2, Zenon DEF Members, Listed
    <2>4. pc[Pusher] = "unsent" => FlaggedList'[flagIt] = FlaggedList[flagIt]
      BY <2>1, <1>2, AppendProperties DEF PushInside
    <2>5. CASE call[t].flag = f
      <3>1. t = Monitor /\ ~ Listed(f) BY <1>3, <2>1, <2>5 DEF BareFlagInv
      <3>2. sent[Bare(f)] = 0
        <4>1. Bare(f) \in Report BY DEF Bare, Report
        <4>. QED BY <3>1, <4>1 DEF BareFlagInv
      <3>. QED BY <1>1, <1>4, <2>1, <2>3, <3>1, <3>2 DEF push, BareFlagInv
    <2>6. CASE call[t].flag # f
      BY <1>1, <2>1, <2>3, <2>4, <2>6 DEF push, BareFlagInv
    <2>. QED BY <2>5, <2>6
  <1>7. CASE MarkUnsent(t)
    <2>1. /\ SentFlags' = [SentFlags EXCEPT ![call[t].flag] = FALSE]
          /\ FlaggedList' = FlaggedList
          /\ pc[t] = "mark" /\ pc'[t] \in {"idle", "add"}
      BY <1>1, <1>7 DEF MarkUnsent, Return, Goto
    <2>2. Listed(f)' <=> Listed(f) BY <2>1 DEF Listed
    <2>3. CASE call[t].flag = f
      <3>1. t = Monitor /\ sent[Bare(f)] = 0 BY <1>3, <2>1, <2>3 DEF BareFlagInv
      <3>. QED BY <1>1, <1>4, <2>1, <2>2, <3>1 DEF push, BareFlagInv
    <2>4. CASE call[t].flag # f
      <3>1. SentFlags'[f] = SentFlags[f] BY <1>2, <2>1, <2>4
      <3>. QED BY <1>1, <2>1, <2>2, <3>1 DEF push, BareFlagInv
    <2>. QED BY <2>3, <2>4
  <1>. QED
    BY <1>5, <1>6, <1>7 DEF AddFlaggedStep, Detect, FindFlag, AddEvidence,
       SetHasEvidence, lists

LEMMA BarePushStep ==
  ASSUME ControlInv, NEW f \in Flags, BareFlagInv(f), PushStep \/ SendOk \/ SendFail
  PROVE  BareFlagInv(f)'
  <1>. USE PusherIsThread DEF ControlInv, TypeInv, TypeOK
  <1>1. /\ pc'[Monitor] = pc[Monitor] /\ call'[Monitor] = call[Monitor]
        /\ pc[Monitor] = "wait"
        /\ FlaggedList' = FlaggedList
    BY PushMoves DEF DetectorPlaces
  <1>2. Listed(f)' <=> Listed(f) BY <1>1 DEF Listed
  <1>3. Bare(f) \in Report /\ Bare(f).flag = f /\ Bare(f).data = NoData
    BY DEF Bare, Report
  <1>4. call[Pusher] \in Report /\ call[Pusher].flag \in Flags BY DEF Report
  <1>5. CASE FinishPush
    BY <1>1, <1>2, <1>5 DEF FinishPush, Goto, lists, push, BareFlagInv
  <1>6. CASE ReadSent
    <2>1. /\ UNCHANGED <<call, SentFlags, sent>> /\ pc[Pusher] = "flag"
          /\ \/ pc' = pc
             \/ /\ pc'[Pusher] = "unsent" /\ flagIt' = flagIt
                /\ ~ SentFlags[FlaggedList[flagIt]]
      BY <1>6 DEF ReadSent, Goto, lists
    <2>. QED BY <1>1, <1>2, <2>1 DEF BareFlagInv
  <1>7. CASE ReadHasEvidence
    BY <1>1, <1>2, <1>3, <1>7 DEF ReadHasEvidence, Goto, lists, BareFlagInv
  <1>8. CASE ReadEvidence
    <2>1. ASSUME pc'[Pusher] = "find" PROVE call'[Pusher].data # NoData
      <3>1. /\ eviIt <= Len(EvidenceData)
            /\ call'[Pusher].data = EvidenceData[eviIt].data
        BY <1>8, <2>1 DEF ReadEvidence, Goto
      <3>2. EvidenceData[eviIt] \in Evidence BY <3>1, LenProperties
      <3>. QED BY <3>1, <3>2, NoDataIsNoData DEF Evidence
    <2>2. /\ UNCHANGED <<SentFlags, sent>> /\ pc[Pusher] = "evidence"
          /\ pc'[Pusher] \in {"evidence", "flag", "find"}
      BY <1>8 DEF ReadEvidence, Goto, lists
    <2>. QED BY <1>1, <1>2, <1>3, <2>1, <2>2 DEF BareFlagInv
  <1>9. CASE MarkSent
    <2>1. /\ SentFlags' = [SentFlags EXCEPT ![call[Pusher].flag] = TRUE]
          /\ sent' = sent /\ pc[Pusher] = "marksent"
          /\ pc'[Pusher] \in {"flag", "evidence"}
      BY <1>9, AfterSendMoves DEF MarkSent
    <2>. QED BY <1>1, <1>2, <1>4, <2>1 DEF BareFlagInv
  <1>10. CASE SendFail
    <2>1. UNCHANGED <<SentFlags, sent>> /\ pc[Pusher] = "send"
          /\ pc'[Pusher] \in {"flag", "evidence"}
      BY <1>10, AfterSendMoves DEF SendFail, lists
    <2>. QED BY <1>1, <1>2, <2>1 DEF BareFlagInv
  <1>11. CASE SendOk
    <2>1. /\ sent' = [sent EXCEPT ![call[Pusher]] = @ + 1]
          /\ UNCHANGED <<call, SentFlags>> /\ pc[Pusher] = "send"
      BY <1>11 DEF SendOk, lists
    <2>2. pc'[Pusher] \in {"marksent", "flag", "evidence"}
      BY <1>11, PushMoves, AfterSendMoves DEF SendOk, Goto
    <2>3. CASE call[Pusher] = Bare(f)
      <3>1. sent[Bare(f)] = 0 BY <1>3, <2>1, <2>3 DEF BareFlagInv
      <3>2. pc'[Pusher] = "marksent" BY <1>3, <1>11, <2>3 DEF SendOk, Goto
      <3>3. Listed(f)
        BY <1>3, <2>1, <2>3, LenProperties DEF PushPlaces, PushInside, Listed
      <3>. QED BY <1>1, <1>2, <1>3, <2>1, <2>3, <3>1, <3>2, <3>3 DEF BareFlagInv
    <2>4. CASE call[Pusher] # Bare(f)
      <3>1. sent'[Bare(f)] = sent[Bare(f)] BY <1>3, <1>4, <2>1, <2>4
      <3>. QED BY <1>1, <1>2, <2>1, <2>2, <3>1 DEF BareFlagInv
    <2>. QED BY <2>3, <2>4
  <1>. QED BY <1>5, <1>6, <1>7, <1>8, <1>9, <1>10, <1>11 DEF PushStep

BareInv == \A f \in Flags : BareFlag(f) => BareFlagInv(f)

LEMMA BareStep == ControlInv /\ BareInv /\ [Next]_vars => BareInv'
  <1>. SUFFICES ASSUME ControlInv, BareInv, [Next]_vars, NEW f \in Flags, BareFlag(f)
                PROVE  BareFlagInv(f)'
    BY DEF BareInv, BareFlag, MonitorOnly
  <1>. USE PusherIsThread DEF ControlInv, TypeInv, TypeOK
  <1>0. BareFlagInv(f) BY DEF BareInv
  <1>1. ASSUME NEW t \in Detectors, Detect(t) \/ AddFlaggedStep(t) PROVE BareFlagInv(f)'
    BY <1>0, <1>1, BareDetectorStep
  <1>2. CASE PusherFinds
    BY <1>0, <1>2 DEF PusherFinds, lists, push, BareFlagInv, Listed
  <1>3. CASE StartPush \/ NextPass
    BY <1>0, <1>3, MonitorMoves DEF lists, BareFlagInv, Listed
  <1>4. CASE PushStep \/ SendOk \/ SendFail BY <1>0, <1>4, BarePushStep
  <1>5. CASE UNCHANGED vars
    BY <1>0, <1>5 DEF vars, lists, push, BareFlagInv, Listed
  <1>. QED BY <1>1, <1>2, <1>3, <1>4, <1>5, StepCases

\* A flag the monitor thread alone reports, and never with evidence, is sent to
\* the server at most once, although AddFlagged resets SentFlags and the push
\* sets it without a lock.
THEOREM MonitorFlagsOnce == Spec => []MonitorFlagSentOnce
  <1>1. Init => BareInv
    BY PusherIsThread DEF Init, BareInv, BareFlagInv, Bare, Listed, Report
  <1>2. ControlInv /\ BareInv => MonitorFlagSentOnce
    BY DEF BareInv, BareFlagInv, BareFlag, Bare, MonitorFlagSentOnce
  <1>. QED BY <1>1, <1>2, BareStep, ControlInvariant, PTL DEF Spec
=============================================================================
