--------------------------- MODULE VerdictProofs ---------------------------
(***************************************************************************)
(* Proofs about the verdict on the file: that the sender does not report   *)
(* success before there is one, and that it is right.                      *)
(***************************************************************************)
EXTENDS TransferProofs

-----------------------------------------------------------------------------
(* The receiver takes no second file name: once it has opened a file, 0 is *)
(* below baseSeqNum, so that FILESIZE is a duplicate for good.             *)

OpenedOnce == file_out # "null" => baseSeqNum >= 1

(* A verdict underway is about a closed file, and so is one that the main  *)
(* thread of the sender is about to return.                                *)
VerdictInv ==
  /\ TypeInv
  /\ OpenedOnce
  /\ \A a \in InFlight(toSender) : a.type = "ANSWER_SHA" => file_out = "closed"
  /\ spc \in {"stop", "joinResend", "joinListener"} /\ verdict => file_out = "closed"
  /\ spc = "success" => file_out = "closed"

(* A closed file is not opened again, and its digest is not taken twice.    *)
KeepsClosed == file_out = "closed" => UNCHANGED <<file_out, file, sha256_ok>>

-----------------------------------------------------------------------------
(* The receiver.                                                           *)

LEMMA CrashKeepsClosed ==
  ASSUME OpenedOnce, Crash
  PROVE  KeepsClosed /\ OpenedOnce'
BY DEF Crash, KeepsClosed, OpenedOnce

LEMMA DataKeepsClosed ==
  ASSUME ReceiverInv, OpenedOnce, NEW p, NEW last, HandleDataPacket(p, last)
  PROVE  KeepsClosed /\ OpenedOnce'
<1>1. CASE RejectData(p, last)
  BY <1>1 DEF RejectData, KeepsClosed, OpenedOnce
<1>2. CASE BufferData(p, last)
  BY <1>2 DEF BufferData, KeepsClosed, OpenedOnce
<1>3. CASE WriteData(p, last)
  <2>1. /\ file_out # "null" /\ UNCHANGED <<file_out, sha256_ok>>
        /\ baseSeqNum' = baseSeqNum + 1 \/ baseSeqNum' = baseSeqNum + 2
    BY <1>3 DEF WriteData
  <2>2. baseSeqNum \in -1..(NumPackets + 2)
    BY DEF ReceiverInv, ReceiverTypeOK
  <2>3. OpenedOnce'
    BY <2>1, <2>2 DEF OpenedOnce
  <2>4. file_out = "closed" => file' = file
    BY <1>3 DEF WriteData, Written
  <2> QED
    BY <2>1, <2>3, <2>4 DEF KeepsClosed
<1>4. CASE WriteDataCrash(p)
  BY <1>4, CrashKeepsClosed DEF WriteDataCrash
<1> QED
  BY <1>1, <1>2, <1>3, <1>4 DEF HandleDataPacket

LEMMA FinalKeepsClosed ==
  ASSUME OpenedOnce, NEW p, NEW last, HandleFinalPacket(p, last)
  PROVE  KeepsClosed /\ OpenedOnce'
<1>1. CASE VerifyFile(p)
  BY <1>1 DEF VerifyFile, KeepsClosed, OpenedOnce
<1>2. CASE VerifyFileCrash(p)
  BY <1>2, CrashKeepsClosed DEF VerifyFileCrash
<1>3. CASE RejectFinal(p, last)
  BY <1>3 DEF RejectFinal, KeepsClosed, OpenedOnce
<1> QED
  BY <1>1, <1>2, <1>3 DEF HandleFinalPacket

LEMMA ReceiverKeepsClosed ==
  ASSUME NetworkInv, ReceiverInv, OpenedOnce, ReceiverNext
  PROVE  KeepsClosed /\ OpenedOnce'
<1>1. PICK p \in Readable(toReceiver) :
        \/ ReceiveError(p) \/ ReceiveDuplicate(p)
        \/ ReceiveOutOfOrder(p) \/ ReceiveFresh(p)
  BY DEF ReceiverNext
<1>2. p \in InFlight(toReceiver)
  BY <1>1, TakeInFlight DEF NetworkInv, NetworkTypeOK
<1>3. baseSeqNum \in -1..(NumPackets + 2)
  BY DEF ReceiverInv, ReceiverTypeOK
<1>4. CASE ReceiveError(p)
  BY <1>4 DEF ReceiveError, KeepsClosed, OpenedOnce
<1>5. CASE ReceiveDuplicate(p)
  <2>1. CASE HandleDataPacket(p, lastSeqNum)
    BY <2>1, DataKeepsClosed
  <2>2. CASE HandleFinalPacket(p, lastSeqNum)
    BY <2>2, FinalKeepsClosed
  <2>3. CASE UNCHANGED receiverVars
    BY <2>3 DEF receiverVars, KeepsClosed, OpenedOnce
  <2> QED
    BY <1>5, <2>1, <2>2, <2>3 DEF ReceiveDuplicate, HandleDuplicatePacket
<1>6. CASE ReceiveOutOfOrder(p)
  BY <1>6 DEF ReceiveOutOfOrder, receiverVars, KeepsClosed, OpenedOnce
<1>7. CASE ReceiveFresh(p)
  <2>1. CASE p.type = "FILESIZE" /\ HandleFileSizePacket(p)
    <3>1. p.seqNum = 0
      BY <1>2, <2>1 DEF NetworkInv, PacketOK
    <3>2. file_out = "null"
      BY <1>3, <1>7, <3>1 DEF ReceiveFresh, Fresh, IsDuplicate, OpenedOnce
    <3>3. baseSeqNum' = 1
      BY <2>1, <3>1 DEF HandleFileSizePacket
    <3> QED
      BY <3>2, <3>3 DEF KeepsClosed, OpenedOnce
  <2>2. CASE HandleDataPacket(p, p.seqNum)
    BY <2>2, DataKeepsClosed
  <2>3. CASE HandleFinalPacket(p, p.seqNum)
    BY <2>3, FinalKeepsClosed
  <2> QED
    BY <1>7, <2>1, <2>2, <2>3 DEF ReceiveFresh
<1> QED
  BY <1>1, <1>4, <1>5, <1>6, <1>7

-----------------------------------------------------------------------------
(* The sender.  What it is about to return comes from a verdict it read.   *)

AnswersTaken == InFlight(toSender') \subseteq InFlight(toSender)

ReportOK ==
  /\ spc \in {"stop", "joinResend", "joinListener"} /\ verdict => file_out = "closed"
  /\ spc = "success" => file_out = "closed"

LEMMA AttemptReports ==
  ASSUME AttemptSpent
  PROVE  \/ spc' \in {"select", "open", "try"}
         \/ spc' = "stop" /\ ~verdict'
<1>1. CASE spc' = "select"
  BY <1>1
<1>2. CASE HandleACKReturns(FALSE)
  <2>1. \/ spc' = "open"
        \/ spc' = "try"
        \/ spc' = "stop" /\ verdict' = FALSE
    BY <1>2 DEF HandleACKReturns
  <2> QED
    BY <2>1
<1> QED
  BY <1>1, <1>2 DEF AttemptSpent

LEMMA HandleACKReports ==
  ASSUME VerdictInv, HandleACK, file_out' = file_out
  PROVE  AnswersTaken /\ ReportOK'
<1>1. PICK a \in Readable(toSender) :
        /\ toSender' = Take(toSender)
        /\ \/ IsExpected(a) /\ HandleACKReturns(IsBufferAllNum(a))
           \/ AttemptSpent
  BY DEF HandleACK
<1>2. toSender \in Channel(Answer)
  BY DEF VerdictInv, TypeInv, NetworkInv, NetworkTypeOK
<1>3. a \in InFlight(toSender) /\ AnswersTaken
  BY <1>1, <1>2, TakeInFlight DEF AnswersTaken
<1>4. CASE IsExpected(a) /\ HandleACKReturns(IsBufferAllNum(a))
  <2>1. CASE spc' = "stop"
    <3>1. expected = "ANSWER_SHA"
      BY <1>4, <2>1 DEF HandleACKReturns
    <3>2. a.type = "ANSWER_SHA"
      BY <1>4, <3>1 DEF IsExpected
    <3> QED
      BY <1>3, <2>1, <3>2 DEF VerdictInv, ReportOK
  <2>2. CASE spc' \in {"open", "try"}
    BY <1>3, <2>2 DEF ReportOK
  <2> QED
    BY <1>4, <2>1, <2>2 DEF HandleACKReturns
<1>5. CASE AttemptSpent
  BY <1>3, <1>5, AttemptReports DEF ReportOK
<1> QED
  BY <1>1, <1>4, <1>5

LEMMA SenderReports ==
  ASSUME VerdictInv, SenderNext, file_out' = file_out
  PROVE  AnswersTaken /\ ReportOK'
<1>1. ASSUME UNCHANGED toSender PROVE AnswersTaken
  BY <1>1 DEF AnswersTaken
<1>2. ReportOK
  BY DEF VerdictInv, ReportOK
<1>3. CASE HandleACK
  BY <1>3, HandleACKReports
<1>4. CASE SelectTimeout
  BY <1>1, <1>4, AttemptReports DEF SelectTimeout, networkVars, ReportOK
<1>5. CASE SelectFailure
  BY <1>1, <1>5 DEF SelectFailure, HandleACKReturns, ReportOK
<1>6. CASE JoinListener
  BY <1>1, <1>2, <1>6 DEF JoinListener, networkVars, ReportOK
<1>7. CASE StopThreads \/ JoinResend
  BY <1>1, <1>2, <1>7 DEF StopThreads, JoinResend, networkVars, ReportOK
<1>8. CASE SendFileNamePacket \/ SendDataPacket \/ SendFinalPacket
  BY <1>1, <1>8 DEF SendFileNamePacket, SendDataPacket, SendFinalPacket, Send, ReportOK
<1>9. CASE GiveUp \/ SelectReadable \/ OpenFile \/ OpenFileFails
           \/ WaitForWindow \/ LastAcknowledged \/ SpuriousWakeup
  BY <1>1, <1>9 DEF GiveUp, SelectReadable, OpenFile, OpenFileFails, WaitForWindow,
     LastAcknowledged, SpuriousWakeup, networkVars, ReportOK
<1>10. CASE ListenerCheck
  BY <1>1, <1>2, <1>10 DEF ListenerCheck, mainVars, networkVars, ReportOK
<1>11. CASE ListenerReceive
  <2>1. AnswersTaken
    BY <1>11, TakeInFlight DEF ListenerReceive, AnswersTaken, VerdictInv, TypeInv,
       NetworkInv, NetworkTypeOK
  <2> QED
    BY <1>2, <1>11, <2>1 DEF ListenerReceive, mainVars, ReportOK
<1>12. CASE ListenerAcknowledge
  <2>1. spc' \in {spc, "window", "last"} /\ UNCHANGED <<verdict, networkVars>>
    BY <1>12 DEF ListenerAcknowledge, Notified
  <2> QED
    BY <1>1, <1>2, <2>1 DEF networkVars, ReportOK
<1>13. CASE ResendNext
  BY <1>1, <1>2, <1>13 DEF ResendNext, ResendExit, ResendPacket, Send, senderVars,
     mainVars, networkVars, ReportOK
<1> QED
  BY <1>3, <1>4, <1>5, <1>6, <1>7, <1>8, <1>9, <1>10, <1>11, <1>12, <1>13
     DEF SenderNext, MainNext, ListenerNext

-----------------------------------------------------------------------------
(* The composition.                                                        *)

LEMMA VerdictInit == Init => VerdictInv
<1> SUFFICES ASSUME Init PROVE VerdictInv
  OBVIOUS
<1>1. TypeInv
  BY TypeInit
<1>2. toSender = EmptyChannel /\ file_out = "null" /\ spc = "try"
  BY DEF Init, NetworkInit, ReceiverInit, SenderInit
<1>3. InFlight(toSender) = {}
  BY <1>2 DEF InFlight, EmptyChannel
<1> QED
  BY <1>1, <1>2, <1>3 DEF VerdictInv, OpenedOnce

LEMMA VerdictStep ==
  ASSUME VerdictInv, [Next]_vars
  PROVE  VerdictInv' /\ KeepsClosed
<1>0. TypeInv /\ NetworkInv /\ SenderInv /\ ReceiverInv /\ OpenedOnce /\ ReportOK
  BY DEF VerdictInv, TypeInv, ReportOK
<1>t. TypeInv'
  BY <1>0, TypeStep
<1>v. VerdictInv' <=> /\ TypeInv' /\ OpenedOnce' /\ ReportOK'
                      /\ \A a \in InFlight(toSender') : a.type = "ANSWER_SHA" => file_out' = "closed"
  BY DEF VerdictInv, ReportOK
<1>1. CASE SenderStep(SenderNext)
  <2>1. UNCHANGED receiverVars /\ SenderNext
    BY <1>1 DEF SenderStep
  <2>2. UNCHANGED <<file_out, file, sha256_ok, baseSeqNum>>
    BY <2>1 DEF receiverVars
  <2>3. AnswersTaken /\ ReportOK'
    BY <2>1, <2>2, SenderReports
  <2> QED
    BY <1>0, <1>t, <1>v, <2>2, <2>3 DEF VerdictInv, AnswersTaken, OpenedOnce, KeepsClosed
<1>2. CASE ReceiverStep(ReceiverNext)
  <2>1. UNCHANGED senderVars /\ ReceiverNext
    BY <1>2 DEF ReceiverStep
  <2>2. KeepsClosed /\ OpenedOnce' /\ VerdictsAfterCheck
    BY <1>0, <2>1, ReceiverKeepsClosed, ReceiverTypeStep
  <2>3. ReportOK'
    BY <1>0, <2>1, <2>2 DEF ReportOK, KeepsClosed, senderVars, mainVars
  <2> QED
    BY <1>t, <1>v, <2>2, <2>3 DEF VerdictInv, VerdictsAfterCheck, KeepsClosed
<1>3. CASE FaultStep \/ DiscardAtReceiver \/ DiscardAtSender
  <2>1. UNCHANGED <<spc, verdict, file_out, file, sha256_ok, baseSeqNum>>
    BY <1>3 DEF FaultStep, DiscardAtReceiver, DiscardAtSender, senderVars, mainVars, receiverVars
  <2>2. \A a \in InFlight(toSender') :
          a.type = "ANSWER_SHA" => \E b \in InFlight(toSender) : b.type = "ANSWER_SHA"
    <3>1. NetworkTypeOK
      BY <1>0 DEF NetworkInv
    <3>2. CASE FaultStep
      BY <3>1, <3>2, FaultsMakeNothingUp DEF FaultStep, AnswerFrom
    <3>3. CASE DiscardAtSender
      BY <3>1, <3>3, TailInFlight DEF DiscardAtSender, NetworkTypeOK, Channel
    <3>4. CASE DiscardAtReceiver
      <4>1. InFlight(toSender') = InFlight(toSender)
        BY <3>4 DEF DiscardAtReceiver
      <4> QED
        BY <4>1
    <3> QED
      BY <1>3, <3>2, <3>3, <3>4
  <2> QED
    BY <1>0, <1>t, <1>v, <2>1, <2>2 DEF VerdictInv, ReportOK, OpenedOnce, KeepsClosed
<1>4. CASE UNCHANGED vars
  <2>1. UNCHANGED <<spc, verdict, file_out, file, sha256_ok, baseSeqNum, toSender>>
    BY <1>4 DEF vars, senderVars, mainVars, receiverVars, networkVars
  <2>2. InFlight(toSender') = InFlight(toSender)
    BY <2>1
  <2> QED
    BY <1>0, <1>t, <1>v, <2>1, <2>2 DEF VerdictInv, ReportOK, OpenedOnce, KeepsClosed
<1> QED
  BY <1>1, <1>2, <1>3, <1>4 DEF Next

LEMMA VerdictInvariant == Spec => []VerdictInv
<1>1. Init => VerdictInv
  BY VerdictInit
<1>2. VerdictInv /\ [Next]_vars => VerdictInv'
  BY VerdictStep
<1> QED
  BY <1>1, <1>2, PTL DEF Spec

(* run() of the sender returns 0 only after the receiver closed and read   *)
(* back the file, over every network and for every file and window: a      *)
(* verdict is sent for a closed file only, and nothing else than a verdict *)
(* makes sendDataPackets return true.                                      *)
THEOREM SuccessIsVerified == Spec => []SuccessAfterVerification
<1>1. VerdictInv => SuccessAfterVerification
  BY DEF VerdictInv, SuccessAfterVerification
<1> QED
  BY <1>1, VerdictInvariant, PTL

-----------------------------------------------------------------------------
(* The verdict is right.  The digest is fed once: it is empty until the    *)
(* file is closed, which happens once, and holds the file afterwards.      *)

DigestOnce ==
  /\ file_out # "closed" => sha256 = <<>> /\ ~sha256_ok
  /\ VerdictIsRight

DigestInv == VerdictInv /\ DigestOnce

(* Steps that leave the digest and its verdict alone and close nothing.    *)
LEMMA SameDigest ==
  ASSUME DigestOnce, UNCHANGED <<sha256, sha256_ok>>, KeepsClosed,
         file_out' = "closed" => file_out = "closed"
  PROVE  DigestOnce'
<1>1. CASE file_out = "closed"
  <2>1. UNCHANGED <<file_out, file, sha256, sha256_ok>>
    BY <1>1 DEF KeepsClosed
  <2> QED
    BY <2>1 DEF DigestOnce, VerdictIsRight
<1>2. CASE file_out # "closed"
  BY <1>2 DEF DigestOnce, VerdictIsRight
<1> QED
  BY <1>1, <1>2

LEMMA DataKeepsDigest ==
  ASSUME NEW p, NEW last, HandleDataPacket(p, last)
  PROVE  UNCHANGED <<sha256, sha256_ok, file_out>>
BY DEF HandleDataPacket, RejectData, BufferData, WriteData, WriteDataCrash, Crash

LEMMA FinalKeepsDigest ==
  ASSUME ReceiverInv, DigestOnce, KeepsClosed,
         NEW p, NEW last, HandleFinalPacket(p, last)
  PROVE  DigestOnce'
<1>1. CASE VerifyFile(p)
  <2>1. sha256 = <<>> /\ file_out' = "closed" /\ file' = file
    BY <1>1 DEF VerifyFile, DigestOnce
  <2>2. sha256' = file
    <3>1. file \in Seq(Blocks)
      BY DEF ReceiverInv, ReceiverTypeOK
    <3>2. <<>> \o file = file
      BY <3>1
    <3> QED
      BY <1>1, <2>1, <3>2 DEF VerifyFile
  <2>3. sha256_ok' <=> file' = SentFile
    BY <1>1, <2>1, <2>2 DEF VerifyFile, DigestMatches
  <2> QED
    BY <2>1, <2>3 DEF DigestOnce, VerdictIsRight
<1>2. CASE VerifyFileCrash(p)
  BY <1>2, SameDigest DEF VerifyFileCrash, Crash
<1>3. CASE RejectFinal(p, last)
  BY <1>3, SameDigest DEF RejectFinal
<1> QED
  BY <1>1, <1>2, <1>3 DEF HandleFinalPacket

LEMMA ReceiverKeepsDigest ==
  ASSUME ReceiverInv, DigestOnce, KeepsClosed, ReceiverNext
  PROVE  DigestOnce'
<1>1. PICK p \in Readable(toReceiver) :
        \/ ReceiveError(p) \/ ReceiveDuplicate(p)
        \/ ReceiveOutOfOrder(p) \/ ReceiveFresh(p)
  BY DEF ReceiverNext
<1>2. ASSUME UNCHANGED receiverVars PROVE DigestOnce'
  BY <1>2, SameDigest DEF receiverVars
<1>3. ASSUME NEW last, HandleDataPacket(p, last) PROVE DigestOnce'
  BY <1>3, DataKeepsDigest, SameDigest
<1>4. ASSUME NEW last, HandleFinalPacket(p, last) PROVE DigestOnce'
  BY <1>4, FinalKeepsDigest
<1>5. CASE ReceiveError(p)
  BY <1>5, SameDigest DEF ReceiveError
<1>6. CASE ReceiveDuplicate(p)
  BY <1>2, <1>3, <1>4, <1>6 DEF ReceiveDuplicate, HandleDuplicatePacket
<1>7. CASE ReceiveOutOfOrder(p)
  BY <1>2, <1>7 DEF ReceiveOutOfOrder
<1>8. CASE ReceiveFresh(p)
  <2>1. CASE HandleFileSizePacket(p)
    <3>1. /\ UNCHANGED <<sha256, sha256_ok>>
          /\ file_out' = "open" \/ file_out' = file_out
      BY <2>1 DEF HandleFileSizePacket
    <3> QED
      BY <3>1, SameDigest
  <2> QED
    BY <1>3, <1>4, <1>8, <2>1 DEF ReceiveFresh
<1> QED
  BY <1>1, <1>5, <1>6, <1>7, <1>8

LEMMA DigestStep ==
  ASSUME DigestInv, [Next]_vars
  PROVE  DigestInv'
<1>1. VerdictInv' /\ KeepsClosed
  BY VerdictStep DEF DigestInv
<1>2. CASE ReceiverStep(ReceiverNext)
  BY <1>1, <1>2, ReceiverKeepsDigest DEF ReceiverStep, DigestInv, VerdictInv, TypeInv
<1>3. CASE ~ReceiverStep(ReceiverNext)
  <2>1. UNCHANGED receiverVars
    BY <1>3 DEF Next, SenderStep, FaultStep, DiscardAtReceiver, DiscardAtSender, vars
  <2>2. UNCHANGED <<sha256, sha256_ok, file_out>>
    BY <2>1 DEF receiverVars
  <2> QED
    BY <1>1, <2>2, SameDigest DEF DigestInv
<1> QED
  BY <1>2, <1>3

(* The receiver's verdict is right, over every network and for every file  *)
(* and window: it confirms the file exactly if the blocks it wrote are the *)
(* blocks sent, in order.  The SHA256 object, which is never reset, cannot *)
(* carry an earlier reading into the verdict, as no file is opened twice.  *)
THEOREM ConfirmedIsSent == Spec => []VerdictIsRight
<1>1. Init => DigestInv
  <2>1. ASSUME Init PROVE DigestOnce
    BY <2>1 DEF Init, ReceiverInit, DigestOnce, VerdictIsRight
  <2> QED
    BY <2>1, VerdictInit DEF DigestInv
<1>2. DigestInv /\ [Next]_vars => DigestInv'
  BY DigestStep
<1>3. DigestInv => VerdictIsRight
  BY DEF DigestInv, DigestOnce
<1> QED
  BY <1>1, <1>2, <1>3, PTL DEF Spec
=============================================================================
