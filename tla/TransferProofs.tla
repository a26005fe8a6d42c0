--------------------------- MODULE TransferProofs ---------------------------
(***************************************************************************)
(* Proofs about Transfer for every window, file length and kind of network.*)
(***************************************************************************)
EXTENDS Transfer, NetworkProofs

-----------------------------------------------------------------------------
(* The strengthening of TypeOK: what the datagrams underway may be, and    *)
(* which numbers go with which point of the programs.                      *)

PacketOK(p) ==
  /\ p.type = "FILESIZE" => p.seqNum = 0
  /\ p.type = "DATA" => p.seqNum \in 1..NumPackets
  /\ p.type = "FINAL" => p.seqNum = NumPackets + 1

NetworkInv ==
  /\ NetworkTypeOK
  /\ \A p \in InFlight(toReceiver) : PacketOK(p)
  /\ \A a \in InFlight(toSender) : a.seqNum \in 0..(NumPackets + 1)

SenderInv ==
  /\ SenderTypeOK
  /\ spc \notin {"try", "failure"} => tryCounter < 3
  /\ spc \in {"select", "recv"} => attempts < MaxRetries
  /\ spc \in {"select", "recv"} /\ expected = "ANSWER_SHA" => seqNum = NumPackets + 1
  /\ spc \in {"window", "windowWait"} => seqNum \in 1..NumPackets
  /\ spc \in {"last", "lastWait", "final"} => seqNum = NumPackets + 1
  /\ nextSeqNum <= base + WindowSize
  /\ ackPacket.seqNum \in 0..(NumPackets + 1)

ReceiverInv ==
  /\ ReceiverTypeOK
  /\ rstatus = "running" => retryCounter < 3

TypeInv == NetworkInv /\ SenderInv /\ ReceiverInv

USE PacketsAssumption, NetworkAssumption, SenderAssumption DEF MaxRetries

-----------------------------------------------------------------------------
LEMMA ModRange ==
  ASSUME NEW n \in Nat PROVE n % WindowSize \in Slots
BY DEF Slots

LEMMA WindowGrows ==
  ASSUME NEW n \in Nat, NEW b \in Nat, NEW c \in Nat, b <= c, n <= b + WindowSize
  PROVE  n <= c + WindowSize
OBVIOUS

LEMMA PacketErrorKeeps ==
  ASSUME NEW p \in Packet
  PROVE  /\ PacketError(p) \in Packet
         /\ PacketError(p).type = p.type /\ PacketError(p).seqNum = p.seqNum
<1> DEFINE q == [p EXCEPT !.crcOk = FALSE]
<1>1. q \in Packet /\ q.type = p.type /\ q.seqNum = p.seqNum
  BY DEF Packet
<1>2. PacketError(p) = q \/ PacketError(p) = p
  BY DEF PacketError
<1> QED
  BY <1>1, <1>2

LEMMA SendKeeps ==
  ASSUME NetworkInv, NEW p \in Packet, PacketOK(p), Send(p)
  PROVE  NetworkInv'
<1>1. toReceiver \in Channel(Packet)
  BY DEF NetworkInv, NetworkTypeOK
<1>2. toReceiver' = Put(toReceiver, p) /\ toSender' = toSender /\ faults' = faults
  BY DEF Send
<1>3. toReceiver' \in Channel(Packet)
      /\ \A x \in InFlight(toReceiver') : x = p \/ x \in InFlight(toReceiver)
  BY <1>1, <1>2, PutInFlight
<1>4. InFlight(toSender') = InFlight(toSender)
  BY <1>2
<1> QED
  BY <1>2, <1>3, <1>4 DEF NetworkInv, NetworkTypeOK

LEMMA PacketsSent ==
  /\ FileNamePacket \in Packet /\ PacketOK(FileNamePacket)
  /\ \A s \in 1..NumPackets : DataPacket(s) \in Packet /\ PacketOK(DataPacket(s))
  /\ FinalPacket(NumPackets + 1) \in Packet /\ PacketOK(FinalPacket(NumPackets + 1))
BY DEF FileNamePacket, DataPacket, FinalPacket, Packet, PacketTypes, PacketOK

LEMMA TakeAnswerKeeps ==
  ASSUME NetworkInv, NEW a \in Readable(toSender), toSender' = Take(toSender),
         UNCHANGED <<toReceiver, faults>>
  PROVE  NetworkInv' /\ a \in Answer /\ a.seqNum \in 0..(NumPackets + 1)
<1>1. toSender \in Channel(Answer)
  BY DEF NetworkInv, NetworkTypeOK
<1>2. /\ a \in Answer /\ a \in InFlight(toSender)
      /\ toSender' \in Channel(Answer)
      /\ InFlight(toSender') \subseteq InFlight(toSender)
  BY <1>1, TakeInFlight
<1>3. InFlight(toReceiver') = InFlight(toReceiver)
  OBVIOUS
<1> QED
  BY <1>2, <1>3 DEF NetworkInv, NetworkTypeOK

LEMMA NoAnswerType == NoAnswer \in Answer /\ NoAnswer.seqNum = 0
BY DEF NoAnswer, MakeAnswer, Answer, AnswerTypes

(* What a step of handleACK does to the main thread.                       *)
HandleACKOutcome ==
  /\ attempts' \in 0..MaxRetries /\ expected' = expected
  /\ \/ spc' = "select" /\ attempts' < MaxRetries
        /\ UNCHANGED <<tryCounter, verdict>>
     \/ spc' = "open" /\ UNCHANGED <<tryCounter, verdict>>
     \/ spc' = "try" /\ tryCounter' = tryCounter + 1 /\ UNCHANGED verdict
     \/ spc' = "stop" /\ UNCHANGED tryCounter /\ verdict' \in BOOLEAN

LEMMA ReturnOutcome ==
  ASSUME SenderTypeOK, NEW ok \in BOOLEAN, HandleACKReturns(ok),
         attempts' \in 0..MaxRetries, expected' = expected
  PROVE  HandleACKOutcome
BY DEF HandleACKReturns, HandleACKOutcome, SenderTypeOK

LEMMA AttemptOutcome ==
  ASSUME SenderTypeOK, attempts < MaxRetries, AttemptSpent
  PROVE  HandleACKOutcome
<1>1. attempts' \in 0..MaxRetries /\ expected' = expected
  BY DEF AttemptSpent, SenderTypeOK
<1>2. CASE HandleACKReturns(FALSE)
  BY <1>1, <1>2, ReturnOutcome
<1>3. CASE attempts' < MaxRetries /\ spc' = "select" /\ UNCHANGED <<tryCounter, verdict>>
  BY <1>1, <1>3 DEF HandleACKOutcome
<1> QED
  BY <1>2, <1>3 DEF AttemptSpent

LEMMA OutcomeKeeps ==
  ASSUME SenderInv, spc \in {"select", "recv"}, HandleACKOutcome,
         UNCHANGED <<windowVars, threadVars>>
  PROVE  SenderInv'
<1> USE DEF SenderInv, HandleACKOutcome, windowVars, threadVars
<1>1. SenderTypeOK'
  <2> USE DEF SenderTypeOK
  <2>1. verdict' \in BOOLEAN
    OBVIOUS
  <2>2. tryCounter' \in 0..3
    OBVIOUS
  <2>3. spc' \in SenderPoints
    BY DEF SenderPoints
  <2> QED
    BY <2>1, <2>2, <2>3
<1> QED
  BY <1>1 DEF SenderTypeOK

-----------------------------------------------------------------------------
LEMMA TypeInit == Init => TypeInv
<1> SUFFICES ASSUME Init PROVE TypeInv
  OBVIOUS
<1> USE DEF Init, NetworkInit, SenderInit, ReceiverInit
<1>1. NetworkInv
  <2>1. toReceiver \in Channel(Packet) /\ toSender \in Channel(Answer)
    <3>1. CASE Ordered
      BY <3>1 DEF Channel, EmptyChannel
    <3>2. CASE ~Ordered
      BY <3>2 DEF Channel, EmptyChannel
    <3> QED
      BY <3>1, <3>2
  <2>2. InFlight(toReceiver) = {} /\ InFlight(toSender) = {}
    BY DEF InFlight, EmptyChannel
  <2> QED
    BY <2>1, <2>2 DEF NetworkInv, NetworkTypeOK
<1>2. SenderInv
  <2>1. 0 \in Slots /\ 0 \in 0..NumPackets
    BY DEF Slots
  <2> QED
    BY <2>1, NoAnswerType DEF SenderInv, SenderTypeOK, SenderPoints
<1>3. ReceiverInv
  BY DEF ReceiverInv, ReceiverTypeOK, Blocks, Garbage, Slots
<1> QED
  BY <1>1, <1>2, <1>3 DEF TypeInv

-----------------------------------------------------------------------------
(* The sender's steps.                                                     *)

LEMMA SenderTypeStep ==
  ASSUME NetworkInv, SenderInv, SenderNext
  PROVE  NetworkInv' /\ SenderInv'
<1>t. SenderTypeOK
  BY DEF SenderInv
<1>u. ASSUME UNCHANGED networkVars PROVE NetworkInv'
  BY <1>u DEF networkVars, NetworkInv, NetworkTypeOK
<1>1. CASE SendFileNamePacket
  <2>1. NetworkInv'
    BY <1>1, SendKeeps, PacketsSent, PacketErrorKeeps DEF SendFileNamePacket, PacketOK
  <2>2. 0 \in Slots
    BY DEF Slots
  <2> QED
    BY <1>1, <2>1, <2>2 DEF SendFileNamePacket, SenderInv, SenderTypeOK, SenderPoints, mainVars, windowVars, threadVars
<1>2. CASE GiveUp
  BY <1>2, <1>u DEF GiveUp, SenderInv, SenderTypeOK, SenderPoints, mainVars, windowVars, threadVars
<1>3. CASE SelectReadable
  BY <1>3, <1>u DEF SelectReadable, SenderInv, SenderTypeOK, SenderPoints, mainVars, windowVars, threadVars
<1>4. CASE SelectTimeout
  <2>1. HandleACKOutcome
    BY <1>t, <1>4, AttemptOutcome DEF SelectTimeout, SenderInv
  <2> QED
    BY <1>4, <1>u, <2>1, OutcomeKeeps DEF SelectTimeout
<1>5. CASE SelectFailure
  <2>1. NetworkInv'
    BY <1>5 DEF SelectFailure, Fault, NetworkInv, NetworkTypeOK
  <2>2. HandleACKOutcome
    BY <1>t, <1>5, ReturnOutcome DEF SelectFailure, SenderTypeOK
  <2> QED
    BY <1>5, <2>1, <2>2, OutcomeKeeps DEF SelectFailure
<1>6. CASE HandleACK
  <2>1. PICK a \in Readable(toSender) :
          /\ toSender' = Take(toSender)
          /\ \/ HandleACKReturns(IsBufferAllNum(a)) /\ UNCHANGED <<attempts, expected>>
             \/ AttemptSpent
    BY <1>6 DEF HandleACK
  <2>2. NetworkInv'
    BY <1>6, <2>1, TakeAnswerKeeps DEF HandleACK
  <2>3. IsBufferAllNum(a) \in BOOLEAN
    BY DEF IsBufferAllNum
  <2>4. HandleACKOutcome
    BY <1>t, <1>6, <2>1, <2>3, ReturnOutcome, AttemptOutcome DEF HandleACK, SenderInv, SenderTypeOK
  <2> QED
    BY <1>6, <2>2, <2>4, OutcomeKeeps DEF HandleACK
<1> USE DEF SenderInv, SenderTypeOK, SenderPoints, mainVars, windowVars, threadVars
<1>7. CASE OpenFile
  <2>1. 0 \in Slots
    BY DEF Slots
  <2>2. acknowledged' \in [Slots -> BOOLEAN]
    BY <1>7, <2>1 DEF OpenFile
  <2> QED
    BY <1>7, <2>2, <1>u, <2>1, 1 \in 0..(NumPackets + 1), 1 \in 1..NumPackets DEF OpenFile
<1>8. CASE OpenFileFails
  <2>1. 0 \in Slots
    BY DEF Slots
  <2> QED
    BY <1>8, <1>u, <2>1 DEF OpenFileFails
<1>9. CASE SendDataPacket
  <2>1. seqNum \in 1..NumPackets
    BY <1>9 DEF SendDataPacket
  <2>2. NetworkInv'
    BY <1>9, <2>1, SendKeeps, PacketsSent, PacketErrorKeeps DEF SendDataPacket, PacketOK
  <2>3. seqNum \in Nat /\ seqNum % WindowSize \in Slots
    <3>1. seqNum \in Nat
      BY <2>1
    <3> QED
      BY <3>1, ModRange
  <2> QED
    BY <1>9, <2>1, <2>2, <2>3 DEF SendDataPacket, WindowFull
<1>10. CASE WaitForWindow
  BY <1>10, <1>u DEF WaitForWindow
<1>11. CASE LastAcknowledged
  BY <1>11, <1>u DEF LastAcknowledged
<1>12. CASE SpuriousWakeup
  BY <1>12, <1>u DEF SpuriousWakeup
<1>13. CASE SendFinalPacket
  <2>1. NetworkInv'
    BY <1>13, SendKeeps, PacketsSent, PacketErrorKeeps DEF SendFinalPacket, PacketOK
  <2> QED
    BY <1>13, <2>1 DEF SendFinalPacket
<1>14. CASE StopThreads
  BY <1>14, <1>u DEF StopThreads
<1>15. CASE JoinResend
  BY <1>15, <1>u DEF JoinResend
<1>16. CASE JoinListener
  BY <1>16, <1>u DEF JoinListener
<1>17. CASE ListenerCheck
  BY <1>17, <1>u DEF ListenerCheck
<1>18. CASE ListenerReceive
  <2>1. NetworkInv' /\ ackPacket' \in Answer /\ ackPacket'.seqNum \in 0..(NumPackets + 1)
    BY <1>18, TakeAnswerKeeps DEF ListenerReceive
  <2> QED
    BY <1>18, <2>1 DEF ListenerReceive
<1>19. CASE ListenerAcknowledge
  <2>1. NoAnswer \in Answer /\ NoAnswer.seqNum = 0
    BY NoAnswerType
  <2>2. ackPacket.seqNum % WindowSize \in Slots
    BY ModRange
  <2>3. acknowledged' \in [Slots -> BOOLEAN]
    BY <1>19, <2>2 DEF ListenerAcknowledge
  <2>4. base' \in 0..(NumPackets + 1) /\ base' >= base
    BY <1>19 DEF ListenerAcknowledge
  <2>5. spc' = spc \/ (spc = "windowWait" /\ spc' = "window") \/ (spc = "lastWait" /\ spc' = "last")
    BY <1>19 DEF ListenerAcknowledge, Notified
  <2>6. SenderTypeOK'
    BY <1>19, <2>1, <2>3, <2>4, <2>5 DEF ListenerAcknowledge
  <2>7. NetworkInv'
    BY <1>19, <1>u DEF ListenerAcknowledge
  <2>8. nextSeqNum' <= base' + WindowSize
    <3>1. nextSeqNum' = nextSeqNum
      BY <1>19 DEF ListenerAcknowledge
    <3>2. nextSeqNum \in Nat /\ base \in Nat /\ base' \in Nat /\ nextSeqNum <= base + WindowSize
      BY <2>4
    <3>3. nextSeqNum <= base' + WindowSize
      BY <2>4, <3>2, WindowGrows
    <3> QED
      BY <3>1, <3>3
  <2>9. /\ UNCHANGED <<tryCounter, attempts, expected, seqNum>>
        /\ ackPacket'.seqNum \in 0..(NumPackets + 1)
    BY <1>19, <2>1 DEF ListenerAcknowledge
  <2> QED
    BY <2>5, <2>6, <2>7, <2>8, <2>9
<1>20. CASE ResendNext
  <2>1. CASE ResendExit
    BY <2>1, <1>u DEF ResendExit
  <2>2. ASSUME NEW j \in 1..NumPackets, ResendPacket(j) PROVE NetworkInv' /\ SenderInv'
    <3>1. NetworkInv'
      BY <2>2, SendKeeps, PacketsSent DEF ResendPacket
    <3> QED
      BY <2>2, <3>1 DEF ResendPacket, senderVars
  <2> QED
    BY <1>20, <2>1, <2>2 DEF ResendNext
<1> QED
  BY <1>1, <1>2, <1>3, <1>4, <1>5, <1>6, <1>7, <1>8, <1>9, <1>10, <1>11, <1>12,
     <1>13, <1>14, <1>15, <1>16, <1>17, <1>18, <1>19, <1>20
     DEF SenderNext, MainNext, ListenerNext

-----------------------------------------------------------------------------
(* The receiver's steps.                                                   *)

(* What the answers underway are after the receiver has answered p.        *)
LEMMA ReplyKeeps ==
  ASSUME toSender \in Channel(Answer),
         \A x \in InFlight(toSender) : x.seqNum \in 0..(NumPackets + 1),
         NEW a \in Answer, a.seqNum \in 0..(NumPackets + 1), Reply(a)
  PROVE  /\ toSender' \in Channel(Answer)
         /\ \A x \in InFlight(toSender') : x.seqNum \in 0..(NumPackets + 1)
BY PutInFlight DEF Reply

LEMMA MakeAnswerType ==
  ASSUME NEW t \in AnswerTypes, NEW n \in Nat, NEW r \in BOOLEAN, NEW h \in BOOLEAN
  PROVE  /\ MakeAnswer(t, n, r, h) \in Answer
         /\ MakeAnswer(t, n, r, h).type = t /\ MakeAnswer(t, n, r, h).seqNum = n
         /\ MakeAnswer(t, n, r, h).result = r /\ MakeAnswer(t, n, r, h).short = h
BY DEF MakeAnswer, Answer

LEMMA CrcAnswerType ==
  ASSUME NEW p \in Packet, NEW r \in BOOLEAN
  PROVE  /\ CrcAnswer(p, r) \in Answer /\ CrcAnswer(p, r).type = "ANSWER_CRC"
         /\ CrcAnswer(p, r).seqNum = p.seqNum /\ CrcAnswer(p, r).result = r
         /\ CrcAnswer(p, r).short = Short(p)
<1>1. Short(p) \in BOOLEAN
  BY DEF Short
<1>2. p.seqNum \in Nat /\ "ANSWER_CRC" \in AnswerTypes
  BY DEF Packet, AnswerTypes
<1> QED
  BY <1>1, <1>2, MakeAnswerType DEF CrcAnswer

(* The answers of a receiver step, in a form every invariant can use: each *)
(* of them was underway, or is a CRC answer to p, or is a verdict on the    *)
(* file that this step has closed.                                         *)
Answers(p) ==
  /\ toSender' \in Channel(Answer)
  /\ \A a \in InFlight(toSender') :
       \/ a \in InFlight(toSender)
       \/ a.type = "ANSWER_CRC" /\ a.seqNum = p.seqNum
       \/ a.type = "ANSWER_SHA" /\ a.seqNum = p.seqNum /\ file_out' = "closed"

(* A packet that the receiver handles.                                     *)
Handled(p) ==
  /\ p \in Packet /\ PacketOK(p) /\ p.type # "SOCKET_ERROR"
  /\ rstatus = "running"

LEMMA ReplyAnswers ==
  ASSUME NetworkTypeOK, NEW p \in Packet, NEW r \in BOOLEAN, Reply(CrcAnswer(p, r))
  PROVE  Answers(p)
BY CrcAnswerType, PutInFlight DEF Reply, Answers, NetworkTypeOK

LEMMA FileSizeTypeStep ==
  ASSUME NetworkTypeOK, ReceiverInv, NEW p, Handled(p), p.type = "FILESIZE",
         HandleFileSizePacket(p)
  PROVE  Answers(p) /\ ReceiverInv'
<1>1. p.seqNum = 0 /\ p.crcOk \in BOOLEAN /\ "ANSWER_CRC" \in AnswerTypes
  BY DEF Handled, PacketOK, Packet, AnswerTypes
<1>2. Answers(p)
  <2> DEFINE a == MakeAnswer("ANSWER_CRC", p.seqNum, p.crcOk, FALSE)
  <2>1. a \in Answer /\ a.type = "ANSWER_CRC" /\ a.seqNum = p.seqNum
    BY <1>1 DEF MakeAnswer, Answer
  <2>2. toSender' = Put(toSender, a)
    BY DEF HandleFileSizePacket, Reply
  <2> HIDE DEF a
  <2> QED
    BY <2>1, <2>2, PutInFlight DEF Answers, NetworkTypeOK
<1>3. ReceiverTypeOK'
  <2>1. baseSeqNum' = 1 /\ lastSeqNum' = 0
    BY <1>1 DEF HandleFileSizePacket
  <2>2. fileName' \in BOOLEAN
    BY DEF HandleFileSizePacket, ReceiverInv, ReceiverTypeOK
  <2>3. file_out' \in {"null", "open", "closed"}
    BY DEF HandleFileSizePacket, ReceiverInv, ReceiverTypeOK
  <2>4. file' \in Seq(Blocks)
    <3>1. file' = <<>> \/ file' = file
      BY DEF HandleFileSizePacket
    <3>2. <<>> \in Seq(Blocks)
      OBVIOUS
    <3> QED
      BY <3>1, <3>2 DEF ReceiverInv, ReceiverTypeOK
  <2>5. rstatus' \in {"running", "returned", "failed", "crashed"}
    BY DEF HandleFileSizePacket, ReceiverInv, ReceiverTypeOK
  <2>6. UNCHANGED <<retryCounter, crc_fail, sha256_ok, slot, arrived, sha256>>
    BY DEF HandleFileSizePacket
  <2> QED
    BY <2>1, <2>2, <2>3, <2>4, <2>5, <2>6 DEF ReceiverInv, ReceiverTypeOK
<1> QED
  BY <1>2, <1>3 DEF HandleFileSizePacket, ReceiverInv

LEMMA CrashTypeStep ==
  ASSUME ReceiverInv, Crash
  PROVE  ReceiverInv'
BY DEF Crash, ReceiverInv, ReceiverTypeOK

(* What the file and the slots hold after a packet was written.            *)
LEMMA WriteTypeStep ==
  ASSUME ReceiverInv, NEW p, Handled(p), p.type = "DATA",
         NEW last \in -1..(NumPackets + 1), WriteData(p, last)
  PROVE  ReceiverInv'
<1>1. p.seqNum \in 1..NumPackets /\ p.seqNum \in Nat /\ p.seqNum \in Blocks
  BY DEF Handled, PacketOK, Blocks
<1>2. p.seqNum % WindowSize \in Slots
  BY <1>1, ModRange
<1>3. DrainedSlot(p) \in Slots
  <2>1. baseSeqNum + 2 \in Nat
    BY <1>1 DEF WriteData
  <2> QED
    BY <2>1, ModRange DEF DrainedSlot
<1>4. SlotWith(p) \in [Slots -> Blocks] /\ ArrivedAfter(p) \in [Slots -> BOOLEAN]
  BY <1>1, <1>2 DEF SlotWith, ArrivedAfter, ReceiverInv, ReceiverTypeOK
<1>5. \A f \in Seq(Blocks) : \A b \in Blocks : Written(f, b) \in Seq(Blocks)
  BY DEF Written
<1>6. file' \in Seq(Blocks)
  <2>1. SlotWith(p)[DrainedSlot(p)] \in Blocks
    BY <1>3, <1>4
  <2>2. file \in Seq(Blocks)
    BY DEF ReceiverInv, ReceiverTypeOK
  <2>3. Written(file, p.seqNum) \in Seq(Blocks)
    BY <1>1, <1>5, <2>2
  <2>4. Written(Written(file, p.seqNum), SlotWith(p)[DrainedSlot(p)]) \in Seq(Blocks)
    BY <1>5, <2>1, <2>3
  <2> QED
    BY <2>3, <2>4 DEF WriteData
<1>7. arrived' \in [Slots -> BOOLEAN] /\ slot' \in [Slots -> Blocks]
  BY <1>3, <1>4 DEF WriteData
<1>8. baseSeqNum' \in -1..(NumPackets + 2)
  BY <1>1 DEF WriteData
<1>9. ReceiverTypeOK'
  BY <1>6, <1>7, <1>8 DEF WriteData, ReceiverInv, ReceiverTypeOK
<1> QED
  BY <1>9 DEF WriteData, ReceiverInv

LEMMA DataTypeStep ==
  ASSUME NetworkTypeOK, ReceiverInv, NEW p, Handled(p), p.type = "DATA",
         NEW last \in -1..(NumPackets + 1), HandleDataPacket(p, last)
  PROVE  Answers(p) /\ ReceiverInv'
<1>0. p \in Packet
  BY DEF Handled
<1>1. CASE RejectData(p, last)
  BY <1>0, <1>1, ReplyAnswers DEF RejectData, ReceiverInv, ReceiverTypeOK
<1>2. CASE BufferData(p, last)
  <2>1. p.seqNum \in Nat /\ p.seqNum \in Blocks
    BY DEF Handled, PacketOK, Blocks
  <2>2. p.seqNum % WindowSize \in Slots
    BY <2>1, ModRange
  <2>3. slot' \in [Slots -> Blocks] /\ arrived' \in [Slots -> BOOLEAN]
    BY <1>2, <2>1, <2>2 DEF BufferData, ReceiverInv, ReceiverTypeOK
  <2> QED
    BY <1>0, <1>2, <2>3, ReplyAnswers DEF BufferData, ReceiverInv, ReceiverTypeOK
<1>3. CASE WriteData(p, last)
  <2>1. Answers(p)
    BY <1>0, <1>3, ReplyAnswers DEF WriteData
  <2> QED
    BY <1>3, <2>1, WriteTypeStep
<1>4. CASE WriteDataCrash(p)
  <2>1. Answers(p)
    BY <1>4 DEF WriteDataCrash, Answers, NetworkTypeOK
  <2> QED
    BY <1>4, <2>1, CrashTypeStep DEF WriteDataCrash
<1> QED
  BY <1>1, <1>2, <1>3, <1>4 DEF HandleDataPacket

LEMMA FinalTypeStep ==
  ASSUME NetworkTypeOK, ReceiverInv, NEW p, Handled(p), p.type = "FINAL",
         NEW last \in -1..(NumPackets + 1), HandleFinalPacket(p, last)
  PROVE  Answers(p) /\ ReceiverInv'
<1>0. p \in Packet /\ p.seqNum \in Nat
  BY DEF Handled, Packet
<1>1. CASE VerifyFile(p)
  <2>1. sha256_ok' \in BOOLEAN
    BY <1>1 DEF VerifyFile, DigestMatches
  <2>2. Answers(p)
    <3> DEFINE a == CrcAnswer(p, TRUE)
               b == MakeAnswer("ANSWER_SHA", p.seqNum, sha256_ok', TRUE)
    <3>1. a \in Answer /\ a.type = "ANSWER_CRC" /\ a.seqNum = p.seqNum
      BY <1>0, CrcAnswerType
    <3>2. b \in Answer /\ b.type = "ANSWER_SHA" /\ b.seqNum = p.seqNum
      BY <1>0, <2>1 DEF MakeAnswer, Answer, AnswerTypes
    <3>3. toSender' = Put(Put(toSender, a), b)
      BY <1>1 DEF VerifyFile
    <3> HIDE DEF a, b
    <3>4. /\ Put(toSender, a) \in Channel(Answer)
          /\ \A x \in InFlight(Put(toSender, a)) : x = a \/ x \in InFlight(toSender)
      BY <3>1, PutInFlight DEF NetworkTypeOK
    <3>5. /\ toSender' \in Channel(Answer)
          /\ \A x \in InFlight(toSender') : x = b \/ x \in InFlight(Put(toSender, a))
      BY <3>2, <3>3, <3>4, PutInFlight
    <3>6. file_out' = "closed"
      BY <1>1 DEF VerifyFile
    <3> QED
      BY <3>1, <3>2, <3>4, <3>5, <3>6 DEF Answers
  <2>3. sha256' \in Seq(Blocks)
    BY <1>1 DEF VerifyFile, ReceiverInv, ReceiverTypeOK
  <2>4. retryCounter' \in 0..3 /\ (rstatus' = "running" => retryCounter' < 3)
    BY <1>1 DEF VerifyFile, ReceiverInv, ReceiverTypeOK, Handled
  <2>5. rstatus' \in {"running", "returned"}
    BY <1>1 DEF VerifyFile, Handled
  <2>6. ReceiverTypeOK'
    <3>1. file_out' = "closed" /\ fileName' = FALSE /\ lastSeqNum' = -1
          /\ UNCHANGED <<baseSeqNum, crc_fail, slot, arrived, file>>
      BY <1>1 DEF VerifyFile
    <3>2. lastSeqNum' \in -1..(NumPackets + 1)
      BY <3>1
    <3>3. rstatus' \in {"running", "returned", "failed", "crashed"}
      BY <2>5
    <3>4. file_out' \in {"null", "open", "closed"} /\ fileName' \in BOOLEAN
      BY <3>1
    <3>5. /\ baseSeqNum' \in -1..(NumPackets + 2)
          /\ crc_fail' \in BOOLEAN
          /\ slot' \in [Slots -> Blocks]
          /\ arrived' \in [Slots -> BOOLEAN]
          /\ file' \in Seq(Blocks)
      BY <3>1 DEF ReceiverInv, ReceiverTypeOK
    <3> QED
      BY <2>1, <2>3, <2>4, <3>2, <3>3, <3>4, <3>5 DEF ReceiverTypeOK
  <2> QED
    BY <2>2, <2>4, <2>6 DEF ReceiverInv
<1>2. CASE VerifyFileCrash(p)
  BY <1>0, <1>2, ReplyAnswers, CrashTypeStep DEF VerifyFileCrash
<1>3. CASE RejectFinal(p, last)
  BY <1>0, <1>3, ReplyAnswers DEF RejectFinal, ReceiverInv, ReceiverTypeOK
<1> QED
  BY <1>1, <1>2, <1>3 DEF HandleFinalPacket

LEMMA DuplicateTypeStep ==
  ASSUME NetworkTypeOK, ReceiverInv, NEW p, Handled(p), HandleDuplicatePacket(p)
  PROVE  Answers(p) /\ ReceiverInv'
<1>0. p \in Packet /\ lastSeqNum \in -1..(NumPackets + 1)
  BY DEF Handled, ReceiverInv, ReceiverTypeOK
<1>1. CASE p.type = "DATA" /\ HandleDataPacket(p, lastSeqNum)
  BY <1>0, <1>1, DataTypeStep
<1>2. CASE p.type = "FINAL" /\ HandleFinalPacket(p, lastSeqNum)
  BY <1>0, <1>2, FinalTypeStep
<1>3. CASE UNCHANGED <<receiverVars, toSender>>
  BY <1>3 DEF Answers, NetworkTypeOK, receiverVars, ReceiverInv, ReceiverTypeOK
<1>4. CASE Reply(CrcAnswer(p, TRUE)) /\ UNCHANGED receiverVars
  BY <1>0, <1>4, ReplyAnswers DEF receiverVars, ReceiverInv, ReceiverTypeOK
<1> QED
  BY <1>1, <1>2, <1>3, <1>4 DEF HandleDuplicatePacket

(* A verdict underway after a step was underway before it, or the file is  *)
(* closed by then.                                                         *)
VerdictsAfterCheck ==
  \A a \in InFlight(toSender') :
    a.type = "ANSWER_SHA" => a \in InFlight(toSender) \/ file_out' = "closed"

LEMMA ReceiverTypeStep ==
  ASSUME NetworkInv, ReceiverInv, ReceiverNext
  PROVE  NetworkInv' /\ ReceiverInv' /\ VerdictsAfterCheck
<1>1. PICK p \in Readable(toReceiver) :
        \/ ReceiveError(p) \/ ReceiveDuplicate(p)
        \/ ReceiveOutOfOrder(p) \/ ReceiveFresh(p)
  BY DEF ReceiverNext
<1>2. NetworkTypeOK /\ toReceiver \in Channel(Packet)
  BY DEF NetworkInv, NetworkTypeOK
<1>3. /\ p \in Packet /\ p \in InFlight(toReceiver) /\ PacketOK(p)
      /\ Take(toReceiver) \in Channel(Packet)
      /\ InFlight(Take(toReceiver)) \subseteq InFlight(toReceiver)
  BY <1>2, TakeInFlight DEF NetworkInv
<1>4. Receive(p)
  BY <1>1 DEF ReceiveError, ReceiveDuplicate, ReceiveOutOfOrder, ReceiveFresh
<1>5. p.seqNum \in 0..(NumPackets + 1) \/ p.type = "SOCKET_ERROR"
  BY <1>3 DEF PacketOK, Packet, PacketTypes
<1>6. ASSUME Answers(p), p.type # "SOCKET_ERROR"
      PROVE  NetworkInv' /\ VerdictsAfterCheck
  <2>1. NetworkInv'
    BY <1>3, <1>4, <1>5, <1>6 DEF Answers, NetworkInv, NetworkTypeOK, Receive
  <2>2. VerdictsAfterCheck
    BY <1>6 DEF Answers, VerdictsAfterCheck
  <2> QED
    BY <2>1, <2>2
<1>7. ASSUME UNCHANGED toSender PROVE NetworkInv' /\ VerdictsAfterCheck
  <2>1. InFlight(toSender') = InFlight(toSender)
    BY <1>7
  <2>2. NetworkInv'
    BY <1>3, <1>4, <1>7, <2>1 DEF NetworkInv, NetworkTypeOK, Receive
  <2> QED
    BY <2>1, <2>2 DEF VerdictsAfterCheck
<1>8. CASE ReceiveError(p)
  BY <1>7, <1>8 DEF ReceiveError, ReceiverInv, ReceiverTypeOK
<1>9. CASE ReceiveDuplicate(p)
  BY <1>2, <1>3, <1>4, <1>6, <1>9, DuplicateTypeStep DEF ReceiveDuplicate, Receive, Handled
<1>10. CASE ReceiveOutOfOrder(p)
  BY <1>7, <1>10 DEF ReceiveOutOfOrder, receiverVars, ReceiverInv, ReceiverTypeOK
<1>11. CASE ReceiveFresh(p)
  <2>1. CASE p.type = "FILESIZE" /\ HandleFileSizePacket(p)
    BY <1>2, <1>3, <1>4, <1>6, <2>1, FileSizeTypeStep DEF Receive, Handled
  <2>2. CASE p.type = "DATA" /\ HandleDataPacket(p, p.seqNum)
    BY <1>2, <1>3, <1>4, <1>5, <1>6, <2>2, DataTypeStep DEF Receive, Handled
  <2>3. CASE p.type = "FINAL" /\ HandleFinalPacket(p, p.seqNum)
    BY <1>2, <1>3, <1>4, <1>5, <1>6, <2>3, FinalTypeStep DEF Receive, Handled
  <2> QED
    BY <1>11, <2>1, <2>2, <2>3 DEF ReceiveFresh
<1> QED
  BY <1>1, <1>8, <1>9, <1>10, <1>11

-----------------------------------------------------------------------------
LEMMA EnvironmentTypeStep ==
  ASSUME NetworkInv, FaultStep \/ DiscardAtReceiver \/ DiscardAtSender
  PROVE  NetworkInv'
<1>0. NetworkTypeOK /\ (\A p \in InFlight(toReceiver) : PacketOK(p))
      /\ \A a \in InFlight(toSender) : a.seqNum \in 0..(NumPackets + 1)
  BY DEF NetworkInv
<1>1. CASE FaultStep
  <2>1. NetworkFault
    BY <1>1 DEF FaultStep
  <2>2. faults' \in 0..MaxFaults
    <3>1. Fault
      BY <2>1 DEF NetworkFault, LosePacket, LoseAnswer, DuplicatePacket,
         DuplicateAnswer, CorruptPacket, CorruptAnswer, SocketErrorAtReceiver,
         SocketErrorAtSender
    <3> QED
      BY <1>0, <3>1 DEF NetworkTypeOK, Fault
  <2>3. /\ toReceiver' \in Channel(Packet)
        /\ \A p \in InFlight(toReceiver') : PacketFrom(p, toReceiver)
        /\ toSender' \in Channel(Answer)
        /\ \A a \in InFlight(toSender') : AnswerFrom(a, toSender)
    BY <1>0, <2>1, FaultsMakeNothingUp
  <2>4. \A p \in InFlight(toReceiver') : PacketOK(p)
    BY <1>0, <2>3 DEF PacketFrom, PacketOK
  <2>5. \A a \in InFlight(toSender') : a.seqNum \in 0..(NumPackets + 1)
    BY <1>0, <2>3 DEF AnswerFrom
  <2> QED
    BY <2>2, <2>3, <2>4, <2>5 DEF NetworkInv, NetworkTypeOK
<1>2. CASE DiscardAtReceiver
  BY <1>0, <1>2, TailInFlight DEF DiscardAtReceiver, NetworkInv, NetworkTypeOK, Channel
<1>3. CASE DiscardAtSender
  BY <1>0, <1>3, TailInFlight DEF DiscardAtSender, NetworkInv, NetworkTypeOK, Channel
<1> QED
  BY <1>1, <1>2, <1>3

-----------------------------------------------------------------------------
(* Every step of either program, or of the network, keeps the types.       *)
LEMMA TypeStep ==
  ASSUME TypeInv, [Next]_vars
  PROVE  TypeInv'
<1>0. NetworkInv /\ SenderInv /\ ReceiverInv
  BY DEF TypeInv
<1>1. CASE SenderStep(SenderNext)
  <2>1. UNCHANGED receiverVars /\ SenderNext
    BY <1>1 DEF SenderStep
  <2>2. NetworkInv' /\ SenderInv'
    BY <1>0, <2>1, SenderTypeStep
  <2>3. ReceiverInv'
    BY <1>0, <2>1 DEF receiverVars, ReceiverInv, ReceiverTypeOK
  <2> QED
    BY <2>2, <2>3 DEF TypeInv
<1>2. CASE ReceiverStep(ReceiverNext)
  <2>1. UNCHANGED senderVars /\ ReceiverNext
    BY <1>2 DEF ReceiverStep
  <2>2. NetworkInv' /\ ReceiverInv'
    BY <1>0, <2>1, ReceiverTypeStep
  <2>3. SenderInv'
    BY <1>0, <2>1 DEF senderVars, mainVars, windowVars, threadVars, SenderInv, SenderTypeOK
  <2> QED
    BY <2>2, <2>3 DEF TypeInv
<1>3. CASE FaultStep \/ DiscardAtReceiver \/ DiscardAtSender
  <2>1. UNCHANGED <<senderVars, receiverVars>>
    BY <1>3 DEF FaultStep, DiscardAtReceiver, DiscardAtSender
  <2>2. NetworkInv'
    BY <1>0, <1>3, EnvironmentTypeStep
  <2>3. SenderInv'
    BY <1>0, <2>1 DEF senderVars, mainVars, windowVars, threadVars, SenderInv, SenderTypeOK
  <2>4. ReceiverInv'
    BY <1>0, <2>1 DEF receiverVars, ReceiverInv, ReceiverTypeOK
  <2> QED
    BY <2>2, <2>3, <2>4 DEF TypeInv
<1>4. CASE UNCHANGED vars
  <2>1. UNCHANGED <<senderVars, receiverVars, networkVars>>
    BY <1>4 DEF vars
  <2>2. NetworkInv'
    <3>1. InFlight(toReceiver') = InFlight(toReceiver) /\ InFlight(toSender') = InFlight(toSender)
      BY <2>1 DEF networkVars
    <3> QED
      BY <1>0, <2>1, <3>1 DEF networkVars, NetworkInv, NetworkTypeOK
  <2>3. SenderInv'
    BY <1>0, <2>1 DEF senderVars, mainVars, windowVars, threadVars, SenderInv, SenderTypeOK
  <2>4. ReceiverInv'
    BY <1>0, <2>1 DEF receiverVars, ReceiverInv, ReceiverTypeOK
  <2> QED
    BY <2>2, <2>3, <2>4 DEF TypeInv
<1> QED
  BY <1>1, <1>2, <1>3, <1>4 DEF Next

LEMMA TypeInvariant == Spec => []TypeInv
<1>1. Init => TypeInv
  BY TypeInit
<1>2. TypeInv /\ [Next]_vars => TypeInv'
  BY TypeStep
<1> QED
  BY <1>1, <1>2, PTL DEF Spec

(* Every variable stays within the bounds the guards of the code give it:  *)
(* three tries of run, three attempts of handleACK, three digests of the   *)
(* receiver, and a base that the sender never moves past seqNum and the    *)
(* receiver never past the sequence number of FINAL by more than one.      *)
THEOREM TypeCorrect == Spec => []TypeOK
<1>1. TypeInv => TypeOK
  BY DEF TypeInv, TypeOK, NetworkInv, SenderInv, ReceiverInv
<1> QED
  BY <1>1, TypeInvariant, PTL
=============================================================================
