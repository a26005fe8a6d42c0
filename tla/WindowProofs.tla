---------------------------- MODULE WindowProofs ----------------------------
(***************************************************************************)
(* Proofs about the sender's window: the main thread is never left waiting *)
(* for something that has happened, and what is marked as acknowledged is  *)
(* in the receiver's buffer.                                               *)
(***************************************************************************)
EXTENDS TransferProofs

-----------------------------------------------------------------------------
(* Neighbours never share a slot.                                          *)

LEMMA DivMod ==
  ASSUME NEW w \in Nat, w > 0, NEW n \in Nat
  PROVE  n = (w * (n \div w)) + (n % w)
OBVIOUS

LEMMA NeighboursDiffer ==
  ASSUME NEW w \in Nat, w > 1, NEW n \in Nat
  PROVE  n % w # (n + 1) % w
<1> DEFINE a == n \div w
           b == (n + 1) \div w
<1>1. n = (w * a) + (n % w) /\ n + 1 = (w * b) + ((n + 1) % w)
  BY DivMod
<1>2. \A k \in Int : w * k # 1
  OBVIOUS
<1>3. a \in Int /\ b \in Int /\ b - a \in Int /\ n % w \in Int
  OBVIOUS
<1> HIDE DEF a, b
<1>4. ASSUME n % w = (n + 1) % w PROVE w * (b - a) = 1
  BY <1>1, <1>3, <1>4
<1> QED
  BY <1>2, <1>3, <1>4

-----------------------------------------------------------------------------
(* The two waits, and the slot the second one watches.                     *)

WindowWaitOK == spc = "windowWait" => WindowFull

LastWaitOK ==
  spc = "lastWait" /\ acknowledged[lastSentID] =>
    base < seqNum /\ ~acknowledged[base % WindowSize]

LastSlotOK ==
  spc \in {"last", "lastWait"} => lastSentID = NumPackets % WindowSize

WakeupInv == WindowWaitOK /\ LastWaitOK /\ LastSlotOK

LEMMA NotWaiting ==
  ASSUME spc' \notin {"windowWait", "last", "lastWait"}
  PROVE  WakeupInv'
BY DEF WakeupInv, WindowWaitOK, LastWaitOK, LastSlotOK

LEMMA NothingMoves ==
  ASSUME WakeupInv, UNCHANGED <<spc, windowVars>>
  PROVE  WakeupInv'
BY DEF WakeupInv, WindowWaitOK, LastWaitOK, LastSlotOK, WindowFull, windowVars

(* An acknowledgement that does not slide the window.  Its number lies in  *)
(* the window, so base has not passed seqNum; and when base has reached    *)
(* seqNum, it is that number's slot, a neighbour of lastSentID, that it    *)
(* marks.                                                                  *)
LEMMA WindowStands ==
  ASSUME WindowSize > 1, SenderInv, WakeupInv,
         lpc = "got", InWindow(ackPacket.seqNum),
         acknowledged' = [acknowledged EXCEPT ![ackPacket.seqNum % WindowSize] = TRUE],
         base' = base, spc' = spc,
         base > seqNum \/ SlidesTo(base, acknowledged'),
         UNCHANGED <<seqNum, nextSeqNum, lastSentID>>
  PROVE  WakeupInv'
<1> DEFINE s == ackPacket.seqNum
           last == NumPackets % WindowSize
<1>1. /\ s \in 0..(NumPackets + 1)
      /\ base \in 0..(NumPackets + 1) /\ seqNum \in 0..(NumPackets + 1)
      /\ acknowledged \in [Slots -> BOOLEAN]
      /\ spc \in {"last", "lastWait"} => seqNum = NumPackets + 1
  BY DEF SenderInv, SenderTypeOK
<1>2. WindowWaitOK' /\ LastSlotOK'
  BY DEF WakeupInv, WindowWaitOK, LastSlotOK, WindowFull
<1>3. ASSUME spc = "lastWait", acknowledged'[last], base = NumPackets + 1,
             lastSentID = last
      PROVE  acknowledged[last]
  <2>1. s = NumPackets + 1
    BY <1>1, <1>3 DEF InWindow
  <2>2. last # s % WindowSize
    BY <2>1, NeighboursDiffer, PacketsAssumption
  <2>3. last \in Slots /\ s % WindowSize \in Slots
    <3>1. NumPackets \in Nat /\ s \in Nat
      BY <1>1, PacketsAssumption
    <3> HIDE DEF s
    <3> QED
      BY <3>1, ModRange
  <2> HIDE DEF s, last
  <2>4. acknowledged'[last] = acknowledged[last]
    BY <1>1, <2>2, <2>3 DEF s
  <2> QED
    BY <1>3, <2>4
<1>4. LastWaitOK'
  <2> SUFFICES ASSUME spc = "lastWait", acknowledged'[lastSentID]
               PROVE  base < seqNum /\ ~acknowledged'[base % WindowSize]
    BY DEF LastWaitOK
  <2>1. lastSentID = last /\ seqNum = NumPackets + 1
    BY <1>1 DEF WakeupInv, LastSlotOK
  <2>2. ~(base > seqNum)
    BY <1>1, <2>1
  <2>3. base # seqNum
    BY <1>3, <2>1 DEF WakeupInv, LastWaitOK
  <2>4. ~acknowledged'[base % WindowSize]
    BY <2>2, <2>3 DEF SlidesTo
  <2> QED
    BY <1>1, <2>2, <2>3, <2>4
<1> QED
  BY <1>2, <1>4 DEF WakeupInv

LEMMA AcknowledgeWakes ==
  ASSUME WindowSize > 1, SenderInv, WakeupInv, ListenerAcknowledge
  PROVE  WakeupInv'
<1> DEFINE s == ackPacket.seqNum
<1>1. UNCHANGED <<seqNum, nextSeqNum, packet, lastSentID>> /\ lpc = "got"
  BY DEF ListenerAcknowledge
<1>2. CASE UNCHANGED <<acknowledged, base, spc>>
  BY <1>1, <1>2, NothingMoves DEF windowVars
<1>3. CASE /\ InWindow(s)
           /\ acknowledged' = [acknowledged EXCEPT ![s % WindowSize] = TRUE]
           /\ \/ base > seqNum /\ base' = base
              \/ \E b \in base..seqNum : SlidesTo(b, acknowledged') /\ base' = b
           /\ spc' = IF base' = base THEN spc ELSE Notified(spc)
  <2>1. CASE base' = base
    <3>1. base > seqNum \/ SlidesTo(base, acknowledged')
      BY <1>3, <2>1
    <3> QED
      BY <1>1, <1>3, <2>1, <3>1, WindowStands
  <2>2. CASE base' # base
    <3>1. spc' = Notified(spc)
      BY <1>3, <2>2
    <3>2. CASE spc \in {"last", "lastWait"}
      <4>1. spc' = "last"
        BY <3>1, <3>2 DEF Notified
      <4> QED
        BY <1>1, <3>2, <4>1 DEF WakeupInv, WindowWaitOK, LastWaitOK, LastSlotOK
    <3>3. CASE spc \notin {"last", "lastWait"}
      <4>1. spc' \notin {"windowWait", "last", "lastWait"}
        BY <3>1, <3>3 DEF Notified
      <4> QED
        BY <4>1, NotWaiting
    <3> QED
      BY <3>2, <3>3
  <2> QED
    BY <2>1, <2>2
<1> QED
  BY <1>2, <1>3 DEF ListenerAcknowledge

-----------------------------------------------------------------------------
(* The main thread.                                                        *)

LEMMA HandleACKWakes ==
  ASSUME SenderInv, WakeupInv, SelectTimeout \/ SelectFailure \/ HandleACK
  PROVE  WakeupInv'
<1>1. spc' \in {"select", "open", "try", "stop"}
  BY DEF SelectTimeout, SelectFailure, HandleACK, AttemptSpent, HandleACKReturns
<1> QED
  BY <1>1, NotWaiting

LEMMA SendDataWakes ==
  ASSUME SenderInv, WakeupInv, SendDataPacket
  PROVE  WakeupInv'
<1>1. spc' \in {"last", "window"} /\ lastSentID' = seqNum % WindowSize
      /\ (spc' = "last" => seqNum = NumPackets)
  BY DEF SendDataPacket
<1> QED
  BY <1>1 DEF WakeupInv, WindowWaitOK, LastWaitOK, LastSlotOK

LEMMA WaitsWake ==
  ASSUME SenderInv, WakeupInv, WaitForWindow \/ LastAcknowledged \/ SpuriousWakeup
  PROVE  WakeupInv'
<1>1. UNCHANGED windowVars
  BY DEF WaitForWindow, LastAcknowledged, SpuriousWakeup
<1>2. UNCHANGED <<seqNum, base, nextSeqNum, acknowledged, lastSentID>>
  BY <1>1 DEF windowVars
<1>3. CASE WaitForWindow
  BY <1>2, <1>3 DEF WaitForWindow, WakeupInv, WindowWaitOK, LastWaitOK, LastSlotOK, WindowFull
<1>4. CASE LastAcknowledged
  BY <1>2, <1>4 DEF LastAcknowledged, WakeupInv, WindowWaitOK, LastWaitOK, LastSlotOK
<1>5. CASE SpuriousWakeup
  BY <1>2, <1>5 DEF SpuriousWakeup, WakeupInv, WindowWaitOK, LastWaitOK, LastSlotOK
<1> QED
  BY <1>3, <1>4, <1>5

LEMMA SenderWakes ==
  ASSUME WindowSize > 1, SenderInv, WakeupInv, SenderNext
  PROVE  WakeupInv'
<1>1. CASE SelectTimeout \/ SelectFailure \/ HandleACK
  BY <1>1, HandleACKWakes
<1>2. CASE SendDataPacket
  BY <1>2, SendDataWakes
<1>3. CASE WaitForWindow \/ LastAcknowledged \/ SpuriousWakeup
  BY <1>3, WaitsWake
<1>4. CASE ListenerAcknowledge
  BY <1>4, AcknowledgeWakes
<1>5. CASE \/ SendFileNamePacket \/ GiveUp \/ SelectReadable \/ OpenFile \/ OpenFileFails
           \/ SendFinalPacket \/ StopThreads \/ JoinResend \/ JoinListener
  <2>1. spc' \notin {"windowWait", "last", "lastWait"}
    BY <1>5 DEF SendFileNamePacket, GiveUp, SelectReadable, OpenFile, OpenFileFails,
       SendFinalPacket, StopThreads, JoinResend, JoinListener
  <2> QED
    BY <2>1, NotWaiting
<1>6. CASE ListenerCheck \/ ListenerReceive \/ ResendNext
  <2>1. UNCHANGED <<spc, windowVars>>
    BY <1>6 DEF ListenerCheck, ListenerReceive, ResendNext, ResendExit, ResendPacket,
       senderVars, mainVars
  <2> QED
    BY <2>1, NothingMoves
<1> QED
  BY <1>1, <1>2, <1>3, <1>4, <1>5, <1>6 DEF SenderNext, MainNext, ListenerNext

-----------------------------------------------------------------------------
LEMMA WakeupStep ==
  ASSUME WindowSize > 1, TypeInv, WakeupInv, [Next]_vars
  PROVE  WakeupInv'
<1>1. CASE SenderStep(SenderNext)
  BY <1>1, SenderWakes DEF SenderStep, TypeInv
<1>2. CASE ReceiverStep(ReceiverNext) \/ FaultStep \/ DiscardAtReceiver
           \/ DiscardAtSender \/ UNCHANGED vars
  <2>1. UNCHANGED senderVars
    BY <1>2 DEF ReceiverStep, FaultStep, DiscardAtReceiver, DiscardAtSender, vars
  <2> QED
    BY <2>1, NothingMoves DEF senderVars, mainVars
<1> QED
  BY <1>1, <1>2 DEF Next

(* The main thread is never left waiting on ack_cv for a condition that    *)
(* holds without a notification still to come, although the listener       *)
(* notifies only when base moves: for every network and every file, with   *)
(* at least two slots (the proof needs neighbours to have different ones). *)
THEOREM NoWakeupIsLost ==
  ASSUME WindowSize > 1
  PROVE  Spec => []NoLostWakeup
<1>1. Init => WakeupInv
  BY DEF Init, SenderInit, WakeupInv, WindowWaitOK, LastWaitOK, LastSlotOK
<1>2. TypeInv /\ WakeupInv /\ [Next]_vars => WakeupInv'
  BY WakeupStep
<1>3. WakeupInv => NoLostWakeup
  BY DEF WakeupInv, WindowWaitOK, LastWaitOK, NoLostWakeup
<1> QED
  BY <1>1, <1>2, <1>3, TypeInvariant, PTL DEF Spec

-----------------------------------------------------------------------------
(* What an acknowledgement means: for a file with fewer packets than the   *)
(* window has slots, whose last packet is not short, what the sender counts*)
(* as acknowledged the receiver has buffered.                              *)

FileFits == NumPackets < WindowSize /\ ~ShortLast

-----------------------------------------------------------------------------
(* The inductive invariant.  The receiver answers positively only what it  *)
(* has: what it has just buffered, or what it takes for a duplicate, which *)
(* is below baseSeqNum or, unless the CRC failed, the last packet buffered.*)

InSlot(s) == slot[s] = s

Positive(a) ==
  a.type = "ANSWER_CRC" /\ a.seqNum \in 1..NumPackets /\ IsBufferAllNum(a)

BufferHeld ==
  /\ \A s \in 1..NumPackets : s < baseSeqNum => InSlot(s)
  /\ \A s \in 1..NumPackets : arrived[s] => InSlot(s)
LastHeld == lastSeqNum \in 1..NumPackets /\ ~crc_fail => InSlot(lastSeqNum)

AnswersHeld == \A a \in InFlight(toSender) : Positive(a) => InSlot(a.seqNum)
FinalHeld ==
  \A p \in InFlight(toReceiver) : p.type = "FINAL" => InSlot(NumPackets)

WindowHeld ==
  /\ \A s \in 1..NumPackets : s < base => InSlot(s)
  /\ \A s \in 1..NumPackets : acknowledged[s] => InSlot(s)
GotHeld ==
  lpc = "got" /\ ackPacket.seqNum \in 1..NumPackets => InSlot(ackPacket.seqNum)
WaitHeld ==
  /\ spc \in {"last", "lastWait"} => lastSentID = NumPackets
  /\ spc = "final" => InSlot(NumPackets)

SenderHeld == WindowHeld /\ GotHeld /\ WaitHeld
HeldInv == BufferHeld /\ LastHeld /\ AnswersHeld /\ FinalHeld /\ SenderHeld

(* The receiver never loses what it has buffered.                          *)
SlotsStay == \A s \in 1..NumPackets : InSlot(s) => InSlot(s)'

USE PacketsAssumption, NetworkAssumption, SenderAssumption

-----------------------------------------------------------------------------
LEMMA ModSmall ==
  ASSUME NEW w \in Nat, NEW n \in Nat, n < w
  PROVE  n % w = n
OBVIOUS

LEMMA OwnSlot ==
  ASSUME FileFits
  PROVE  \A s \in 1..NumPackets : s \in Slots /\ s \in Nat /\ s % WindowSize = s
BY ModSmall DEF FileFits, Slots

LEMMA NothingStored ==
  ASSUME UNCHANGED slot
  PROVE  SlotsStay /\ \A s : InSlot(s)' <=> InSlot(s)
BY DEF SlotsStay, InSlot

(* A packet that is buffered leaves the other slots as they are.           *)
LEMMA Stored ==
  ASSUME FileFits, ReceiverTypeOK, NEW s \in 1..NumPackets,
         slot' = [slot EXCEPT ![s % WindowSize] = s]
  PROVE  SlotsStay /\ InSlot(s)'
<1>1. s \in Slots /\ s % WindowSize = s
  BY OwnSlot
<1>2. \A r \in 1..NumPackets : r \in Slots
  BY OwnSlot
<1>3. slot' = [slot EXCEPT ![s] = s]
  BY <1>1
<1> QED
  BY <1>1, <1>2, <1>3 DEF ReceiverTypeOK, SlotsStay, InSlot

-----------------------------------------------------------------------------
(* The receiver.                                                           *)

(* What a step that handles p does, as far as these proofs go.             *)
HandledHeld(p) ==
  /\ SlotsStay /\ BufferHeld' /\ LastHeld'
  /\ \A a \in InFlight(toSender') :
       a \in InFlight(toSender) \/ (Positive(a) => InSlot(a.seqNum)')

LEMMA ReplyHeld ==
  ASSUME FileFits, NetworkTypeOK, NEW p \in Packet, PacketOK(p),
         p.type # "SOCKET_ERROR", NEW r \in BOOLEAN, Reply(CrcAnswer(p, r)),
         r /\ p.type = "DATA" => InSlot(p.seqNum)'
  PROVE  \A a \in InFlight(toSender') :
           a \in InFlight(toSender) \/ (Positive(a) => InSlot(a.seqNum)')
<1> DEFINE b == CrcAnswer(p, r)
<1>1. /\ b \in Answer /\ b.type = "ANSWER_CRC" /\ b.seqNum = p.seqNum
      /\ b.result = r /\ b.short = Short(p)
  BY CrcAnswerType
<1>2. toSender' = Put(toSender, b) /\ toSender \in Channel(Answer)
  BY DEF Reply, NetworkTypeOK
<1> HIDE DEF b
<1>3. \A a \in InFlight(toSender') : a = b \/ a \in InFlight(toSender)
  BY <1>1, <1>2, PutInFlight
<1>4. ASSUME Positive(b) PROVE InSlot(b.seqNum)'
  <2>1. p.seqNum \in 1..NumPackets
    BY <1>1, <1>4 DEF Positive
  <2>2. p.type = "DATA"
    BY <2>1 DEF PacketOK, Packet, PacketTypes
  <2>3. ~Short(p)
    BY <2>2 DEF FileFits, Short
  <2>4. r
    BY <1>1, <1>4, <2>3 DEF Positive, IsBufferAllNum
  <2> QED
    BY <1>1, <2>2, <2>4
<1> QED
  BY <1>3, <1>4

LEMMA RejectHeld ==
  ASSUME FileFits, NetworkTypeOK, BufferHeld, NEW p, Handled(p), NEW last,
         RejectData(p, last) \/ RejectFinal(p, last)
  PROVE  HandledHeld(p)
<1>1. /\ crc_fail' = TRUE /\ UNCHANGED <<slot, arrived, baseSeqNum>>
      /\ Reply(CrcAnswer(p, FALSE))
  BY DEF RejectData, RejectFinal
<1>2. SlotsStay /\ BufferHeld' /\ LastHeld'
  BY <1>1, NothingStored DEF BufferHeld, LastHeld
<1> QED
  BY <1>1, <1>2, ReplyHeld DEF Handled, HandledHeld

LEMMA CrashHeld ==
  ASSUME BufferHeld, LastHeld, NEW p, Crash,
         \A a \in InFlight(toSender') :
           a \in InFlight(toSender) \/ (Positive(a) => InSlot(a.seqNum)')
  PROVE  HandledHeld(p)
<1>1. UNCHANGED <<slot, arrived, baseSeqNum, lastSeqNum, crc_fail>>
  BY DEF Crash
<1> QED
  BY <1>1, NothingStored DEF BufferHeld, LastHeld, HandledHeld

(* last is p's number, or lastSeqNum when the CRC of the last one failed.  *)
LEMMA BufferDataHeld ==
  ASSUME FileFits, NetworkTypeOK, ReceiverTypeOK, BufferHeld, LastHeld,
         NEW p, Handled(p), p.type = "DATA", NEW last,
         last = p.seqNum \/ (crc_fail /\ last = lastSeqNum),
         BufferData(p, last)
  PROVE  HandledHeld(p)
<1> DEFINE s == p.seqNum
<1>1. s \in 1..NumPackets
  BY DEF Handled, PacketOK
<1>2. /\ slot' = [slot EXCEPT ![s % WindowSize] = s]
      /\ arrived' = [arrived EXCEPT ![s % WindowSize] = TRUE]
      /\ lastSeqNum' = last /\ UNCHANGED <<baseSeqNum, crc_fail>>
      /\ Reply(CrcAnswer(p, TRUE))
  BY DEF BufferData
<1>3. SlotsStay /\ InSlot(s)'
  BY <1>1, <1>2, Stored
<1>4. s % WindowSize = s
  BY <1>1, OwnSlot
<1>5. BufferHeld'
  <2>1. ASSUME NEW r \in 1..NumPackets, arrived'[r] PROVE InSlot(r)'
    <3>1. r = s \/ arrived[r]
      BY <1>1, <1>2, <1>4, <2>1, OwnSlot DEF ReceiverTypeOK
    <3> QED
      BY <1>3, <3>1 DEF BufferHeld, SlotsStay
  <2>2. \A r \in 1..NumPackets : r < baseSeqNum' => InSlot(r)'
    BY <1>2, <1>3 DEF BufferHeld, SlotsStay
  <2> QED
    BY <2>1, <2>2 DEF BufferHeld
<1>6. LastHeld'
  BY <1>2, <1>3 DEF LastHeld, SlotsStay
<1> QED
  BY <1>2, <1>3, <1>5, <1>6, ReplyHeld DEF Handled, HandledHeld

(* The packet is written, and perhaps the next one, which has arrived.     *)
LEMMA WriteDataHeld ==
  ASSUME FileFits, NetworkTypeOK, ReceiverTypeOK, BufferHeld, LastHeld,
         NEW p, Handled(p), p.type = "DATA", WriteData(p, p.seqNum)
  PROVE  HandledHeld(p)
<1> DEFINE s == p.seqNum
<1>1. s \in 1..NumPackets /\ s \in Nat
  BY DEF Handled, PacketOK
<1>2. /\ slot' = [slot EXCEPT ![s % WindowSize] = s]
      /\ lastSeqNum' = s /\ s = baseSeqNum
      /\ Reply(CrcAnswer(p, TRUE))
  BY DEF WriteData, SlotWith
<1>3. SlotsStay /\ InSlot(s)'
  BY <1>1, <1>2, Stored
<1>4. \A r \in 1..NumPackets : ArrivedAfter(p)[r] => arrived[r]
  BY <1>1, OwnSlot DEF ArrivedAfter, ReceiverTypeOK
<1>5. ArrivedAfter(p) \in [Slots -> BOOLEAN]
  BY <1>1, OwnSlot DEF ArrivedAfter, ReceiverTypeOK
<1>6. \A r \in 1..NumPackets : arrived'[r] => arrived[r]
  <2>1. CASE arrived' = ArrivedAfter(p)
    BY <1>4, <2>1
  <2>2. CASE arrived' = [ArrivedAfter(p) EXCEPT ![DrainedSlot(p)] = FALSE]
    BY <1>4, <1>5, <2>2, OwnSlot
  <2> QED
    BY <2>1, <2>2 DEF WriteData
<1>7. \A r \in 1..NumPackets : r < baseSeqNum' => InSlot(r)'
  <2>1. CASE ~LoopRuns(p)
    <3>1. baseSeqNum' = s + 1
      BY <1>2, <2>1 DEF WriteData
    <3> QED
      BY <1>1, <1>2, <1>3, <3>1 DEF BufferHeld, SlotsStay
  <2>2. CASE LoopRuns(p)
    <3>1. baseSeqNum' = s + 2
      BY <1>2, <2>2 DEF WriteData
    <3>2. ASSUME s + 1 \in 1..NumPackets PROVE InSlot(s + 1)'
      <4>1. (baseSeqNum + 1) % WindowSize = s + 1
        BY <1>2, <3>2, OwnSlot
      <4>2. ArrivedAfter(p)[s + 1]
        BY <2>2, <4>1 DEF LoopRuns
      <4> QED
        BY <1>3, <1>4, <3>2, <4>2 DEF BufferHeld, SlotsStay
    <3>3. \A r \in 1..NumPackets : r < s + 2 => r < baseSeqNum \/ r = s \/ r = s + 1
      BY <1>1, <1>2
    <3> QED
      BY <1>3, <3>1, <3>2, <3>3 DEF BufferHeld, SlotsStay
  <2> QED
    BY <2>1, <2>2
<1>8. BufferHeld'
  BY <1>3, <1>6, <1>7 DEF BufferHeld, SlotsStay
<1>9. LastHeld'
  BY <1>2, <1>3 DEF LastHeld
<1> QED
  BY <1>2, <1>3, <1>8, <1>9, ReplyHeld DEF Handled, HandledHeld

LEMMA DataHeld ==
  ASSUME FileFits, NetworkTypeOK, ReceiverTypeOK, BufferHeld, LastHeld,
         NEW p, Handled(p), p.type = "DATA", NEW last,
         last = p.seqNum \/ (crc_fail /\ last = lastSeqNum),
         p.seqNum = baseSeqNum => last = p.seqNum,
         HandleDataPacket(p, last)
  PROVE  HandledHeld(p)
<1>1. CASE RejectData(p, last)
  BY <1>1, RejectHeld
<1>2. CASE BufferData(p, last)
  BY <1>2, BufferDataHeld
<1>3. CASE WriteData(p, last)
  BY <1>3, WriteDataHeld DEF WriteData
<1>4. CASE WriteDataCrash(p)
  <2>1. InFlight(toSender') = InFlight(toSender)
    BY <1>4 DEF WriteDataCrash
  <2> QED
    BY <1>4, <2>1, CrashHeld DEF WriteDataCrash
<1> QED
  BY <1>1, <1>2, <1>3, <1>4 DEF HandleDataPacket

(* The answers to FINAL are about no DATA packet.                          *)
LEMMA FinalHandledHeld ==
  ASSUME FileFits, NetworkTypeOK, BufferHeld, LastHeld, NEW p, Handled(p),
         p.type = "FINAL", NEW last, HandleFinalPacket(p, last)
  PROVE  HandledHeld(p)
<1>0. p \in Packet /\ p.seqNum = NumPackets + 1 /\ p.seqNum \in Nat
  BY DEF Handled, PacketOK
<1>1. CASE VerifyFile(p)
  <2>1. /\ UNCHANGED <<slot, arrived, baseSeqNum>> /\ lastSeqNum' = -1
        /\ sha256_ok' \in BOOLEAN
    BY <1>1 DEF VerifyFile, DigestMatches
  <2>2. SlotsStay /\ BufferHeld' /\ LastHeld'
    BY <2>1, NothingStored DEF BufferHeld, LastHeld
  <2> DEFINE a == CrcAnswer(p, TRUE)
             b == MakeAnswer("ANSWER_SHA", p.seqNum, sha256_ok', TRUE)
  <2>3. a \in Answer /\ a.seqNum = p.seqNum
    BY <1>0, CrcAnswerType
  <2>4. b \in Answer /\ b.seqNum = p.seqNum
    BY <1>0, <2>1 DEF MakeAnswer, Answer, AnswerTypes
  <2>5. toSender' = Put(Put(toSender, a), b)
    BY <1>1 DEF VerifyFile
  <2> HIDE DEF a, b
  <2>6. /\ Put(toSender, a) \in Channel(Answer)
        /\ \A x \in InFlight(Put(toSender, a)) : x = a \/ x \in InFlight(toSender)
    BY <2>3, PutInFlight DEF NetworkTypeOK
  <2>7. \A x \in InFlight(toSender') : x = b \/ x \in InFlight(Put(toSender, a))
    BY <2>4, <2>5, <2>6, PutInFlight
  <2>8. ~Positive(a) /\ ~Positive(b)
    BY <1>0, <2>3, <2>4 DEF Positive
  <2> QED
    BY <2>2, <2>6, <2>7, <2>8 DEF HandledHeld
<1>2. CASE VerifyFileCrash(p)
  <2>1. Reply(CrcAnswer(p, TRUE)) /\ Crash
    BY <1>2 DEF VerifyFileCrash
  <2> QED
    BY <1>0, <2>1, ReplyHeld, CrashHeld DEF Handled
<1>3. CASE RejectFinal(p, last)
  BY <1>3, RejectHeld
<1> QED
  BY <1>1, <1>2, <1>3 DEF HandleFinalPacket

LEMMA FileSizeHeld ==
  ASSUME FileFits, NetworkTypeOK, BufferHeld, NEW p, Handled(p),
         p.type = "FILESIZE", HandleFileSizePacket(p)
  PROVE  HandledHeld(p)
<1>1. p \in Packet /\ p.seqNum = 0 /\ p.crcOk \in BOOLEAN
  BY DEF Handled, PacketOK, Packet
<1>2. /\ UNCHANGED <<slot, arrived>> /\ baseSeqNum' = 1 /\ lastSeqNum' = 0
  BY <1>1 DEF HandleFileSizePacket
<1>3. SlotsStay /\ BufferHeld' /\ LastHeld'
  BY <1>2, NothingStored DEF BufferHeld, LastHeld
<1> DEFINE a == MakeAnswer("ANSWER_CRC", p.seqNum, p.crcOk, FALSE)
<1>4. a \in Answer /\ a.seqNum = 0
  BY <1>1 DEF MakeAnswer, Answer, AnswerTypes
<1>5. toSender' = Put(toSender, a)
  BY DEF HandleFileSizePacket, Reply
<1> HIDE DEF a
<1>6. \A x \in InFlight(toSender') : x = a \/ x \in InFlight(toSender)
  BY <1>4, <1>5, PutInFlight DEF NetworkTypeOK
<1>7. ~Positive(a)
  BY <1>4 DEF Positive
<1> QED
  BY <1>3, <1>6, <1>7 DEF HandledHeld

(* A duplicate that is acknowledged unseen has been buffered before.       *)
LEMMA DuplicateHeld ==
  ASSUME FileFits, NetworkTypeOK, ReceiverTypeOK, BufferHeld, LastHeld,
         NEW p, Handled(p), IsDuplicate(p), HandleDuplicatePacket(p)
  PROVE  HandledHeld(p)
<1>0. p \in Packet /\ PacketOK(p) /\ p.type # "SOCKET_ERROR"
  BY DEF Handled
<1>1. CASE crc_fail /\ p.type = "DATA" /\ HandleDataPacket(p, lastSeqNum)
  <2>1. p.seqNum \in 1..NumPackets
    BY <1>0, <1>1 DEF PacketOK
  <2>2. p.seqNum = baseSeqNum => lastSeqNum = p.seqNum
    BY <2>1 DEF IsDuplicate
  <2> QED
    BY <1>1, <2>2, DataHeld
<1>2. CASE p.type = "FINAL" /\ HandleFinalPacket(p, lastSeqNum)
  BY <1>2, FinalHandledHeld
<1>3. CASE UNCHANGED <<receiverVars, toSender>>
  <2>1. UNCHANGED <<slot, arrived, baseSeqNum, lastSeqNum, crc_fail>>
    BY <1>3 DEF receiverVars
  <2>2. InFlight(toSender') = InFlight(toSender)
    BY <1>3
  <2> QED
    BY <2>1, <2>2, NothingStored DEF BufferHeld, LastHeld, HandledHeld
<1>4. CASE ~crc_fail /\ Reply(CrcAnswer(p, TRUE)) /\ UNCHANGED receiverVars
  <2>1. UNCHANGED <<slot, arrived, baseSeqNum, lastSeqNum, crc_fail>>
    BY <1>4 DEF receiverVars
  <2>2. p.type = "DATA" => InSlot(p.seqNum)
    BY <1>0, <1>4 DEF PacketOK, IsDuplicate, BufferHeld, LastHeld
  <2>3. p.type = "DATA" => InSlot(p.seqNum)'
    BY <2>1, <2>2, NothingStored
  <2> QED
    BY <1>0, <1>4, <2>1, <2>3, ReplyHeld, NothingStored DEF BufferHeld, LastHeld, HandledHeld
<1> QED
  BY <1>1, <1>2, <1>3, <1>4 DEF HandleDuplicatePacket

LEMMA ReceiverHeld ==
  ASSUME FileFits, TypeInv, HeldInv, ReceiverNext
  PROVE  /\ SlotsStay /\ BufferHeld' /\ LastHeld' /\ AnswersHeld'
         /\ InFlight(toReceiver') \subseteq InFlight(toReceiver)
<1>1. PICK p \in Readable(toReceiver) :
        \/ ReceiveError(p) \/ ReceiveDuplicate(p)
        \/ ReceiveOutOfOrder(p) \/ ReceiveFresh(p)
  BY DEF ReceiverNext
<1>2. /\ NetworkTypeOK /\ ReceiverTypeOK /\ toReceiver \in Channel(Packet)
      /\ BufferHeld /\ LastHeld /\ AnswersHeld
  BY DEF TypeInv, NetworkInv, ReceiverInv, NetworkTypeOK, HeldInv
<1>3. /\ p \in Packet /\ PacketOK(p)
      /\ InFlight(Take(toReceiver)) \subseteq InFlight(toReceiver)
  BY <1>2, TakeInFlight DEF TypeInv, NetworkInv
<1>4. Receive(p)
  BY <1>1 DEF ReceiveError, ReceiveDuplicate, ReceiveOutOfOrder, ReceiveFresh
<1>5. InFlight(toReceiver') \subseteq InFlight(toReceiver)
  BY <1>3, <1>4 DEF Receive
<1>6. ASSUME HandledHeld(p) PROVE AnswersHeld'
  <2>1. ASSUME NEW a \in InFlight(toSender'), Positive(a) PROVE InSlot(a.seqNum)'
    <3>1. CASE a \in InFlight(toSender)
      <4>1. InSlot(a.seqNum) /\ a.seqNum \in 1..NumPackets
        BY <1>2, <2>1, <3>1 DEF AnswersHeld, Positive
      <4> QED
        BY <1>6, <4>1 DEF HandledHeld, SlotsStay
    <3> QED
      BY <1>6, <2>1, <3>1 DEF HandledHeld
  <2> QED
    BY <2>1 DEF AnswersHeld, Positive
<1>7. ASSUME UNCHANGED <<slot, arrived, baseSeqNum, lastSeqNum, crc_fail, toSender>>
      PROVE  HandledHeld(p)
  <2>1. InFlight(toSender') = InFlight(toSender)
    BY <1>7
  <2> QED
    BY <1>2, <1>7, <2>1, NothingStored DEF BufferHeld, LastHeld, HandledHeld
<1>8. HandledHeld(p)
  <2>1. CASE ReceiveError(p)
    BY <1>7, <2>1 DEF ReceiveError
  <2>2. CASE ReceiveDuplicate(p)
    BY <1>2, <1>3, <1>4, <2>2, DuplicateHeld DEF ReceiveDuplicate, Receive, Handled
  <2>3. CASE ReceiveOutOfOrder(p)
    BY <1>7, <2>3 DEF ReceiveOutOfOrder, receiverVars
  <2>4. CASE p.type = "FILESIZE" /\ HandleFileSizePacket(p)
    BY <1>2, <1>3, <1>4, <2>4, FileSizeHeld DEF Receive, Handled
  <2>5. CASE p.type = "DATA" /\ HandleDataPacket(p, p.seqNum)
    BY <1>2, <1>3, <1>4, <2>5, DataHeld DEF Receive, Handled
  <2>6. CASE p.type = "FINAL" /\ HandleFinalPacket(p, p.seqNum)
    BY <1>2, <1>3, <1>4, <2>6, FinalHandledHeld DEF Receive, Handled
  <2> QED
    BY <1>1, <2>1, <2>2, <2>3, <2>4, <2>5, <2>6 DEF ReceiveFresh
<1> QED
  BY <1>5, <1>6, <1>8 DEF HandledHeld

-----------------------------------------------------------------------------
(* The sender.  It acknowledges what a positive answer names, and slides   *)
(* its window over what is acknowledged.                                   *)

LEMMA SlotsUnchanged ==
  ASSUME UNCHANGED slot
  PROVE  \A s : InSlot(s)' <=> InSlot(s)
BY DEF InSlot

(* Marks of packets that may have been cleared, and one of slot 0.         *)
LEMMA WindowStays ==
  ASSUME WindowHeld, UNCHANGED <<slot, base>>,
         \A s \in 1..NumPackets : acknowledged'[s] => acknowledged[s]
  PROVE  WindowHeld'
BY SlotsUnchanged DEF WindowHeld

(* The main thread's steps that send no DATA and do not pass the last wait.*)
LEMMA MainMoves ==
  ASSUME GotHeld, UNCHANGED slot, UNCHANGED <<lpc, ackPacket>> \/ lpc' = "check",
         spc' \notin {"last", "lastWait", "final"}
  PROVE  GotHeld' /\ WaitHeld'
BY SlotsUnchanged DEF GotHeld, WaitHeld

LEMMA NetworkStays ==
  ASSUME AnswersHeld, FinalHeld, UNCHANGED <<slot, networkVars>>
  PROVE  AnswersHeld' /\ FinalHeld'
<1>1. /\ InFlight(toSender') = InFlight(toSender)
      /\ InFlight(toReceiver') = InFlight(toReceiver)
  BY DEF networkVars
<1> QED
  BY <1>1, SlotsUnchanged DEF AnswersHeld, FinalHeld, Positive

LEMMA SendHeld ==
  ASSUME NetworkTypeOK, AnswersHeld, FinalHeld, UNCHANGED slot,
         NEW p \in Packet, Send(p), p.type = "FINAL" => InSlot(NumPackets)
  PROVE  AnswersHeld' /\ FinalHeld'
<1>1. /\ \A x \in InFlight(toReceiver') : x = p \/ x \in InFlight(toReceiver)
      /\ InFlight(toSender') = InFlight(toSender)
  BY PutInFlight DEF Send, NetworkTypeOK
<1> QED
  BY <1>1, SlotsUnchanged DEF AnswersHeld, FinalHeld, Positive

LEMMA TakeHeld ==
  ASSUME NetworkTypeOK, AnswersHeld, FinalHeld, UNCHANGED <<slot, toReceiver>>,
         NEW a \in Readable(toSender), toSender' = Take(toSender)
  PROVE  /\ AnswersHeld' /\ FinalHeld'
         /\ Positive(a) => InSlot(a.seqNum)
<1>1. /\ a \in InFlight(toSender)
      /\ InFlight(toSender') \subseteq InFlight(toSender)
      /\ InFlight(toReceiver') = InFlight(toReceiver)
  BY TakeInFlight DEF NetworkTypeOK
<1> QED
  BY <1>1, SlotsUnchanged DEF AnswersHeld, FinalHeld, Positive

LEMMA AcknowledgeHeld ==
  ASSUME FileFits, SenderTypeOK, ackPacket.seqNum \in 0..(NumPackets + 1),
         WindowHeld, GotHeld, WaitHeld, ListenerAcknowledge, UNCHANGED slot
  PROVE  SenderHeld'
<1> DEFINE s == ackPacket.seqNum
<1>1. lpc' = "check" /\ UNCHANGED lastSentID
  BY DEF ListenerAcknowledge
<1>2. GotHeld'
  BY <1>1 DEF GotHeld
<1>3. WaitHeld'
  <2>1. \/ spc' = spc
        \/ spc = "windowWait" /\ spc' = "window"
        \/ spc = "lastWait" /\ spc' = "last"
    BY DEF ListenerAcknowledge, Notified
  <2> QED
    BY <1>1, <2>1, SlotsUnchanged DEF WaitHeld
<1>4. CASE UNCHANGED <<acknowledged, base>>
  BY <1>2, <1>3, <1>4, WindowStays DEF SenderHeld
<1>5. CASE acknowledged' = [acknowledged EXCEPT ![s % WindowSize] = TRUE]
  <2>1. \A r \in 1..NumPackets : acknowledged'[r] => InSlot(r)
    <3>1. CASE s \in 1..NumPackets
      <4>1. s % WindowSize = s /\ s \in Slots
        BY <3>1, OwnSlot
      <4>2. InSlot(s)
        BY <3>1 DEF GotHeld, ListenerAcknowledge
      <4> QED
        BY <1>5, <4>1, <4>2, OwnSlot DEF SenderTypeOK, WindowHeld
    <3>2. CASE s = 0 \/ s = NumPackets + 1
      <4>1. s % WindowSize = 0 \/ s % WindowSize = NumPackets + 1
        <5>1. CASE s < WindowSize
          BY <3>2, <5>1, ModSmall
        <5>2. CASE s = WindowSize
          BY <5>2
        <5> QED
          BY <3>2, <5>1, <5>2 DEF FileFits
      <4>2. \A r \in 1..NumPackets : r # s % WindowSize
        BY <4>1
      <4> QED
        BY <1>5, <4>2, OwnSlot DEF SenderTypeOK, WindowHeld
    <3> QED
      BY <3>1, <3>2
  <2>2. \A r \in 1..NumPackets : r < base' => InSlot(r)
    <3>1. CASE base' = base
      BY <3>1 DEF WindowHeld
    <3>2. ASSUME NEW b \in base..seqNum, SlidesTo(b, acknowledged'), base' = b,
                 NEW r \in 1..NumPackets, r < b
          PROVE  InSlot(r)
      <4>1. CASE r < base
        BY <4>1 DEF WindowHeld
      <4>2. CASE base <= r
        <5>1. r \in base..(b - 1) /\ r % WindowSize = r
          BY <3>2, <4>2, OwnSlot DEF SenderTypeOK
        <5>2. acknowledged'[r]
          BY <3>2, <5>1 DEF SlidesTo
        <5> QED
          BY <2>1, <5>2
      <4> QED
        BY <4>1, <4>2 DEF SenderTypeOK
    <3>3. \/ base' = base
          \/ \E b \in base..seqNum : SlidesTo(b, acknowledged') /\ base' = b
      BY DEF ListenerAcknowledge
    <3> QED
      BY <3>1, <3>2, <3>3
  <2>3. WindowHeld'
    BY <2>1, <2>2, SlotsUnchanged DEF WindowHeld
  <2> QED
    BY <1>2, <1>3, <2>3 DEF SenderHeld
<1> QED
  BY <1>4, <1>5 DEF ListenerAcknowledge

LEMMA SendDataHeld ==
  ASSUME FileFits, TypeInv, HeldInv, SendDataPacket, UNCHANGED slot
  PROVE  SenderHeld' /\ AnswersHeld' /\ FinalHeld'
<1>1. seqNum \in 1..NumPackets /\ SenderTypeOK /\ NetworkTypeOK
  BY DEF SendDataPacket, TypeInv, SenderInv, NetworkInv
<1>2. seqNum % WindowSize = seqNum /\ seqNum \in Slots
  BY <1>1, OwnSlot
<1>3. /\ acknowledged' = [acknowledged EXCEPT ![seqNum] = FALSE]
      /\ lastSentID' = seqNum /\ UNCHANGED <<base, lpc, ackPacket>>
      /\ spc' = IF seqNum = NumPackets THEN "last" ELSE "window"
  BY <1>2 DEF SendDataPacket, threadVars
<1>4. WindowHeld'
  <2>1. \A s \in 1..NumPackets : acknowledged'[s] => acknowledged[s]
    BY <1>1, <1>3, OwnSlot DEF SenderTypeOK
  <2> QED
    BY <1>3, <2>1, WindowStays DEF HeldInv, SenderHeld
<1>5. GotHeld' /\ WaitHeld'
  BY <1>3, SlotsUnchanged DEF HeldInv, SenderHeld, GotHeld, WaitHeld
<1>6. DataPacket(seqNum) \in Packet /\ DataPacket(seqNum).type = "DATA"
  BY <1>1, PacketsSent DEF DataPacket
<1>7. AnswersHeld' /\ FinalHeld'
  BY <1>1, <1>6, PacketErrorKeeps, SendHeld DEF SendDataPacket, HeldInv
<1> QED
  BY <1>4, <1>5, <1>7 DEF SenderHeld

LEMMA SenderKeepsHeld ==
  ASSUME FileFits, TypeInv, HeldInv, SenderNext, UNCHANGED slot
  PROVE  SenderHeld' /\ AnswersHeld' /\ FinalHeld'
<1>0. /\ NetworkTypeOK /\ SenderTypeOK
      /\ AnswersHeld /\ FinalHeld /\ WindowHeld /\ GotHeld /\ WaitHeld
  BY DEF TypeInv, NetworkInv, SenderInv, HeldInv, SenderHeld
<1>n. ASSUME UNCHANGED networkVars PROVE AnswersHeld' /\ FinalHeld'
  BY <1>0, <1>n, NetworkStays
<1>w. ASSUME UNCHANGED <<base, acknowledged>> PROVE WindowHeld'
  BY <1>0, <1>w, WindowStays
<1>z. ASSUME UNCHANGED base, \E v : acknowledged' = [acknowledged EXCEPT ![0] = v]
      PROVE  WindowHeld'
  <2>1. \A s \in 1..NumPackets : acknowledged'[s] => acknowledged[s]
    BY <1>0, <1>z, OwnSlot DEF SenderTypeOK
  <2> QED
    BY <1>0, <1>z, <2>1, WindowStays
<1>1. CASE SendFileNamePacket
  <2>1. WindowHeld' /\ GotHeld' /\ WaitHeld'
    BY <1>0, <1>1, <1>z, MainMoves DEF SendFileNamePacket, threadVars
  <2>2. FileNamePacket \in Packet /\ FileNamePacket.type = "FILESIZE"
    BY PacketsSent DEF FileNamePacket
  <2>3. AnswersHeld' /\ FinalHeld'
    BY <1>0, <1>1, <2>2, PacketErrorKeeps, SendHeld DEF SendFileNamePacket
  <2> QED
    BY <2>1, <2>3 DEF SenderHeld
<1>2. CASE \/ GiveUp \/ SelectReadable \/ WaitForWindow \/ StopThreads \/ JoinResend
           \/ JoinListener
  <2>1. /\ spc' \notin {"last", "lastWait", "final"}
        /\ UNCHANGED <<base, acknowledged, lpc, ackPacket, networkVars>>
    BY <1>2 DEF GiveUp, SelectReadable, WaitForWindow, StopThreads, JoinResend,
       JoinListener, windowVars, threadVars
  <2> QED
    BY <1>0, <1>n, <1>w, <2>1, MainMoves DEF SenderHeld
<1>3. CASE SelectTimeout \/ SelectFailure
  <2>1. spc' \notin {"last", "lastWait", "final"}
    BY <1>3 DEF SelectTimeout, SelectFailure, AttemptSpent, HandleACKReturns
  <2>2. UNCHANGED <<base, acknowledged, lpc, ackPacket, toSender, toReceiver>>
    BY <1>3 DEF SelectTimeout, SelectFailure, windowVars, threadVars, networkVars
  <2>3. /\ InFlight(toSender') = InFlight(toSender)
        /\ InFlight(toReceiver') = InFlight(toReceiver)
    BY <2>2
  <2>4. AnswersHeld' /\ FinalHeld'
    BY <1>0, <2>3, SlotsUnchanged DEF AnswersHeld, FinalHeld, Positive
  <2> QED
    BY <1>0, <1>w, <2>1, <2>2, <2>4, MainMoves DEF SenderHeld
<1>4. CASE HandleACK
  <2>1. spc' \notin {"last", "lastWait", "final"}
    BY <1>4 DEF HandleACK, AttemptSpent, HandleACKReturns
  <2>2. UNCHANGED <<base, acknowledged, lpc, ackPacket>>
    BY <1>4 DEF HandleACK, windowVars, threadVars
  <2>3. AnswersHeld' /\ FinalHeld'
    BY <1>0, <1>4, TakeHeld DEF HandleACK
  <2> QED
    BY <1>0, <1>w, <2>1, <2>2, <2>3, MainMoves DEF SenderHeld
<1>5. CASE OpenFile \/ OpenFileFails
  <2>1. /\ spc' \notin {"last", "lastWait", "final"}
        /\ acknowledged' = [acknowledged EXCEPT ![0] = TRUE]
        /\ UNCHANGED <<base, networkVars>>
        /\ UNCHANGED <<lpc, ackPacket>> \/ lpc' = "check"
    BY <1>5 DEF OpenFile, OpenFileFails, threadVars
  <2> QED
    BY <1>0, <1>n, <1>z, <2>1, MainMoves DEF SenderHeld
<1>6. CASE SendDataPacket
  BY <1>6, SendDataHeld
<1>7. CASE LastAcknowledged \/ SpuriousWakeup
  <2>1. UNCHANGED <<base, acknowledged, lpc, ackPacket, lastSentID, networkVars>>
    BY <1>7 DEF LastAcknowledged, SpuriousWakeup, windowVars, threadVars
  <2>2. GotHeld'
    BY <1>0, <2>1, SlotsUnchanged DEF GotHeld
  <2>3. WaitHeld'
    <3>1. CASE LastAcknowledged
      <4>1. lastSentID = NumPackets
        BY <1>0, <3>1 DEF LastAcknowledged, WaitHeld
      <4>2. spc' = "final" => InSlot(NumPackets)
        BY <1>0, <3>1, <4>1 DEF LastAcknowledged, WindowHeld
      <4> QED
        BY <2>1, <4>1, <4>2, SlotsUnchanged DEF WaitHeld
    <3>2. CASE SpuriousWakeup
      BY <1>0, <2>1, <3>2, SlotsUnchanged DEF SpuriousWakeup, WaitHeld
    <3> QED
      BY <1>7, <3>1, <3>2
  <2> QED
    BY <1>n, <1>w, <2>1, <2>2, <2>3 DEF SenderHeld
<1>8. CASE SendFinalPacket
  <2>1. /\ spc' \notin {"last", "lastWait", "final"}
        /\ UNCHANGED <<base, acknowledged, lpc, ackPacket>>
    BY <1>8 DEF SendFinalPacket, windowVars, threadVars
  <2>2. seqNum = NumPackets + 1 /\ InSlot(NumPackets)
    BY <1>0, <1>8 DEF SendFinalPacket, TypeInv, SenderInv, WaitHeld
  <2>3. AnswersHeld' /\ FinalHeld'
    BY <1>0, <1>8, <2>2, PacketsSent, PacketErrorKeeps, SendHeld DEF SendFinalPacket
  <2> QED
    BY <1>0, <1>w, <2>1, <2>3, MainMoves DEF SenderHeld
<1>9. CASE ListenerCheck
  <2>1. UNCHANGED <<base, acknowledged, lastSentID, spc, networkVars>> /\ lpc' # "got"
    BY <1>9 DEF ListenerCheck, mainVars, windowVars
  <2>2. GotHeld' /\ WaitHeld'
    BY <1>0, <2>1, SlotsUnchanged DEF GotHeld, WaitHeld
  <2> QED
    BY <1>n, <1>w, <2>1, <2>2 DEF SenderHeld
<1>10. CASE ListenerReceive
  <2>1. UNCHANGED <<base, acknowledged, lastSentID, spc, toReceiver>>
    BY <1>10 DEF ListenerReceive, mainVars, windowVars
  <2>2. PICK a \in Readable(toSender) :
          /\ toSender' = Take(toSender)
          /\ \/ /\ a.type = "ANSWER_CRC" /\ IsBufferAllNum(a)
                /\ ackPacket' = a
             \/ lpc' = "check"
    BY <1>10 DEF ListenerReceive
  <2>3. AnswersHeld' /\ FinalHeld' /\ (Positive(a) => InSlot(a.seqNum))
    BY <1>0, <2>1, <2>2, TakeHeld
  <2>4. GotHeld' /\ WaitHeld'
    BY <1>0, <2>1, <2>2, <2>3, SlotsUnchanged DEF GotHeld, WaitHeld, Positive
  <2> QED
    BY <1>w, <2>1, <2>3, <2>4 DEF SenderHeld
<1>11. CASE ListenerAcknowledge
  <2>1. SenderHeld'
    BY <1>0, <1>11, AcknowledgeHeld DEF TypeInv, SenderInv
  <2> QED
    BY <1>11, <1>n, <2>1 DEF ListenerAcknowledge
<1>12. CASE ResendExit
  <2>1. UNCHANGED <<base, acknowledged, lastSentID, spc, lpc, ackPacket, networkVars>>
    BY <1>12 DEF ResendExit, mainVars, windowVars
  <2>2. GotHeld' /\ WaitHeld'
    BY <1>0, <2>1, SlotsUnchanged DEF GotHeld, WaitHeld
  <2> QED
    BY <1>n, <1>w, <2>1, <2>2 DEF SenderHeld
<1>13. ASSUME NEW j \in 1..NumPackets, ResendPacket(j)
       PROVE  SenderHeld' /\ AnswersHeld' /\ FinalHeld'
  <2>1. UNCHANGED <<base, acknowledged, lastSentID, spc, lpc, ackPacket>>
    BY <1>13 DEF ResendPacket, senderVars, mainVars, windowVars, threadVars
  <2>2. GotHeld' /\ WaitHeld'
    BY <1>0, <2>1, SlotsUnchanged DEF GotHeld, WaitHeld
  <2>3. DataPacket(j) \in Packet /\ DataPacket(j).type = "DATA"
    BY PacketsSent DEF DataPacket
  <2>4. AnswersHeld' /\ FinalHeld'
    BY <1>0, <1>13, <2>3, SendHeld DEF ResendPacket
  <2> QED
    BY <1>w, <2>1, <2>2, <2>4 DEF SenderHeld
<1> QED
  BY <1>1, <1>2, <1>3, <1>4, <1>5, <1>6, <1>7, <1>8, <1>9, <1>10, <1>11, <1>12, <1>13
     DEF SenderNext, MainNext, ListenerNext, ResendNext

-----------------------------------------------------------------------------
(* The composition.                                                        *)

LEMMA HeldInit ==
  ASSUME FileFits, Init
  PROVE  HeldInv
<1>1. InFlight(toSender) = {} /\ InFlight(toReceiver) = {}
  BY DEF Init, NetworkInit, InFlight, EmptyChannel
<1>2. /\ baseSeqNum = -1 /\ lastSeqNum = -1 /\ base = 0 /\ spc = "try" /\ lpc = "off"
      /\ arrived = [i \in Slots |-> FALSE] /\ acknowledged = [i \in Slots |-> FALSE]
  BY DEF Init, SenderInit, ReceiverInit
<1>3. BufferHeld /\ WindowHeld
  BY <1>2, OwnSlot DEF BufferHeld, WindowHeld
<1> QED
  BY <1>1, <1>2, <1>3 DEF HeldInv, LastHeld, AnswersHeld, FinalHeld, SenderHeld,
     GotHeld, WaitHeld

LEMMA EnvironmentHeld ==
  ASSUME NetworkTypeOK, AnswersHeld, FinalHeld, UNCHANGED slot,
         FaultStep \/ DiscardAtReceiver \/ DiscardAtSender
  PROVE  AnswersHeld' /\ FinalHeld'
<1>1. CASE FaultStep
  <2>1. /\ \A p \in InFlight(toReceiver') : PacketFrom(p, toReceiver)
        /\ \A a \in InFlight(toSender') : AnswerFrom(a, toSender)
        /\ toSender \in Channel(Answer) /\ toSender' \in Channel(Answer)
    BY <1>1, FaultsMakeNothingUp DEF FaultStep, NetworkTypeOK
  <2>2. FinalHeld'
    BY <2>1, SlotsUnchanged DEF FinalHeld, PacketFrom
  <2>3. ASSUME NEW a \in InFlight(toSender'), Positive(a) PROVE InSlot(a.seqNum)
    <3>1. PICK b \in InFlight(toSender) :
            /\ a.type = b.type /\ a.seqNum = b.seqNum /\ a.short = b.short
            /\ a.result => b.result
      BY <2>1, <2>3 DEF AnswerFrom, Positive
    <3>2. Positive(b)
      BY <2>3, <3>1 DEF Positive, IsBufferAllNum
    <3> QED
      BY <3>1, <3>2 DEF AnswersHeld
  <2> QED
    BY <2>2, <2>3, SlotsUnchanged DEF AnswersHeld, Positive
<1>2. CASE DiscardAtReceiver
  <2>1. /\ InFlight(toReceiver') \subseteq InFlight(toReceiver)
        /\ InFlight(toSender') = InFlight(toSender)
    BY <1>2, TailInFlight DEF DiscardAtReceiver, NetworkTypeOK, Channel
  <2> QED
    BY <2>1, SlotsUnchanged DEF AnswersHeld, FinalHeld, Positive
<1>3. CASE DiscardAtSender
  <2>1. /\ InFlight(toSender') \subseteq InFlight(toSender)
        /\ InFlight(toReceiver') = InFlight(toReceiver)
    BY <1>3, TailInFlight DEF DiscardAtSender, NetworkTypeOK, Channel
  <2> QED
    BY <2>1, SlotsUnchanged DEF AnswersHeld, FinalHeld, Positive
<1> QED
  BY <1>1, <1>2, <1>3

LEMMA HeldStep ==
  ASSUME FileFits, TypeInv, HeldInv, [Next]_vars
  PROVE  HeldInv'
<1>0. NetworkTypeOK /\ BufferHeld /\ LastHeld /\ AnswersHeld /\ FinalHeld /\ SenderHeld
  BY DEF TypeInv, NetworkInv, HeldInv
<1>r. ASSUME UNCHANGED receiverVars PROVE BufferHeld' /\ LastHeld' /\ UNCHANGED slot
  <2>1. UNCHANGED <<slot, arrived, baseSeqNum, lastSeqNum, crc_fail>>
    BY <1>r DEF receiverVars
  <2> QED
    BY <1>0, <2>1, SlotsUnchanged DEF BufferHeld, LastHeld
<1>s. ASSUME UNCHANGED senderVars, SlotsStay PROVE SenderHeld'
  <2>1. UNCHANGED <<base, acknowledged, lastSentID, spc, lpc, ackPacket>>
    BY <1>s DEF senderVars, mainVars, windowVars, threadVars
  <2>2. WindowHeld'
    BY <1>0, <1>s, <2>1 DEF SenderHeld, WindowHeld, SlotsStay
  <2>3. GotHeld' /\ WaitHeld'
    <3>1. NumPackets \in 1..NumPackets
      OBVIOUS
    <3> QED
      BY <1>0, <1>s, <2>1, <3>1 DEF SenderHeld, GotHeld, WaitHeld, SlotsStay
  <2> QED
    BY <2>2, <2>3 DEF SenderHeld
<1>1. CASE SenderStep(SenderNext)
  BY <1>1, <1>r, SenderKeepsHeld DEF SenderStep, HeldInv
<1>2. CASE ReceiverStep(ReceiverNext)
  <2>1. /\ SlotsStay /\ BufferHeld' /\ LastHeld' /\ AnswersHeld'
        /\ InFlight(toReceiver') \subseteq InFlight(toReceiver)
    BY <1>2, ReceiverHeld DEF ReceiverStep
  <2>2. NumPackets \in 1..NumPackets
    OBVIOUS
  <2>3. FinalHeld'
    BY <1>0, <2>1, <2>2 DEF FinalHeld, SlotsStay
  <2> QED
    BY <1>2, <1>s, <2>1, <2>3 DEF ReceiverStep, HeldInv
<1>3. CASE FaultStep \/ DiscardAtReceiver \/ DiscardAtSender
  <2>1. UNCHANGED <<senderVars, receiverVars>>
    BY <1>3 DEF FaultStep, DiscardAtReceiver, DiscardAtSender
  <2>2. AnswersHeld' /\ FinalHeld'
    BY <1>0, <1>3, <1>r, <2>1, EnvironmentHeld
  <2> QED
    BY <1>r, <1>s, <2>1, <2>2, NothingStored DEF HeldInv
<1>4. CASE UNCHANGED vars
  <2>1. UNCHANGED <<senderVars, receiverVars, networkVars>>
    BY <1>4 DEF vars
  <2> QED
    BY <1>0, <1>r, <1>s, <2>1, NothingStored, NetworkStays DEF HeldInv
<1> QED
  BY <1>1, <1>2, <1>3, <1>4 DEF Next

LEMMA HeldInvariant ==
  ASSUME FileFits
  PROVE  Spec => []HeldInv
<1>1. Init => HeldInv
  BY HeldInit
<1>2. TypeInv /\ HeldInv /\ [Next]_vars => HeldInv'
  BY HeldStep
<1> QED
  BY <1>1, <1>2, TypeInvariant, PTL DEF Spec

(* What the sender counts as acknowledged, the receiver holds: over every  *)
(* network, however often packets and answers are lost, repeated, damaged  *)
(* or reordered, and whenever timers fire.  It is the answer to duplicates *)
(* that needs care, which the receiver gives without looking at them.      *)
THEOREM AcknowledgedIsHeld == Spec => []AckedIsHeld
<1>1. CASE FileFits
  <2>1. HeldInv => AckedIsHeld
    <3>1. ASSUME HeldInv, NEW s \in 1..NumPackets, Acknowledged(s) PROVE Holds(s)
      <4>1. s % WindowSize = s
        BY <1>1, OwnSlot
      <4> QED
        BY <3>1, <4>1 DEF HeldInv, SenderHeld, WindowHeld, Acknowledged, Holds, InSlot
    <3> QED
      BY <3>1 DEF AckedIsHeld
  <2> QED
    BY <1>1, <2>1, HeldInvariant, PTL
<1>2. CASE ~FileFits
  <2>1. AckedIsHeld
    BY <1>2 DEF FileFits, AckedIsHeld
  <2> QED
    BY <2>1, PTL
<1> QED
  BY <1>1, <1>2

(* FINAL is underway only when the receiver holds the last DATA packet: the*)
(* predicate the main thread waits for is about the right slot.            *)
THEOREM LastIsHeldBeforeFinal == Spec => []FinalAfterLast
<1>1. CASE FileFits
  <2>1. NumPackets % WindowSize = NumPackets
    BY <1>1, OwnSlot
  <2>2. HeldInv => FinalAfterLast
    BY <2>1 DEF HeldInv, FinalHeld, FinalAfterLast, Holds, InSlot
  <2> QED
    BY <1>1, <2>2, HeldInvariant, PTL
<1>2. CASE ~FileFits
  <2>1. FinalAfterLast
    BY <1>2 DEF FileFits, FinalAfterLast
  <2> QED
    BY <2>1, PTL
<1> QED
  BY <1>1, <1>2
=============================================================================
