-------------------------- MODULE RefinementProofs --------------------------
(***************************************************************************)
(* Proof that a transfer implements FileTransfer over a network that keeps *)
(* order, as long as no packet is lost or damaged: whatever timers fire,   *)
(* packets come twice, answers are lost, repeated or damaged, and sockets  *)
(* fail.  Without faults nothing but packetError can break the promise.    *)
(***************************************************************************)
EXTENDS VerdictProofs

-----------------------------------------------------------------------------
(* The inductive invariant.                                                *)

Prefix(n) == [i \in 1..n |-> i]

(* While it runs, the receiver takes every packet once and in order.       *)
InStep ==
  /\ lastSeqNum \in -1..NumPackets
  /\ lastSeqNum = -1 => baseSeqNum = -1 /\ file_out = "null"
  /\ lastSeqNum >= 0 =>
       baseSeqNum = lastSeqNum + 1 /\ file_out = "open" /\ fileName
  /\ arrived = [i \in Slots |-> FALSE]
  /\ file = Prefix(lastSeqNum)
  /\ sha256 = <<>>

ReceiverFollows ==
  /\ rstatus # "crashed" /\ retryCounter = 0 /\ ~crc_fail
  /\ sha256_ok <=> file_out = "closed"
  /\ sha256_ok => rstatus = "returned"
  /\ rstatus = "running" => InStep

(* The receiver has taken the packet with number s, or it is underway.     *)
Underway(s) == \E i \in 1..Len(toReceiver) : toReceiver[i].seqNum = s
Sent(s) == s <= lastSeqNum \/ Underway(s)

(* A packet underway is not ahead of the receiver by more than one, unless *)
(* its predecessor is underway before it.                                  *)
Chained ==
  \A i \in 1..Len(toReceiver) :
    \/ toReceiver[i].seqNum <= lastSeqNum + 1
    \/ \E j \in 1..(i - 1) : toReceiver[j].seqNum = toReceiver[i].seqNum - 1

(* Whatever the sender may send next has a predecessor that was sent.      *)
SenderLeads ==
  /\ spc # "try" \/ tryCounter > 0 => Sent(0)
  /\ \A s \in 0..NumPackets : s < seqNum => Sent(s)
  /\ \A i \in Slots : packet[i] > 0 => Sent(packet[i] - 1)

OrderInv == rstatus = "running" => Chained /\ SenderLeads

RefinementInv == VerdictInv /\ PacketsIntact /\ ReceiverFollows /\ OrderInv

USE PacketsAssumption, NetworkAssumption, SenderAssumption DEF MaxRetries

-----------------------------------------------------------------------------
(* What sending and receiving do to the order.                             *)

LEMMA Queue ==
  ASSUME Ordered, NetworkTypeOK
  PROVE  /\ toReceiver \in Seq(Packet)
         /\ \A p \in Packet : Put(toReceiver, p) = Append(toReceiver, p)
         /\ \A p \in Readable(toReceiver) : toReceiver # <<>> /\ p = toReceiver[1]
         /\ Take(toReceiver) = Tail(toReceiver)
BY DEF NetworkTypeOK, Channel, Put, Readable, Take

LEMMA NumbersUnderway ==
  ASSUME toReceiver \in Seq(Packet)
  PROVE  \A i \in 1..Len(toReceiver) : toReceiver[i] \in Packet /\ toReceiver[i].seqNum \in Nat
<1>1. \A i \in 1..Len(toReceiver) : toReceiver[i] \in Packet
  OBVIOUS
<1>2. \A p \in Packet : p.seqNum \in Nat
  BY DEF Packet
<1> QED
  BY <1>1, <1>2

LEMMA SendChains ==
  ASSUME toReceiver \in Seq(Packet), NEW p \in Packet,
         toReceiver' = Append(toReceiver, p),
         lastSeqNum \in Int, lastSeqNum >= -1, lastSeqNum' = lastSeqNum,
         Chained, p.seqNum = 0 \/ Sent(p.seqNum - 1)
  PROVE  /\ Chained' /\ Sent(p.seqNum)'
         /\ \A s : Sent(s) => Sent(s)'
<1>1. /\ Len(toReceiver') = Len(toReceiver) + 1 /\ Len(toReceiver) \in Nat
      /\ \A i \in 1..Len(toReceiver) : toReceiver'[i] = toReceiver[i]
      /\ toReceiver'[Len(toReceiver) + 1] = p
  OBVIOUS
<1>2. \A s : Sent(s) => Sent(s)'
  BY <1>1 DEF Sent, Underway
<1>3. Sent(p.seqNum)'
  BY <1>1 DEF Sent, Underway
<1>4. p.seqNum \in Nat /\ \A i \in 1..Len(toReceiver) : toReceiver[i].seqNum \in Nat
  BY NumbersUnderway DEF Packet
<1>5. ASSUME NEW i \in 1..Len(toReceiver')
      PROVE  \/ toReceiver'[i].seqNum <= lastSeqNum' + 1
             \/ \E j \in 1..(i - 1) : toReceiver'[j].seqNum = toReceiver'[i].seqNum - 1
  <2>1. CASE i \in 1..Len(toReceiver)
    <3>1. \A j \in 1..(i - 1) : toReceiver'[j] = toReceiver[j]
      BY <1>1, <2>1
    <3> QED
      BY <1>1, <2>1, <3>1 DEF Chained
  <2>2. CASE i = Len(toReceiver) + 1
    <3>1. toReceiver'[i] = p /\ i - 1 = Len(toReceiver)
      BY <1>1, <2>2
    <3>2. CASE Underway(p.seqNum - 1)
      BY <1>1, <3>1, <3>2 DEF Underway
    <3>3. CASE p.seqNum = 0 \/ p.seqNum - 1 <= lastSeqNum
      BY <1>4, <3>1, <3>3
    <3> QED
      BY <3>2, <3>3 DEF Sent
  <2> QED
    BY <1>1, <2>1, <2>2
<1> QED
  BY <1>2, <1>3, <1>5 DEF Chained

LEMMA HeadIsNext ==
  ASSUME toReceiver \in Seq(Packet), toReceiver # <<>>, Chained
  PROVE  toReceiver[1].seqNum <= lastSeqNum + 1
BY DEF Chained

(* The receiver takes the first packet, and its number becomes the last    *)
(* one taken unless it was a repetition.                                   *)
LEMMA TakeChains ==
  ASSUME toReceiver \in Seq(Packet), toReceiver # <<>>,
         toReceiver' = Tail(toReceiver),
         lastSeqNum \in Int, lastSeqNum' \in Int, lastSeqNum <= lastSeqNum',
         toReceiver[1].seqNum <= lastSeqNum',
         Chained
  PROVE  Chained' /\ \A s \in Int : Sent(s) => Sent(s)'
<1>1. /\ Len(toReceiver') = Len(toReceiver) - 1 /\ Len(toReceiver) \in Nat
      /\ Len(toReceiver') \in Nat
      /\ \A i \in 1..Len(toReceiver') : toReceiver'[i] = toReceiver[i + 1]
  OBVIOUS
<1>2. \A i \in 1..Len(toReceiver) : toReceiver[i].seqNum \in Nat
  BY NumbersUnderway
<1>3. ASSUME NEW s \in Int, Sent(s) PROVE Sent(s)'
  <2>1. CASE s <= lastSeqNum
    BY <2>1 DEF Sent
  <2>2. CASE Underway(s)
    <3>1. PICK i \in 1..Len(toReceiver) : toReceiver[i].seqNum = s
      BY <2>2 DEF Underway
    <3>2. CASE i = 1
      BY <3>1, <3>2 DEF Sent
    <3>3. CASE i # 1
      <4>1. i - 1 \in 1..Len(toReceiver') /\ toReceiver'[i - 1] = toReceiver[i]
        BY <1>1, <3>3
      <4> QED
        BY <3>1, <4>1 DEF Sent, Underway
    <3> QED
      BY <3>2, <3>3
  <2> QED
    BY <1>3, <2>1, <2>2 DEF Sent
<1>4. ASSUME NEW i \in 1..Len(toReceiver')
      PROVE  \/ toReceiver'[i].seqNum <= lastSeqNum' + 1
             \/ \E j \in 1..(i - 1) : toReceiver'[j].seqNum = toReceiver'[i].seqNum - 1
  <2> DEFINE n == toReceiver[i + 1].seqNum
  <2>1. i + 1 \in 1..Len(toReceiver) /\ toReceiver'[i].seqNum = n /\ n \in Nat
    BY <1>1, <1>2
  <2>2. n <= lastSeqNum + 1 \/ \E j \in 1..i : toReceiver[j].seqNum = n - 1
    BY <2>1 DEF Chained
  <2> HIDE DEF n
  <2>3. CASE n <= lastSeqNum + 1
    BY <2>1, <2>3
  <2>4. ASSUME NEW j \in 1..i, toReceiver[j].seqNum = n - 1
        PROVE  n <= lastSeqNum' + 1 \/ \E k \in 1..(i - 1) : toReceiver'[k].seqNum = n - 1
    <3>1. CASE j = 1
      BY <2>1, <2>4, <3>1
    <3>2. CASE j # 1
      <4>1. j - 1 \in 1..(i - 1) /\ toReceiver'[j - 1] = toReceiver[j]
        BY <1>1, <3>2
      <4> QED
        BY <2>4, <4>1
    <3> QED
      BY <3>1, <3>2
  <2> QED
    BY <2>1, <2>2, <2>3, <2>4
<1> QED
  BY <1>3, <1>4 DEF Chained

-----------------------------------------------------------------------------
(* The sender.                                                             *)

LEMMA SentIntact ==
  /\ FileNamePacket \in Packet /\ FileNamePacket.seqNum = 0 /\ FileNamePacket.crcOk
  /\ \A s \in Nat : /\ DataPacket(s) \in Packet /\ DataPacket(s).seqNum = s
                    /\ DataPacket(s).crcOk
  /\ \A s \in Nat : /\ FinalPacket(s) \in Packet /\ FinalPacket(s).seqNum = s
                    /\ FinalPacket(s).crcOk
BY DEF FileNamePacket, DataPacket, FinalPacket, Packet, PacketTypes

(* What sending a packet does whose predecessor was sent.                  *)
Extended(p) ==
  rstatus = "running" =>
    Chained' /\ Sent(p.seqNum)' /\ \A s : Sent(s) => Sent(s)'

LEMMA SendExtends ==
  ASSUME Ordered, RefinementInv, UNCHANGED receiverVars,
         NEW p \in Packet, Send(p),
         rstatus = "running" => p.seqNum = 0 \/ Sent(p.seqNum - 1)
  PROVE  Extended(p)
<1>1. NetworkTypeOK /\ UNCHANGED <<rstatus, lastSeqNum>>
  BY DEF RefinementInv, VerdictInv, TypeInv, NetworkInv, receiverVars
<1>2. toReceiver \in Seq(Packet) /\ toReceiver' = Append(toReceiver, p)
  BY <1>1, Queue DEF Send
<1>3. ASSUME rstatus = "running" PROVE Chained' /\ Sent(p.seqNum)' /\ \A s : Sent(s) => Sent(s)'
  <2>1. lastSeqNum \in Int /\ lastSeqNum >= -1 /\ Chained
    BY <1>3 DEF RefinementInv, ReceiverFollows, InStep, OrderInv
  <2> QED
    BY <1>1, <1>2, <1>3, <2>1, SendChains
<1> QED
  BY <1>3 DEF Extended

(* Steps that send nothing and keep what the sender may send next.         *)
LEMMA QuietStep ==
  ASSUME RefinementInv, UNCHANGED <<receiverVars, toReceiver>>,
         rstatus = "running" => SenderLeads'
  PROVE  OrderInv'
<1>1. UNCHANGED <<rstatus, lastSeqNum, toReceiver>>
  BY DEF receiverVars
<1>2. rstatus = "running" => Chained'
  BY <1>1 DEF RefinementInv, OrderInv, Chained
<1> QED
  BY <1>1, <1>2 DEF OrderInv

LEMMA SameSent ==
  ASSUME UNCHANGED <<receiverVars, toReceiver>>
  PROVE  \A s : Sent(s)' <=> Sent(s)
BY DEF receiverVars, Sent, Underway

(* Most steps of the sender build no packet.                               *)
LEMMA NothingBuilt ==
  ASSUME RefinementInv, UNCHANGED <<receiverVars, toReceiver, packet, seqNum>>,
         \/ spc # "try" \/ tryCounter > 0
         \/ UNCHANGED <<spc, tryCounter>>
  PROVE  OrderInv'
<1>1. \A s : Sent(s)' <=> Sent(s)
  BY SameSent
<1>2. ASSUME rstatus = "running" PROVE SenderLeads'
  BY <1>1, <1>2 DEF RefinementInv, OrderInv, SenderLeads
<1> QED
  BY <1>2, QuietStep

LEMMA FileNameExtends ==
  ASSUME Ordered, RefinementInv, UNCHANGED receiverVars, SendFileNamePacket
  PROVE  OrderInv'
<1> DEFINE p == PacketError(FileNamePacket)
<1>1. p \in Packet /\ p.seqNum = 0
  BY SentIntact, PacketErrorKeeps
<1>3. Send(p)
  BY DEF SendFileNamePacket
<1>4. Extended(p)
  BY <1>1, <1>3, SendExtends
<1> HIDE DEF p
<1>5. UNCHANGED rstatus /\ seqNum' = seqNum
  BY DEF receiverVars, SendFileNamePacket
<1>6. \A i \in Slots : packet'[i] = packet[i] \/ packet'[i] = 0
  BY DEF SendFileNamePacket, RefinementInv, VerdictInv, TypeInv, SenderInv, SenderTypeOK
<1>7. ASSUME rstatus = "running" PROVE SenderLeads'
  BY <1>1, <1>4, <1>5, <1>6, <1>7 DEF Extended, SenderLeads, RefinementInv, OrderInv
<1> QED
  BY <1>4, <1>5, <1>7 DEF Extended, OrderInv

LEMMA DataExtends ==
  ASSUME Ordered, RefinementInv, UNCHANGED receiverVars, SendDataPacket
  PROVE  OrderInv'
<1>0. /\ SenderTypeOK /\ seqNum \in 1..NumPackets /\ spc = "window"
      /\ rstatus = "running" => SenderLeads
  BY DEF SendDataPacket, RefinementInv, VerdictInv, TypeInv, SenderInv, OrderInv
<1> PICK n \in 1..NumPackets : n = seqNum
  BY <1>0
<1> DEFINE p == PacketError(DataPacket(n))
<1>1. p \in Packet /\ p.seqNum = n
  BY SentIntact, PacketErrorKeeps
<1>3. Send(p)
  BY DEF SendDataPacket
<1> HIDE DEF p
<1>4. rstatus = "running" => Sent(n - 1)
  <2>1. n - 1 \in 0..NumPackets /\ n - 1 < seqNum
    BY <1>0
  <2> QED
    BY <1>0, <2>1 DEF SenderLeads
<1>5. Extended(p)
  BY <1>1, <1>3, <1>4, SendExtends
<1>6. UNCHANGED rstatus /\ seqNum' = n + 1 /\ spc' # "try"
  BY DEF receiverVars, SendDataPacket
<1>7. \A i \in Slots : packet'[i] = packet[i] \/ packet'[i] = n
  BY <1>0 DEF SendDataPacket, SenderTypeOK
<1>8. ASSUME rstatus = "running" PROVE SenderLeads'
  <2>1. Sent(n)' /\ \A s : Sent(s) => Sent(s)'
    BY <1>1, <1>5, <1>8 DEF Extended
  <2>2. Sent(0)'
    BY <1>0, <1>8, <2>1 DEF SenderLeads
  <2>3. ASSUME NEW s \in 0..NumPackets, s < seqNum' PROVE Sent(s)'
    <3>1. s < seqNum \/ s = n
      BY <1>6, <2>3
    <3> QED
      BY <1>0, <1>8, <2>1, <3>1 DEF SenderLeads
  <2>4. ASSUME NEW i \in Slots, packet'[i] > 0 PROVE Sent(packet[i] - 1)'
    <3>1. CASE packet'[i] = packet[i]
      <4>1. PICK m : m = packet[i]
        OBVIOUS
      <4>2. Sent(m - 1)'
        BY <1>0, <1>8, <2>1, <2>4, <3>1, <4>1 DEF SenderLeads
      <4> QED
        BY <3>1, <4>1, <4>2
    <3>2. CASE packet'[i] = n
      <4>1. Sent(n - 1)'
        BY <1>4, <1>8, <2>1
      <4> QED
        BY <3>2, <4>1
    <3> QED
      BY <1>7, <3>1, <3>2
  <2> QED
    BY <2>2, <2>3, <2>4 DEF SenderLeads
<1> QED
  BY <1>5, <1>6, <1>8 DEF Extended, OrderInv

(* A packet sent without building another one: FINAL, or one sent again.   *)
LEMMA PlainSendExtends ==
  ASSUME Ordered, RefinementInv, UNCHANGED <<receiverVars, packet, seqNum>>,
         NEW p \in Packet, Send(p),
         rstatus = "running" => Sent(p.seqNum - 1),
         spc # "try" \/ UNCHANGED <<spc, tryCounter>>
  PROVE  OrderInv'
<1>1. Extended(p)
  BY SendExtends
<1>2. UNCHANGED rstatus
  BY DEF receiverVars
<1>3. ASSUME rstatus = "running" PROVE SenderLeads'
  <2>1. SenderLeads /\ \A s : Sent(s) => Sent(s)'
    BY <1>1, <1>3 DEF Extended, RefinementInv, OrderInv
  <2> QED
    BY <2>1 DEF SenderLeads
<1> QED
  BY <1>1, <1>2, <1>3 DEF Extended, OrderInv

LEMMA FinalExtends ==
  ASSUME Ordered, RefinementInv, UNCHANGED receiverVars, SendFinalPacket
  PROVE  OrderInv'
<1> DEFINE p == PacketError(FinalPacket(NumPackets + 1))
<1>1. seqNum = NumPackets + 1 /\ spc = "final" /\ (rstatus = "running" => SenderLeads)
  BY DEF SendFinalPacket, RefinementInv, VerdictInv, TypeInv, SenderInv, OrderInv
<1>2. p \in Packet /\ p.seqNum = NumPackets + 1
  BY SentIntact, PacketErrorKeeps
<1>3. Send(p) /\ UNCHANGED <<packet, seqNum>>
  BY <1>1 DEF SendFinalPacket, windowVars
<1> HIDE DEF p
<1>4. rstatus = "running" => Sent(p.seqNum - 1)
  BY <1>1, <1>2 DEF SenderLeads
<1> QED
  BY <1>1, <1>2, <1>3, <1>4, PlainSendExtends

LEMMA ResendExtends ==
  ASSUME Ordered, RefinementInv, UNCHANGED receiverVars,
         NEW j \in 1..NumPackets, ResendPacket(j)
  PROVE  OrderInv'
<1> DEFINE p == DataPacket(j)
<1>1. p \in Packet /\ p.seqNum = j
  BY SentIntact
<1>2. Send(p) /\ UNCHANGED <<packet, seqNum, spc, tryCounter>>
  BY DEF ResendPacket, senderVars, windowVars, mainVars
<1> HIDE DEF p
<1>3. packet[j % WindowSize] = j /\ j % WindowSize \in Slots
  BY ModRange DEF ResendPacket, Resendable
<1>4. rstatus = "running" => Sent(p.seqNum - 1)
  BY <1>1, <1>3 DEF RefinementInv, OrderInv, SenderLeads
<1> QED
  BY <1>1, <1>2, <1>4, PlainSendExtends

LEMMA SenderKeepsOrder ==
  ASSUME Ordered, RefinementInv, SenderNext, UNCHANGED receiverVars
  PROVE  OrderInv'
<1>0. SenderInv
  BY DEF RefinementInv, VerdictInv, TypeInv
<1>1. CASE SendFileNamePacket
  BY <1>1, FileNameExtends
<1>2. CASE SendDataPacket
  BY <1>2, DataExtends
<1>3. CASE SendFinalPacket
  BY <1>3, FinalExtends
<1>4. CASE GiveUp
  BY <1>4, NothingBuilt DEF GiveUp, windowVars, networkVars
<1>5. CASE SelectReadable \/ SelectTimeout \/ HandleACK \/ SelectFailure
  <2>1. /\ spc # "try"
        /\ UNCHANGED <<toReceiver, packet, seqNum>>
    BY <1>5 DEF SelectReadable, SelectTimeout, HandleACK, SelectFailure, windowVars, networkVars
  <2> QED
    BY <2>1, NothingBuilt
<1>6. CASE OpenFile
  <2>1. /\ spc = "open" /\ seqNum' = 1 /\ UNCHANGED <<toReceiver, packet>>
    BY <1>6 DEF OpenFile, networkVars
  <2>2. \A s : Sent(s)' <=> Sent(s)
    BY <2>1, SameSent
  <2>3. ASSUME rstatus = "running" PROVE SenderLeads'
    <3>1. SenderLeads /\ Sent(0)
      BY <2>1, <2>3 DEF RefinementInv, OrderInv, SenderLeads
    <3>2. \A s \in 0..NumPackets : s < 1 => s = 0
      OBVIOUS
    <3> QED
      BY <2>1, <2>2, <3>1, <3>2 DEF SenderLeads
  <2> QED
    BY <2>1, <2>3, QuietStep
<1>7. CASE OpenFileFails \/ WaitForWindow \/ LastAcknowledged \/ SpuriousWakeup
  <2>1. spc # "try" /\ UNCHANGED <<toReceiver, packet, seqNum>>
    BY <1>7 DEF OpenFileFails, WaitForWindow, LastAcknowledged, SpuriousWakeup,
       windowVars, networkVars
  <2> QED
    BY <2>1, NothingBuilt
<1>8. CASE StopThreads \/ JoinResend \/ JoinListener
  <2>1. spc # "try" /\ UNCHANGED <<toReceiver, packet, seqNum>>
    BY <1>8 DEF StopThreads, JoinResend, JoinListener, windowVars, networkVars
  <2> QED
    BY <2>1, NothingBuilt
<1>9. CASE ListenerCheck \/ ListenerReceive \/ ResendExit
  <2>1. UNCHANGED <<toReceiver, packet, seqNum, spc, tryCounter>>
    BY <1>9 DEF ListenerCheck, ListenerReceive, ResendExit, mainVars, windowVars, networkVars
  <2> QED
    BY <2>1, NothingBuilt
<1>10. CASE ListenerAcknowledge
  <2>1. UNCHANGED <<toReceiver, packet, seqNum, tryCounter>> /\ spc' \in {spc, Notified(spc)}
    BY <1>10 DEF ListenerAcknowledge, networkVars
  <2>2. spc # "try" \/ UNCHANGED <<spc, tryCounter>>
    BY <2>1 DEF Notified
  <2> QED
    BY <2>1, <2>2, NothingBuilt
<1>11. CASE \E j \in 1..NumPackets : ResendPacket(j)
  BY <1>11, ResendExtends
<1> QED
  BY <1>1, <1>2, <1>3, <1>4, <1>5, <1>6, <1>7, <1>8, <1>9, <1>10, <1>11
     DEF SenderNext, MainNext, ListenerNext, ResendNext

-----------------------------------------------------------------------------
(* The receiver, step by step against FileTransfer.                        *)

LEMMA PrefixEmpty == Prefix(-1) = <<>> /\ Prefix(0) = <<>>
BY DEF Prefix

LEMMA PrefixSeq ==
  ASSUME NEW n \in Nat
  PROVE  Prefix(n) \in Seq(Nat) /\ Len(Prefix(n)) = n
BY DEF Prefix

LEMMA PrefixAppend ==
  ASSUME NEW n \in Nat
  PROVE  Append(Prefix(n), n + 1) = Prefix(n + 1)
BY DEF Prefix

VerdictByDigest == Verdict = IF sha256_ok THEN "confirmed" ELSE "none"

LEMMA VerdictShown ==
  /\ ReceiverFollows => VerdictByDigest
  /\ ReceiverFollows' => VerdictByDigest'
BY DEF ReceiverFollows, Verdict, VerdictByDigest

(* The receiver of an orderly network handles p, as FileTransfer allows.   *)
Takes(p) ==
  /\ ReceiverFollows'
  /\ rstatus' = "running" =>
       lastSeqNum <= lastSeqNum' /\ p.seqNum <= lastSeqNum'
  /\ [Promise!Next]_(Promise!ftVars)

(* A packet the receiver handles is a repetition or the one expected.      *)
Expected(p) ==
  /\ p \in Packet /\ p.crcOk /\ p.type # "SOCKET_ERROR" /\ PacketOK(p)
  /\ p.seqNum <= lastSeqNum + 1
  /\ rstatus = "running" /\ ReceiverFollows

LEMMA Stutters ==
  ASSUME ReceiverFollows, ReceiverFollows', UNCHANGED <<file, sha256_ok, spc>>
  PROVE  [Promise!Next]_(Promise!ftVars)
<1>1. Verdict' = Verdict
  BY VerdictShown DEF VerdictByDigest
<1>2. Report' = Report
  BY DEF Report
<1> QED
  BY <1>1, <1>2 DEF Promise!ftVars

LEMMA ExpectedNumbers ==
  ASSUME NEW p, Expected(p), ~IsDuplicate(p)
  PROVE  /\ p.seqNum = lastSeqNum + 1
         /\ ~BeyondWindow(p)
         /\ p.type = "FILESIZE" => lastSeqNum = -1 /\ baseSeqNum = -1
         /\ p.type # "FILESIZE" => lastSeqNum >= 0 /\ baseSeqNum = p.seqNum
<1>1. /\ p.seqNum \in Nat /\ p.seqNum # lastSeqNum /\ p.seqNum >= baseSeqNum
      /\ p.seqNum <= lastSeqNum + 1
      /\ lastSeqNum \in -1..NumPackets
      /\ lastSeqNum = -1 => baseSeqNum = -1
      /\ lastSeqNum >= 0 => baseSeqNum = lastSeqNum + 1
  BY DEF Expected, Packet, IsDuplicate, ReceiverFollows, InStep
<1>2. p.seqNum = lastSeqNum + 1
  BY <1>1
<1>3. ~BeyondWindow(p)
  BY <1>1, <1>2 DEF BeyondWindow
<1>4. \/ p.type = "FILESIZE" /\ p.seqNum = 0
      \/ p.type # "FILESIZE" /\ p.seqNum >= 1
  BY DEF Expected, PacketOK, Packet, PacketTypes
<1> QED
  BY <1>1, <1>2, <1>3, <1>4

LEMMA DuplicateTaken ==
  ASSUME NEW p, Expected(p), ReceiveDuplicate(p), UNCHANGED spc
  PROVE  Takes(p)
<1>1. UNCHANGED receiverVars /\ IsDuplicate(p)
  BY DEF Expected, ReceiverFollows, ReceiveDuplicate, HandleDuplicatePacket
<1>2. ReceiverFollows'
  BY <1>1 DEF Expected, ReceiverFollows, InStep, receiverVars
<1>3. UNCHANGED <<rstatus, lastSeqNum, file, sha256_ok>>
  BY <1>1 DEF receiverVars
<1>4. p.seqNum <= lastSeqNum /\ lastSeqNum \in Int
  BY <1>1 DEF Expected, IsDuplicate, ReceiverFollows, InStep, Packet
<1>5. [Promise!Next]_(Promise!ftVars)
  BY <1>2, <1>3, Stutters DEF Expected
<1> QED
  BY <1>2, <1>3, <1>4, <1>5 DEF Takes

LEMMA FileSizeTaken ==
  ASSUME NEW p, Expected(p), ~IsDuplicate(p), p.type = "FILESIZE",
         HandleFileSizePacket(p), UNCHANGED spc
  PROVE  Takes(p)
<1>1. p.seqNum = 0 /\ lastSeqNum = -1 /\ p.crcOk
  BY ExpectedNumbers DEF Expected, PacketOK
<1>2. /\ baseSeqNum' = 1 /\ lastSeqNum' = 0
      /\ UNCHANGED <<retryCounter, crc_fail, sha256_ok, arrived, sha256>>
  BY <1>1 DEF HandleFileSizePacket
<1>3. /\ file = <<>> /\ file_out = "null" /\ ~sha256_ok
      /\ arrived = [i \in Slots |-> FALSE] /\ sha256 = <<>>
      /\ retryCounter = 0 /\ ~crc_fail /\ rstatus = "running"
  BY <1>1, PrefixEmpty DEF Expected, ReceiverFollows, InStep
<1>4. \/ rstatus' = "running" /\ fileName' /\ file_out' = "open" /\ file' = <<>>
      \/ rstatus' = "failed" /\ UNCHANGED <<file_out, file>>
  BY <1>1, <1>3 DEF HandleFileSizePacket
<1>5. rstatus' = "running" => InStep'
  BY <1>2, <1>3, <1>4, PrefixEmpty DEF InStep
<1>6. ReceiverFollows'
  BY <1>2, <1>3, <1>4, <1>5 DEF ReceiverFollows
<1>7. file' = file
  BY <1>3, <1>4
<1>8. [Promise!Next]_(Promise!ftVars)
  BY <1>2, <1>6, <1>7, Stutters DEF Expected
<1> QED
  BY <1>1, <1>2, <1>6, <1>8 DEF Takes

(* The next block is delivered.                                            *)
LEMMA DataTaken ==
  ASSUME NEW p, Expected(p), ~IsDuplicate(p), p.type = "DATA",
         HandleDataPacket(p, p.seqNum), UNCHANGED spc
  PROVE  Takes(p)
<1> DEFINE s == p.seqNum
<1>1. s = lastSeqNum + 1 /\ lastSeqNum >= 0 /\ baseSeqNum = s /\ p.crcOk /\ s \in 1..NumPackets
  BY ExpectedNumbers DEF Expected, PacketOK
<1>2. /\ file = Prefix(lastSeqNum) /\ file_out = "open" /\ ~sha256_ok
      /\ arrived = [i \in Slots |-> FALSE] /\ sha256 = <<>>
      /\ retryCounter = 0 /\ ~crc_fail /\ rstatus = "running" /\ fileName
      /\ lastSeqNum \in Nat
  BY <1>1 DEF Expected, ReceiverFollows, InStep
<1>3. s % WindowSize \in Slots /\ (s + 1) % WindowSize \in Slots
  BY <1>1, ModRange
<1>4. ArrivedAfter(p) = arrived
  BY <1>2, <1>3 DEF ArrivedAfter
<1>5. ~LoopRuns(p)
  BY <1>1, <1>2, <1>3, <1>4 DEF LoopRuns
<1>6. WriteData(p, s)
  BY <1>1, <1>2, <1>5 DEF HandleDataPacket, RejectData, BufferData, WriteDataCrash
<1>7. /\ lastSeqNum' = s /\ baseSeqNum' = s + 1 /\ arrived' = arrived
      /\ file' = Append(file, s) /\ ~crc_fail'
      /\ UNCHANGED <<rstatus, retryCounter, sha256_ok, file_out, fileName, sha256>>
  BY <1>1, <1>2, <1>4, <1>5, <1>6 DEF WriteData, Written
<1>8. file' = Prefix(s)
  BY <1>1, <1>2, <1>7, PrefixAppend
<1>9. InStep'
  BY <1>1, <1>2, <1>7, <1>8 DEF InStep
<1>10. ReceiverFollows'
  BY <1>2, <1>7, <1>9 DEF ReceiverFollows
<1>11. Promise!Deliver
  <2>1. Len(file) = lastSeqNum
    BY <1>2, PrefixSeq
  <2>2. Verdict = "none" /\ Verdict' = "none" /\ Report' = Report
    BY <1>2, <1>7, <1>10, VerdictShown DEF VerdictByDigest, Expected, Report
  <2> QED
    BY <1>1, <1>2, <1>7, <2>1, <2>2 DEF Promise!Deliver
<1>12. lastSeqNum <= lastSeqNum' /\ p.seqNum <= lastSeqNum'
  BY <1>1, <1>2, <1>7
<1> QED
  BY <1>10, <1>11, <1>12 DEF Takes, Promise!Next

(* The file is complete and is confirmed.                                  *)
LEMMA FinalTaken ==
  ASSUME NEW p, Expected(p), ~IsDuplicate(p), p.type = "FINAL",
         HandleFinalPacket(p, p.seqNum), UNCHANGED spc
  PROVE  Takes(p)
<1>1. /\ p.seqNum = NumPackets + 1 /\ p.seqNum = lastSeqNum + 1 /\ p.crcOk
      /\ lastSeqNum >= 0 /\ lastSeqNum \in Int
  BY ExpectedNumbers DEF Expected, PacketOK, ReceiverFollows, InStep
<1>2. lastSeqNum = NumPackets
  BY <1>1
<1>3. /\ file = Prefix(NumPackets) /\ file_out = "open" /\ ~sha256_ok
      /\ sha256 = <<>> /\ fileName
      /\ retryCounter = 0 /\ ~crc_fail /\ rstatus = "running"
  BY <1>2 DEF Expected, ReceiverFollows, InStep
<1>4. VerifyFile(p)
  BY <1>1, <1>3 DEF HandleFinalPacket, VerifyFileCrash, RejectFinal
<1>5. sha256' = SentFile
  <2>1. file \in Seq(Nat)
    BY <1>3, PrefixSeq
  <2>2. <<>> \o file = file
    BY <2>1
  <2> QED
    BY <1>3, <1>4, <2>2 DEF VerifyFile, SentFile, Prefix
<1>6. sha256_ok' = TRUE
  BY <1>4, <1>5 DEF VerifyFile, DigestMatches
<1>7. /\ rstatus' = "returned" /\ retryCounter' = 0 /\ file_out' = "closed"
      /\ UNCHANGED <<crc_fail, file>>
  BY <1>3, <1>4, <1>6 DEF VerifyFile
<1>8. ReceiverFollows'
  BY <1>3, <1>6, <1>7 DEF ReceiverFollows
<1>9. Promise!Confirm
  <2>1. Len(file) = NumPackets
    BY <1>3, PrefixSeq
  <2>2. Verdict = "none" /\ Verdict' = "confirmed" /\ Report' = Report
    BY <1>3, <1>6, <1>8, VerdictShown DEF VerdictByDigest, Expected, Report
  <2> QED
    BY <1>7, <2>1, <2>2 DEF Promise!Confirm
<1> QED
  BY <1>7, <1>8, <1>9 DEF Takes, Promise!Next

LEMMA ReceiverKeepsPromise ==
  ASSUME Ordered, RefinementInv, ReceiverNext, UNCHANGED senderVars
  PROVE  /\ ReceiverFollows' /\ OrderInv'
         /\ [Promise!Next]_(Promise!ftVars)
<1>0. /\ NetworkTypeOK /\ ReceiverFollows
      /\ \A p \in InFlight(toReceiver) :
           (p.crcOk \/ p.type = "SOCKET_ERROR") /\ PacketOK(p)
      /\ UNCHANGED <<spc, tryCounter, seqNum, packet>>
  BY DEF RefinementInv, VerdictInv, TypeInv, NetworkInv, PacketsIntact,
     senderVars, mainVars, windowVars
<1>1. PICK p \in Readable(toReceiver) :
        \/ ReceiveError(p) \/ ReceiveDuplicate(p)
        \/ ReceiveOutOfOrder(p) \/ ReceiveFresh(p)
  BY DEF ReceiverNext
<1>2. Receive(p) /\ rstatus = "running" /\ toReceiver' = Take(toReceiver)
  BY <1>1 DEF Receive, ReceiveError, ReceiveDuplicate, ReceiveOutOfOrder, ReceiveFresh
<1>3. p \in Packet /\ p \in InFlight(toReceiver)
  BY <1>0, <1>2, TakeInFlight DEF NetworkTypeOK
<1>4. /\ toReceiver \in Seq(Packet) /\ toReceiver # <<>> /\ p = toReceiver[1]
      /\ toReceiver' = Tail(toReceiver)
  BY <1>0, <1>2, Queue
<1>5. Chained /\ SenderLeads /\ InStep
  BY <1>2 DEF RefinementInv, OrderInv, ReceiverFollows
<1>6. CASE p.type = "SOCKET_ERROR"
  <2>1. ReceiveError(p)
    BY <1>1, <1>6 DEF ReceiveDuplicate, ReceiveOutOfOrder, ReceiveFresh
  <2>2. rstatus' = "failed" /\ UNCHANGED <<retryCounter, crc_fail, sha256_ok, file_out, file>>
    BY <2>1 DEF ReceiveError
  <2>3. ReceiverFollows' /\ OrderInv'
    BY <1>0, <1>2, <2>2 DEF ReceiverFollows, OrderInv
  <2> QED
    BY <1>0, <2>2, <2>3, Stutters
<1>7. CASE p.type # "SOCKET_ERROR"
  <2>1. Expected(p)
    BY <1>0, <1>2, <1>3, <1>4, <1>5, <1>7, HeadIsNext DEF Expected
  <2>2. Takes(p)
    <3>1. CASE ReceiveDuplicate(p)
      BY <1>0, <2>1, <3>1, DuplicateTaken
    <3>2. CASE ReceiveOutOfOrder(p)
      BY <2>1, <3>2, ExpectedNumbers DEF ReceiveOutOfOrder
    <3>3. CASE ReceiveFresh(p)
      BY <1>0, <2>1, <3>3, FileSizeTaken, DataTaken, FinalTaken DEF ReceiveFresh, Fresh
    <3> QED
      BY <1>1, <1>7, <3>1, <3>2, <3>3 DEF ReceiveError
  <2>3. ASSUME rstatus' = "running" PROVE Chained' /\ SenderLeads'
    <3>1. /\ lastSeqNum \in Int /\ lastSeqNum' \in Int /\ lastSeqNum <= lastSeqNum'
          /\ toReceiver[1].seqNum <= lastSeqNum'
      BY <1>4, <1>5, <2>2, <2>3 DEF Takes, ReceiverFollows, InStep
    <3>2. Chained' /\ \A s \in Int : Sent(s) => Sent(s)'
      BY <1>4, <1>5, <3>1, TakeChains
    <3>3. \A i \in Slots : packet[i] \in Int
      BY DEF RefinementInv, VerdictInv, TypeInv, SenderInv, SenderTypeOK
    <3>4. ASSUME NEW i \in Slots, packet[i] > 0 PROVE Sent(packet[i] - 1)'
      <4>1. PICK m \in Int : m = packet[i] - 1
        BY <3>3
      <4>2. Sent(m)'
        BY <1>5, <3>2, <3>4, <4>1 DEF SenderLeads
      <4>3. packet'[i] - 1 = m
        BY <1>0, <4>1
      <4> QED
        BY <4>2, <4>3
    <3> QED
      BY <1>0, <1>5, <3>2, <3>4 DEF SenderLeads
  <2> QED
    BY <2>2, <2>3 DEF Takes, OrderInv
<1> QED
  BY <1>6, <1>7

-----------------------------------------------------------------------------
(* The composition.                                                        *)

LEMMA RefinementInit ==
  ASSUME Ordered, Init
  PROVE  RefinementInv /\ Promise!Init
<1> USE DEF Init, NetworkInit, SenderInit, ReceiverInit
<1>1. VerdictInv
  BY VerdictInit
<1>2. toReceiver = <<>>
  BY DEF EmptyChannel
<1>3. PacketsIntact
  BY <1>2 DEF InFlight, PacketsIntact
<1>4. ReceiverFollows
  BY PrefixEmpty DEF ReceiverFollows, InStep
<1>5. OrderInv
  <2>1. Chained
    BY <1>2 DEF Chained
  <2>2. SenderLeads
    BY DEF SenderLeads
  <2> QED
    BY <2>1, <2>2 DEF OrderInv
<1>6. Promise!Init
  BY DEF Promise!Init, Verdict, Report
<1> QED
  BY <1>1, <1>3, <1>4, <1>5, <1>6 DEF RefinementInv

(* What the sender's steps are to FileTransfer: its exit.                  *)
LEMMA SenderReportsOnce ==
  ASSUME SenderNext, SuccessAfterVerification'
  PROVE  \/ Report' = Report
         \/ Report = "none" /\ Report' = "failure"
         \/ Report = "none" /\ Report' = "success" /\ file_out' = "closed"
<1>1. CASE SendFileNamePacket \/ SendDataPacket \/ SendFinalPacket \/ OpenFile \/ OpenFileFails
           \/ WaitForWindow \/ LastAcknowledged \/ SpuriousWakeup \/ SelectReadable
  BY <1>1 DEF SendFileNamePacket, SendDataPacket, SendFinalPacket, OpenFile, OpenFileFails,
     WaitForWindow, LastAcknowledged, SpuriousWakeup, SelectReadable, Report
<1>2. CASE SelectTimeout \/ SelectFailure \/ HandleACK
  <2>1. /\ spc \in {"select", "recv"}
        /\ spc' \in {"select", "open", "try", "stop"}
    BY <1>2 DEF SelectTimeout, SelectFailure, HandleACK, HandleACKReturns, AttemptSpent
  <2> QED
    BY <2>1 DEF Report
<1>3. CASE GiveUp
  BY <1>3 DEF GiveUp, Report
<1>4. CASE StopThreads \/ JoinResend
  BY <1>4 DEF StopThreads, JoinResend, Report
<1>5. CASE JoinListener
  BY <1>5 DEF JoinListener, Report, SuccessAfterVerification
<1>6. CASE ListenerCheck \/ ListenerReceive \/ ResendNext
  <2>1. UNCHANGED spc
    BY <1>6 DEF ListenerCheck, ListenerReceive, ResendNext, ResendExit, ResendPacket,
       mainVars, senderVars
  <2> QED
    BY <2>1 DEF Report
<1>7. CASE ListenerAcknowledge
  <2>1. spc' \in {spc, Notified(spc)}
    BY <1>7 DEF ListenerAcknowledge
  <2> QED
    BY <2>1 DEF Notified, Report
<1> QED
  BY <1>1, <1>2, <1>3, <1>4, <1>5, <1>6, <1>7 DEF SenderNext, MainNext, ListenerNext

LEMMA SenderKeepsPromise ==
  ASSUME ReceiverFollows, SenderNext, UNCHANGED receiverVars,
         SuccessAfterVerification'
  PROVE  [Promise!Next]_(Promise!ftVars)
<1>1. UNCHANGED <<file, sha256_ok, file_out, rstatus, retryCounter>>
  BY DEF receiverVars
<1>2. Verdict' = Verdict
  BY <1>1 DEF Verdict
<1>3. CASE Report' = Report
  BY <1>1, <1>2, <1>3 DEF Promise!ftVars
<1>4. CASE Report = "none" /\ Report' = "failure"
  BY <1>1, <1>2, <1>4 DEF Promise!Next, Promise!ReportFailure
<1>5. CASE Report = "none" /\ Report' = "success" /\ file_out' = "closed"
  <2>1. Verdict = "confirmed"
    BY <1>1, <1>5, VerdictShown DEF VerdictByDigest, ReceiverFollows
  <2> QED
    BY <1>1, <1>2, <1>5, <2>1 DEF Promise!Next, Promise!ReportSuccess
<1> QED
  BY <1>3, <1>4, <1>5, SenderReportsOnce

(* Nothing of what the refinement speaks of changes.                       *)
LEMMA RefinementStutters ==
  ASSUME RefinementInv, UNCHANGED <<senderVars, receiverVars>>
  PROVE  /\ ReceiverFollows'
         /\ toReceiver' = toReceiver \/ rstatus # "running" => OrderInv'
         /\ [Promise!Next]_(Promise!ftVars)
<1>1. UNCHANGED <<rstatus, lastSeqNum, file, sha256_ok, spc, tryCounter, seqNum, packet>>
  BY DEF senderVars, mainVars, windowVars, receiverVars
<1>2. ReceiverFollows /\ ReceiverFollows'
  BY DEF RefinementInv, ReceiverFollows, InStep, receiverVars
<1>3. toReceiver' = toReceiver \/ rstatus # "running" => OrderInv'
  BY <1>1 DEF RefinementInv, OrderInv, Chained, SenderLeads, Sent, Underway
<1> QED
  BY <1>1, <1>2, <1>3, Stutters

(* A datagram that joins the queue without the sender, behind those it     *)
(* follows: a second copy of the first one, or an error of the socket.     *)
LEMMA JoinKeepsOrder ==
  ASSUME Ordered, RefinementInv, UNCHANGED <<senderVars, receiverVars>>,
         NEW p \in Packet, toReceiver' = Append(toReceiver, p),
         rstatus = "running" => p.seqNum = 0 \/ Sent(p.seqNum - 1)
  PROVE  OrderInv'
<1>1. UNCHANGED <<rstatus, lastSeqNum, spc, tryCounter, seqNum, packet>>
  BY DEF senderVars, mainVars, windowVars, receiverVars
<1>2. toReceiver \in Seq(Packet)
  BY Queue DEF RefinementInv, VerdictInv, TypeInv, NetworkInv
<1>3. ASSUME rstatus = "running" PROVE Chained' /\ SenderLeads'
  <2>1. lastSeqNum \in Int /\ lastSeqNum >= -1 /\ Chained /\ SenderLeads
    BY <1>3 DEF RefinementInv, ReceiverFollows, InStep, OrderInv
  <2>2. Chained' /\ \A s : Sent(s) => Sent(s)'
    BY <1>1, <1>2, <1>3, <2>1, SendChains
  <2> QED
    BY <1>1, <2>1, <2>2 DEF SenderLeads
<1> QED
  BY <1>1, <1>3 DEF OrderInv

LEMMA DuplicateKeepsOrder ==
  ASSUME Ordered, RefinementInv, UNCHANGED <<senderVars, receiverVars>>, DuplicatePacket
  PROVE  OrderInv'
<1>1. toReceiver \in Seq(Packet) /\ toReceiver # <<>>
  BY Queue DEF RefinementInv, VerdictInv, TypeInv, NetworkInv, DuplicatePacket
<1>2. PICK p \in Packet : p = toReceiver[1]
  BY <1>1
<1>3. p.seqNum \in Nat
  BY DEF Packet
<1>4. ASSUME rstatus = "running" PROVE Sent(p.seqNum - 1)
  <2>1. Chained /\ lastSeqNum \in Int
    BY <1>4 DEF RefinementInv, ReceiverFollows, InStep, OrderInv
  <2>2. p.seqNum <= lastSeqNum + 1
    BY <1>1, <1>2, <2>1, HeadIsNext
  <2> QED
    BY <1>3, <2>1, <2>2 DEF Sent
<1>5. toReceiver' = Append(toReceiver, p)
  BY <1>1, <1>2 DEF DuplicatePacket
<1> QED
  BY <1>4, <1>5, JoinKeepsOrder

LEMMA SocketErrorKeepsOrder ==
  ASSUME Ordered, RefinementInv, UNCHANGED <<senderVars, receiverVars>>, SocketErrorAtReceiver
  PROVE  OrderInv'
<1> DEFINE e == [type |-> "SOCKET_ERROR", seqNum |-> 0, crcOk |-> FALSE]
<1>1. e \in Packet /\ e.seqNum = 0
  BY DEF Packet, PacketTypes
<1>2. toReceiver' = Append(toReceiver, e)
  BY DEF SocketErrorAtReceiver, Put
<1> HIDE DEF e
<1> QED
  BY <1>1, <1>2, JoinKeepsOrder

(* Damage leaves the numbers where they are.                               *)
LEMMA CorruptionKeepsOrder ==
  ASSUME Ordered, RefinementInv, UNCHANGED <<senderVars, receiverVars>>, CorruptPacket
  PROVE  OrderInv'
<1>1. toReceiver \in Seq(Packet) /\ toReceiver # <<>>
  BY Queue DEF RefinementInv, VerdictInv, TypeInv, NetworkInv, CorruptPacket, Readable
<1>2. toReceiver[1] \in Packet
  BY <1>1
<1> DEFINE q == [toReceiver[1] EXCEPT !.crcOk = FALSE]
<1>3. q.seqNum = toReceiver[1].seqNum
  BY <1>2 DEF Packet
<1>4. toReceiver' = [toReceiver EXCEPT ![1] = q]
  BY DEF CorruptPacket
<1> HIDE DEF q
<1>5. /\ Len(toReceiver') = Len(toReceiver) /\ Len(toReceiver) \in Nat
      /\ \A i \in 1..Len(toReceiver) : toReceiver'[i].seqNum = toReceiver[i].seqNum
  BY <1>1, <1>3, <1>4
<1>6. UNCHANGED <<rstatus, lastSeqNum, spc, tryCounter, seqNum, packet>>
  BY DEF senderVars, mainVars, windowVars, receiverVars
<1>7. Chained => Chained'
  BY <1>5, <1>6 DEF Chained
<1>8. \A s : Sent(s) => Sent(s)'
  BY <1>5, <1>6 DEF Sent, Underway
<1> QED
  BY <1>6, <1>7, <1>8 DEF RefinementInv, OrderInv, SenderLeads

LEMMA FaultsKeepOrder ==
  ASSUME Ordered, RefinementInv, FaultStep, ~LosePacket
  PROVE  OrderInv'
<1>1. UNCHANGED <<senderVars, receiverVars>> /\ NetworkFault
  BY DEF FaultStep
<1>2. CASE DuplicatePacket
  BY <1>1, <1>2, DuplicateKeepsOrder
<1>3. CASE SocketErrorAtReceiver
  BY <1>1, <1>3, SocketErrorKeepsOrder
<1>4. CASE CorruptPacket
  BY <1>1, <1>4, CorruptionKeepsOrder
<1>5. CASE LoseAnswer \/ DuplicateAnswer \/ CorruptAnswer \/ SocketErrorAtSender
  BY <1>1, <1>5, RefinementStutters
     DEF LoseAnswer, DuplicateAnswer, CorruptAnswer, SocketErrorAtSender
<1> QED
  BY <1>1, <1>2, <1>3, <1>4, <1>5 DEF NetworkFault

LEMMA RefinementStep ==
  ASSUME Ordered, RefinementInv, [Next /\ ~LosePacket /\ PacketsIntact']_vars
  PROVE  RefinementInv' /\ [Promise!Next]_(Promise!ftVars)
<1>0. NetworkTypeOK /\ ReceiverFollows
  BY DEF RefinementInv, VerdictInv, TypeInv, NetworkInv
<1>1. VerdictInv'
  BY VerdictStep DEF RefinementInv
<1>2. SuccessAfterVerification'
  BY <1>1 DEF VerdictInv, SuccessAfterVerification
<1>3. PacketsIntact'
  BY DEF RefinementInv, PacketsIntact, vars, networkVars
<1>4. CASE SenderStep(SenderNext)
  <2>1. SenderNext /\ UNCHANGED receiverVars
    BY <1>4 DEF SenderStep
  <2>2. ReceiverFollows'
    BY <1>0, <2>1 DEF ReceiverFollows, InStep, receiverVars
  <2> QED
    BY <1>0, <1>1, <1>2, <1>3, <2>1, <2>2, SenderKeepsOrder, SenderKeepsPromise
       DEF RefinementInv
<1>5. CASE ReceiverStep(ReceiverNext)
  BY <1>1, <1>3, <1>5, ReceiverKeepsPromise DEF ReceiverStep, RefinementInv
<1>6. CASE FaultStep /\ ~LosePacket
  <2>1. UNCHANGED <<senderVars, receiverVars>>
    BY <1>6 DEF FaultStep
  <2> QED
    BY <1>1, <1>3, <1>6, <2>1, FaultsKeepOrder, RefinementStutters DEF RefinementInv
<1>7. CASE DiscardAtReceiver \/ DiscardAtSender \/ UNCHANGED vars
  <2>1. /\ UNCHANGED <<senderVars, receiverVars>>
        /\ toReceiver' = toReceiver \/ rstatus # "running"
    BY <1>7 DEF DiscardAtReceiver, DiscardAtSender, vars, networkVars
  <2> QED
    BY <1>1, <1>3, <2>1, RefinementStutters DEF RefinementInv
<1> QED
  BY <1>4, <1>5, <1>6, <1>7 DEF Next

(* While the packets that reach the receiver are intact and all there, a   *)
(* transfer keeps the promise of FileTransfer, for every window, file and  *)
(* error period: blocks are written in order and once, the digest is       *)
(* checked when they are complete and matches, the receiver does not       *)
(* crash, and the sender succeeds only then.  Packets may come twice,      *)
(* whatever is lost, repeated or damaged on the way back.  A behaviour may *)
(* stop at any step, so all this holds up to the first packet that         *)
(* packetError spoils or the network loses, in transfers of any length.    *)
THEOREM IntactKeepsPromise == Ordered => (IntactSpec => KeepsPromise)
<1> SUFFICES ASSUME Ordered PROVE IntactSpec => KeepsPromise
  OBVIOUS
<1>1. Init => RefinementInv /\ Promise!Init
  BY RefinementInit
<1>2. RefinementInv /\ [Next /\ ~LosePacket /\ PacketsIntact']_vars =>
        RefinementInv' /\ [Promise!Next]_(Promise!ftVars)
  BY RefinementStep
<1> QED
  BY <1>1, <1>2, PTL DEF IntactSpec, KeepsPromise, Promise!Spec

-----------------------------------------------------------------------------
(* Without faults of the network, only packetError damages packets.  It    *)
(* spoils the numbers n with (n + 1) % ErrorPeriod = 0; the largest number *)
(* is that of FINAL, NumPackets + 1.                                       *)

Orderly == Ordered /\ MaxFaults = 0 /\ ErrorPeriod > NumPackets + 2

LEMMA NothingIsSpoiled ==
  ASSUME Orderly, NEW p \in Packet, p.seqNum <= NumPackets + 1
  PROVE  PacketError(p) = p
<1>1. p.seqNum \in Nat /\ 1 <= p.seqNum + 1 /\ p.seqNum + 1 < ErrorPeriod
  BY DEF Packet, Orderly
<1>2. (p.seqNum + 1) % ErrorPeriod = p.seqNum + 1
  BY <1>1
<1> QED
  BY <1>1, <1>2 DEF PacketError

LEMMA SendKeepsIntact ==
  ASSUME NetworkTypeOK, PacketsIntact, NEW p \in Packet, p.crcOk, Send(p)
  PROVE  PacketsIntact'
<1>1. \A x \in InFlight(toReceiver') : x = p \/ x \in InFlight(toReceiver)
  BY PutInFlight DEF Send, NetworkTypeOK
<1> QED
  BY <1>1 DEF PacketsIntact

LEMMA SenderKeepsIntact ==
  ASSUME Orderly, TypeInv, PacketsIntact, SenderNext
  PROVE  PacketsIntact'
<1>0. NetworkTypeOK /\ SenderInv
  BY DEF TypeInv, NetworkInv
<1>1. CASE SendFileNamePacket
  BY <1>0, <1>1, SentIntact, NothingIsSpoiled, SendKeepsIntact DEF SendFileNamePacket
<1>2. CASE SendDataPacket
  <2>1. PICK n \in Nat : n = seqNum /\ n <= NumPackets
    BY <1>0, <1>2 DEF SendDataPacket, SenderInv, SenderTypeOK
  <2> DEFINE p == DataPacket(n)
  <2>2. p \in Packet /\ p.seqNum = n /\ p.crcOk
    BY SentIntact
  <2>3. PacketError(p) = p
    BY <2>1, <2>2, NothingIsSpoiled
  <2>4. Send(p)
    BY <1>2, <2>1, <2>3 DEF SendDataPacket
  <2> QED
    BY <1>0, <2>2, <2>4, SendKeepsIntact
<1>3. CASE SendFinalPacket
  <2>1. seqNum = NumPackets + 1
    BY <1>0, <1>3 DEF SendFinalPacket, SenderInv
  <2> DEFINE p == FinalPacket(NumPackets + 1)
  <2>2. p \in Packet /\ p.seqNum = NumPackets + 1 /\ p.crcOk
    BY SentIntact
  <2>3. PacketError(p) = p
    BY <2>2, NothingIsSpoiled
  <2>4. Send(p)
    BY <1>3, <2>1, <2>3 DEF SendFinalPacket
  <2> QED
    BY <1>0, <2>2, <2>4, SendKeepsIntact
<1>4. CASE \E j \in 1..NumPackets : ResendPacket(j)
  BY <1>0, <1>4, SentIntact, SendKeepsIntact DEF ResendPacket
<1>5. CASE UNCHANGED toReceiver
  BY <1>5 DEF PacketsIntact
<1> QED
  BY <1>1, <1>2, <1>3, <1>4, <1>5
     DEF SenderNext, MainNext, ListenerNext, ResendNext, GiveUp, SelectReadable,
         SelectTimeout, SelectFailure, HandleACK, OpenFile, OpenFileFails, WaitForWindow,
         LastAcknowledged, SpuriousWakeup, StopThreads, JoinResend, JoinListener,
         ListenerCheck, ListenerReceive, ListenerAcknowledge, ResendExit, networkVars

LEMMA StepKeepsIntact ==
  ASSUME Orderly, TypeInv, PacketsIntact, [Next]_vars
  PROVE  PacketsIntact' /\ ~LosePacket
<1>0. NetworkTypeOK /\ ~Fault
  BY DEF TypeInv, NetworkInv, NetworkTypeOK, Fault, Orderly
<1>1. ~FaultStep /\ ~LosePacket
  BY <1>0 DEF FaultStep, NetworkFault, LosePacket, LoseAnswer, DuplicatePacket,
     DuplicateAnswer, CorruptPacket, CorruptAnswer, SocketErrorAtReceiver, SocketErrorAtSender
<1>2. ASSUME InFlight(toReceiver') \subseteq InFlight(toReceiver) PROVE PacketsIntact'
  BY <1>2 DEF PacketsIntact
<1>3. CASE SenderStep(SenderNext)
  BY <1>1, <1>3, SenderKeepsIntact DEF SenderStep
<1>4. CASE ReceiverStep(ReceiverNext)
  <2>1. \E p \in Readable(toReceiver) : toReceiver' = Take(toReceiver)
    BY <1>4 DEF ReceiverStep, ReceiverNext, Receive, ReceiveError, ReceiveDuplicate,
       ReceiveOutOfOrder, ReceiveFresh
  <2> QED
    BY <1>0, <1>1, <1>2, <2>1, TakeInFlight DEF NetworkTypeOK
<1>5. CASE DiscardAtReceiver
  BY <1>0, <1>1, <1>2, <1>5, TailInFlight, Queue DEF DiscardAtReceiver
<1>6. CASE DiscardAtSender \/ UNCHANGED vars
  <2>1. toReceiver' = toReceiver
    BY <1>6 DEF DiscardAtSender, vars, networkVars
  <2> QED
    BY <1>1, <2>1 DEF PacketsIntact
<1> QED
  BY <1>1, <1>3, <1>4, <1>5, <1>6 DEF Next

(* A transfer over a network that keeps order and has no faults keeps the  *)
(* promise of FileTransfer, whatever timers fire and whatever is sent      *)
(* again.  The file may be longer than the window, as long as packetError  *)
(* spoils none of its numbers; once it does, the promise is broken.        *)
THEOREM TransferKeepsPromise == Orderly => (Spec => KeepsPromise)
<1> SUFFICES ASSUME Orderly PROVE Spec => KeepsPromise
  OBVIOUS
<1>1. Init => RefinementInv /\ Promise!Init
  BY RefinementInit DEF Orderly
<1>2. RefinementInv /\ [Next]_vars => RefinementInv' /\ [Promise!Next]_(Promise!ftVars)
  <2>1. RefinementInv => TypeInv /\ PacketsIntact
    BY DEF RefinementInv, VerdictInv
  <2> QED
    BY <2>1, StepKeepsIntact, RefinementStep DEF Orderly
<1> QED
  BY <1>1, <1>2, PTL DEF Spec, KeepsPromise, Promise!Spec
=============================================================================
