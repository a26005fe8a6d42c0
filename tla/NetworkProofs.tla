--------------------------- MODULE NetworkProofs ---------------------------
(***************************************************************************)
(* What sending, receiving and faults do to a channel, for either kind of  *)
(* network.                                                                *)
(***************************************************************************)
EXTENDS Network, TLAPS

(* A datagram that is sent joins those underway.                           *)
LEMMA PutInFlight ==
  ASSUME NEW M, NEW ch \in Channel(M), NEW m \in M
  PROVE  /\ Put(ch, m) \in Channel(M)
         /\ \A x \in InFlight(Put(ch, m)) : x = m \/ x \in InFlight(ch)
<1>1. CASE Ordered
  <2>1. ch \in Seq(M)
    BY <1>1 DEF Channel
  <2>2. Append(ch, m) \in Seq(M)
    BY <2>1
  <2>3. ASSUME NEW x \in InFlight(Append(ch, m)) PROVE x = m \/ x \in InFlight(ch)
    <3>1. PICK i \in 1..Len(Append(ch, m)) : x = Append(ch, m)[i]
      BY <1>1, <2>3 DEF InFlight
    <3>2. i \in 1..Len(ch) \/ i = Len(ch) + 1
      BY <2>1, <3>1
    <3> QED
      BY <1>1, <2>1, <3>1, <3>2 DEF InFlight
  <2> QED
    BY <1>1, <2>2, <2>3 DEF Put, Channel
<1>2. CASE ~Ordered
  BY <1>2 DEF Put, Channel, InFlight
<1> QED
  BY <1>1, <1>2

(* A datagram that is read was underway, and nothing new is afterwards.    *)
LEMMA TakeInFlight ==
  ASSUME NEW M, NEW ch \in Channel(M), NEW m \in Readable(ch)
  PROVE  /\ m \in M /\ m \in InFlight(ch)
         /\ Take(ch) \in Channel(M)
         /\ InFlight(Take(ch)) \subseteq InFlight(ch)
<1>1. CASE Ordered
  <2>1. ch \in Seq(M) /\ ch # <<>> /\ m = Head(ch)
    BY <1>1 DEF Channel, Readable
  <2>2. Len(ch) >= 1 /\ m = ch[1] /\ m \in M
    BY <2>1
  <2>3. Tail(ch) \in Seq(M) /\ Len(Tail(ch)) = Len(ch) - 1
        /\ \A i \in 1..Len(Tail(ch)) : Tail(ch)[i] = ch[i + 1]
    BY <2>1
  <2> QED
    BY <1>1, <2>2, <2>3, <2>1 DEF Take, Channel, InFlight
<1>2. CASE ~Ordered
  BY <1>2 DEF Take, Channel, InFlight, Readable
<1> QED
  BY <1>1, <1>2

(* The datagrams an ordered channel holds, without the first one.          *)
LEMMA TailInFlight ==
  ASSUME NEW M, NEW ch \in Seq(M), ch # <<>>, Ordered
  PROVE  /\ Tail(ch) \in Channel(M)
         /\ InFlight(Tail(ch)) \subseteq InFlight(ch)
BY DEF Channel, InFlight

(* The first datagram of an ordered channel.                               *)
LEMMA HeadInFlight ==
  ASSUME NEW M, NEW ch \in Seq(M), ch # <<>>, Ordered
  PROVE  Head(ch) \in M /\ Head(ch) \in InFlight(ch)
BY DEF InFlight

-----------------------------------------------------------------------------
(* p differs from a packet underway in its payload only, or announces an   *)
(* error of the socket.                                                    *)
PacketFrom(p, ch) ==
  \/ p.type = "SOCKET_ERROR"
  \/ \E q \in InFlight(ch) : p.type = q.type /\ p.seqNum = q.seqNum

AnswerFrom(a, ch) ==
  \/ a.type = "SOCKET_ERROR" /\ a.seqNum = 0
  \/ \E b \in InFlight(ch) :
       /\ a.type = b.type /\ a.seqNum = b.seqNum /\ a.short = b.short
       /\ a.result => b.result

(* Faults may damage payloads, but they make no packet up.                 *)
LEMMA FaultsMakeNothingUp ==
  ASSUME NetworkTypeOK, NetworkFault
  PROVE  /\ toReceiver' \in Channel(Packet)
         /\ \A p \in InFlight(toReceiver') : PacketFrom(p, toReceiver)
         /\ toSender' \in Channel(Answer)
         /\ \A a \in InFlight(toSender') : AnswerFrom(a, toSender)
<1> USE DEF NetworkTypeOK
<1>p. \A p \in InFlight(toReceiver) : PacketFrom(p, toReceiver)
  BY DEF PacketFrom
<1>a. \A a \in InFlight(toSender) : AnswerFrom(a, toSender)
  BY DEF AnswerFrom
<1>1. CASE LosePacket
  <2>1. toReceiver \in Seq(Packet)
    BY <1>1 DEF LosePacket, Channel
  <2> QED
    BY <1>1, <1>p, <1>a, <2>1, TailInFlight DEF LosePacket
<1>2. CASE LoseAnswer
  <2>1. toSender \in Seq(Answer)
    BY <1>2 DEF LoseAnswer, Channel
  <2> QED
    BY <1>2, <1>p, <1>a, <2>1, TailInFlight DEF LoseAnswer
<1>3. CASE DuplicatePacket
  <2>1. toReceiver \in Seq(Packet) /\ toReceiver # <<>> /\ Ordered
    BY <1>3 DEF DuplicatePacket, Channel
  <2>2. Head(toReceiver) \in Packet /\ Head(toReceiver) \in InFlight(toReceiver)
    BY <2>1, HeadInFlight
  <2>3. toReceiver' = Put(toReceiver, Head(toReceiver)) /\ UNCHANGED toSender
    BY <1>3, <2>1 DEF DuplicatePacket, Put
  <2> QED
    BY <1>p, <1>a, <2>2, <2>3, PutInFlight
<1>4. CASE DuplicateAnswer
  <2>1. toSender \in Seq(Answer) /\ toSender # <<>> /\ Ordered
    BY <1>4 DEF DuplicateAnswer, Channel
  <2>2. Head(toSender) \in Answer /\ Head(toSender) \in InFlight(toSender)
    BY <2>1, HeadInFlight
  <2>3. toSender' = Put(toSender, Head(toSender)) /\ UNCHANGED toReceiver
    BY <1>4, <2>1 DEF DuplicateAnswer, Put
  <2> QED
    BY <1>p, <1>a, <2>2, <2>3, PutInFlight
<1>5. CASE CorruptPacket
  <2>1. CASE Ordered
    <3>1. toReceiver \in Seq(Packet) /\ toReceiver # <<>>
      BY <1>5, <2>1 DEF CorruptPacket, Channel, Readable
    <3>2. toReceiver[1] \in Packet /\ 1 \in 1..Len(toReceiver)
      BY <3>1
    <3> DEFINE q == [toReceiver[1] EXCEPT !.crcOk = FALSE]
    <3>3. q \in Packet /\ q.type = toReceiver[1].type /\ q.seqNum = toReceiver[1].seqNum
      BY <3>2 DEF Packet
    <3>4. toReceiver' = [toReceiver EXCEPT ![1] = q] /\ UNCHANGED toSender
      BY <1>5, <2>1 DEF CorruptPacket
    <3> HIDE DEF q
    <3>5. toReceiver' \in Seq(Packet) /\ Len(toReceiver') = Len(toReceiver)
          /\ \A i \in 1..Len(toReceiver) : toReceiver'[i] = IF i = 1 THEN q ELSE toReceiver[i]
      BY <3>1, <3>2, <3>3, <3>4
    <3>6. ASSUME NEW p \in InFlight(toReceiver') PROVE PacketFrom(p, toReceiver)
      <4>1. PICK i \in 1..Len(toReceiver) : p = toReceiver'[i]
        BY <2>1, <3>5 DEF InFlight
      <4>2. toReceiver[i] \in InFlight(toReceiver)
        BY <2>1 DEF InFlight
      <4> QED
        BY <3>3, <3>5, <4>1, <4>2 DEF PacketFrom
    <3> QED
      BY <1>a, <2>1, <3>4, <3>5, <3>6 DEF Channel
  <2>2. CASE ~Ordered
    <3>1. PICK p \in toReceiver : /\ toReceiver' = toReceiver \cup {[p EXCEPT !.crcOk = FALSE]}
                                  /\ UNCHANGED toSender
      BY <1>5, <2>2 DEF CorruptPacket, Readable
    <3>2. toReceiver \subseteq Packet /\ InFlight(toReceiver) = toReceiver
          /\ InFlight(toReceiver') = toReceiver'
      BY <2>2 DEF Channel, InFlight
    <3>3. [p EXCEPT !.crcOk = FALSE] \in Packet /\ PacketFrom([p EXCEPT !.crcOk = FALSE], toReceiver)
      BY <3>1, <3>2 DEF Packet, PacketFrom
    <3> QED
      BY <1>p, <1>a, <2>2, <3>1, <3>2, <3>3 DEF Channel
  <2> QED
    BY <2>1, <2>2
<1>6. CASE CorruptAnswer
  <2>1. CASE Ordered
    <3>1. toSender \in Seq(Answer) /\ toSender # <<>>
      BY <1>6, <2>1 DEF CorruptAnswer, Channel, Readable
    <3>2. toSender[1] \in Answer /\ 1 \in 1..Len(toSender)
      BY <3>1
    <3> DEFINE q == [toSender[1] EXCEPT !.result = FALSE]
    <3>3. q \in Answer /\ q.type = toSender[1].type /\ q.seqNum = toSender[1].seqNum
          /\ q.short = toSender[1].short /\ ~q.result
      BY <3>2 DEF Answer
    <3>4. toSender' = [toSender EXCEPT ![1] = q] /\ UNCHANGED toReceiver
      BY <1>6, <2>1 DEF CorruptAnswer
    <3> HIDE DEF q
    <3>5. toSender' \in Seq(Answer) /\ Len(toSender') = Len(toSender)
          /\ \A i \in 1..Len(toSender) : toSender'[i] = IF i = 1 THEN q ELSE toSender[i]
      BY <3>1, <3>2, <3>3, <3>4
    <3>6. ASSUME NEW a \in InFlight(toSender') PROVE AnswerFrom(a, toSender)
      <4>1. PICK i \in 1..Len(toSender) : a = toSender'[i]
        BY <2>1, <3>5 DEF InFlight
      <4>2. toSender[i] \in InFlight(toSender)
        BY <2>1 DEF InFlight
      <4> QED
        BY <3>3, <3>5, <4>1, <4>2 DEF AnswerFrom
    <3> QED
      BY <1>p, <2>1, <3>4, <3>5, <3>6 DEF Channel
  <2>2. CASE ~Ordered
    <3>1. PICK a \in toSender : /\ toSender' = toSender \cup {[a EXCEPT !.result = FALSE]}
                                /\ UNCHANGED toReceiver
      BY <1>6, <2>2 DEF CorruptAnswer, Readable
    <3>2. toSender \subseteq Answer /\ InFlight(toSender) = toSender
          /\ InFlight(toSender') = toSender'
      BY <2>2 DEF Channel, InFlight
    <3>3. [a EXCEPT !.result = FALSE] \in Answer /\ AnswerFrom([a EXCEPT !.result = FALSE], toSender)
      BY <3>1, <3>2 DEF Answer, AnswerFrom
    <3> QED
      BY <1>p, <1>a, <2>2, <3>1, <3>2, <3>3 DEF Channel
  <2> QED
    BY <2>1, <2>2
<1>7. CASE SocketErrorAtReceiver
  <2> DEFINE e == [type |-> "SOCKET_ERROR", seqNum |-> 0, crcOk |-> FALSE]
  <2>1. e \in Packet /\ PacketFrom(e, toReceiver)
    BY DEF Packet, PacketTypes, PacketFrom
  <2>2. toReceiver' = Put(toReceiver, e) /\ UNCHANGED toSender
    BY <1>7 DEF SocketErrorAtReceiver
  <2> HIDE DEF e
  <2> QED
    BY <1>p, <1>a, <2>1, <2>2, PutInFlight
<1>8. CASE SocketErrorAtSender
  <2> DEFINE e == MakeAnswer("SOCKET_ERROR", 0, FALSE, FALSE)
  <2>1. e \in Answer /\ AnswerFrom(e, toSender)
    BY DEF Answer, AnswerTypes, AnswerFrom, MakeAnswer
  <2>2. toSender' = Put(toSender, e) /\ UNCHANGED toReceiver
    BY <1>8 DEF SocketErrorAtSender
  <2> HIDE DEF e
  <2> QED
    BY <1>p, <1>a, <2>1, <2>2, PutInFlight
<1> QED
  BY <1>1, <1>2, <1>3, <1>4, <1>5, <1>6, <1>7, <1>8 DEF NetworkFault
=============================================================================
