------------------------------ MODULE Network ------------------------------
(***************************************************************************)
(* The two UDP sockets and the path between them (external: Winsock and    *)
(* the network).  A channel is                                             *)
(*   - a set that is never emptied when the network is not Ordered: what   *)
(*     was sent may be read any number of times, in any order, or never;   *)
(*   - a queue when it is Ordered: nothing is lost, duplicated or damaged  *)
(*     but by the fault actions, which MaxFaults bounds.                   *)
(***************************************************************************)
EXTENDS Packets, Sequences

CONSTANTS
  Ordered,    \* does the network keep the order of datagrams?
  MaxFaults,  \* bound of the model: fault actions in one behaviour
  OpenMayFail \* may fopen fail, at either end?

ASSUME NetworkAssumption ==
  /\ Ordered \in BOOLEAN
  /\ MaxFaults \in Nat
  /\ OpenMayFail \in BOOLEAN

VARIABLES
  toReceiver, \* datagrams on the way to the receiver's socket
  toSender,   \* datagrams on the way to the sender's socket
  faults      \* fault actions so far

networkVars == <<toReceiver, toSender, faults>>

Channel(M)   == IF Ordered THEN Seq(M) ELSE SUBSET M
EmptyChannel == IF Ordered THEN <<>> ELSE {}

(* sendto *)
Put(ch, m) == IF Ordered THEN Append(ch, m) ELSE ch \cup {m}

(* What recvfrom may return next, and the channel it leaves.               *)
Readable(ch) ==
  IF ~Ordered THEN ch ELSE IF ch = <<>> THEN {} ELSE {Head(ch)}
Take(ch) == IF Ordered THEN Tail(ch) ELSE ch

(* All the datagrams of a channel.                                         *)
InFlight(ch) == IF Ordered THEN {ch[i] : i \in 1..Len(ch)} ELSE ch

NetworkTypeOK ==
  /\ toReceiver \in Channel(Packet)
  /\ toSender \in Channel(Answer)
  /\ faults \in 0..MaxFaults

NetworkInit ==
  /\ toReceiver = EmptyChannel
  /\ toSender = EmptyChannel
  /\ faults = 0

-----------------------------------------------------------------------------
(* Faults.  Loss and duplication are implicit when not Ordered.            *)

Fault == faults < MaxFaults /\ faults' = faults + 1

LosePacket ==
  /\ Fault
  /\ Ordered /\ toReceiver # <<>>
  /\ toReceiver' = Tail(toReceiver)
  /\ UNCHANGED toSender

LoseAnswer ==
  /\ Fault
  /\ Ordered /\ toSender # <<>>
  /\ toSender' = Tail(toSender)
  /\ UNCHANGED toReceiver

(* A second copy of the next datagram arrives after those in flight.       *)
DuplicatePacket ==
  /\ Fault
  /\ Ordered /\ toReceiver # <<>>
  /\ toReceiver' = Append(toReceiver, Head(toReceiver))
  /\ UNCHANGED toSender

DuplicateAnswer ==
  /\ Fault
  /\ Ordered /\ toSender # <<>>
  /\ toSender' = Append(toSender, Head(toSender))
  /\ UNCHANGED toReceiver

(* The payload is damaged on the way.  The header is not covered by the    *)
(* CRC; damage to it is not modelled.                                      *)
CorruptPacket ==
  /\ Fault
  /\ \E p \in Readable(toReceiver) :
       toReceiver' = IF Ordered
                     THEN [toReceiver EXCEPT ![1].crcOk = FALSE]
                     ELSE toReceiver \cup {[p EXCEPT !.crcOk = FALSE]}
  /\ UNCHANGED toSender

CorruptAnswer ==
  /\ Fault
  /\ \E a \in Readable(toSender) :
       toSender' = IF Ordered
                   THEN [toSender EXCEPT ![1].result = FALSE]
                   ELSE toSender \cup {[a EXCEPT !.result = FALSE]}
  /\ UNCHANGED toReceiver

(* The next recvfrom of one end returns SOCKET_ERROR (for instance         *)
(* WSAECONNRESET after a datagram hit a closed port).                      *)
SocketErrorAtReceiver ==
  /\ Fault
  /\ toReceiver' = Put(toReceiver, [type |-> "SOCKET_ERROR", seqNum |-> 0, crcOk |-> FALSE])
  /\ UNCHANGED toSender

SocketErrorAtSender ==
  /\ Fault
  /\ toSender' = Put(toSender, MakeAnswer("SOCKET_ERROR", 0, FALSE, FALSE))
  /\ UNCHANGED toReceiver

NetworkFault ==
  \/ LosePacket \/ DuplicatePacket \/ CorruptPacket \/ SocketErrorAtReceiver
  \/ LoseAnswer \/ DuplicateAnswer \/ CorruptAnswer \/ SocketErrorAtSender
=============================================================================
