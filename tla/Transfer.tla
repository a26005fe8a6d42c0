------------------------------ MODULE Transfer ------------------------------
(***************************************************************************)
(* A sender and a receiver that exchange one file: the composition of the  *)
(* two programs over the network, and what holds of a transfer.            *)
(***************************************************************************)
EXTENDS Sender, Receiver

vars == <<senderVars, receiverVars, networkVars>>

Init == NetworkInit /\ SenderInit /\ ReceiverInit

SenderStep(A)   == A /\ UNCHANGED receiverVars
ReceiverStep(A) == A /\ UNCHANGED senderVars

(* A datagram the handshake's select has announced is in the socket, with  *)
(* nobody else to read it: it cannot be lost any more.                     *)
Announced == spc = "recv" /\ expected = "ANSWER_CRC"

FaultStep ==
  /\ NetworkFault
  /\ Ordered /\ Announced => Len(toSender') >= Len(toSender)
  /\ UNCHANGED <<senderVars, receiverVars>>

(* The system drops what arrives for a program that has ended.             *)
DiscardAtReceiver ==
  /\ Ordered /\ rstatus # "running" /\ toReceiver # <<>>
  /\ toReceiver' = Tail(toReceiver)
  /\ UNCHANGED <<senderVars, receiverVars, toSender, faults>>

DiscardAtSender ==
  /\ Ordered /\ spc \in {"success", "failure"} /\ toSender # <<>>
  /\ toSender' = Tail(toSender)
  /\ UNCHANGED <<senderVars, receiverVars, toReceiver, faults>>

Next ==
  \/ SenderStep(SenderNext)
  \/ ReceiverStep(ReceiverNext)
  \/ FaultStep
  \/ DiscardAtReceiver
  \/ DiscardAtSender

Spec == Init /\ [][Next]_vars

(* Every thread keeps running, and gets the mutex it waits for; a packet   *)
(* that stays unacknowledged is sent again, however often other timers     *)
(* fire first.  Nothing makes a fault or a spurious wakeup happen.         *)
Fairness ==
  /\ WF_vars(SenderStep(MainNext))
  /\ WF_vars(SenderStep(ListenerNext))
  /\ WF_vars(SenderStep(ResendExit))
  /\ \A j \in 1..NumPackets : SF_vars(SenderStep(ResendPacket(j)))
  /\ WF_vars(ReceiverStep(ReceiverNext))
  /\ WF_vars(DiscardAtReceiver)

FairSpec == Spec /\ Fairness

-----------------------------------------------------------------------------
(* The types of all the variables, with the bounds the code's guards keep: *)
(* three tries, three attempts, a window that follows base.                *)
TypeOK == NetworkTypeOK /\ SenderTypeOK /\ ReceiverTypeOK

(***************************************************************************)
(* The window and the receiver's buffer.                                   *)
(***************************************************************************)

Holds(s) == slot[s % WindowSize] = s
Acknowledged(s) ==
  s < base \/ (packet[s % WindowSize] = s /\ acknowledged[s % WindowSize])

(* A packet the sender counts as acknowledged, or has slid its window      *)
(* over, is in the receiver's buffer, in whatever order, and however       *)
(* often, packets and answers arrived.  For a file with fewer packets than *)
(* slots, whose last packet is not short.                                  *)
AckedIsHeld ==
  NumPackets < WindowSize /\ ~ShortLast =>
    \A s \in 1..NumPackets : Acknowledged(s) => Holds(s)

(* FINAL is not sent before the receiver holds the last DATA packet.       *)
FinalAfterLast ==
  NumPackets < WindowSize /\ ~ShortLast =>
    \A p \in InFlight(toReceiver) : p.type = "FINAL" => Holds(NumPackets)

(* The main thread never sleeps on a condition that holds: when it waits   *)
(* for space the window is full, and when it waits for the last packet,    *)
(* which an answer that does not slide the window may acknowledge, the     *)
(* window has not reached seqNum, so that a notification is still to come. *)
NoLostWakeup ==
  /\ spc = "windowWait" => WindowFull
  /\ spc = "lastWait" /\ acknowledged[lastSentID] =>
       base < seqNum /\ ~acknowledged[base % WindowSize]

(***************************************************************************)
(* The verdict.                                                            *)
(***************************************************************************)

(* run() of the sender returns 0 only after the receiver has closed and    *)
(* checked the file.                                                       *)
SuccessAfterVerification == spc = "success" => file_out = "closed"

(* The verdict is right in both directions: the digest, an object that is  *)
(* fed and never reset, matches exactly when the closed file is the one    *)
(* sent, whatever was refused, repeated or written before.                 *)
VerdictIsRight == file_out = "closed" => (sha256_ok <=> file = SentFile)

(***************************************************************************)
(* While no packet is lost or damaged, a network that keeps order          *)
(* implements FileTransfer, for files longer than the window too.          *)
(***************************************************************************)

(* packetError has spoiled no packet underway, and neither has the network.*)
PacketsIntact ==
  \A p \in InFlight(toReceiver) : p.crcOk \/ p.type = "SOCKET_ERROR"

(* Packets may come twice, answers may be lost, repeated and damaged, and  *)
(* the sockets may fail.                                                   *)
IntactSpec == Init /\ [][Next /\ ~LosePacket /\ PacketsIntact']_vars

Verdict ==
  IF rstatus = "crashed" THEN "crashed"
  ELSE IF sha256_ok THEN "confirmed"
  ELSE IF retryCounter > 0 THEN "rejected"
  ELSE "none"

Report == IF spc \in {"success", "failure"} THEN spc ELSE "none"

Promise == INSTANCE FileTransfer
             WITH delivered <- file, verdict <- Verdict, report <- Report

(* Blocks reach the file in order and exactly once, the file is confirmed  *)
(* when complete and never rejected, the receiver does not crash, and the  *)
(* sender reports success only afterwards, whatever timers fire, as long   *)
(* as the packets that reach the receiver are intact and all there.        *)
KeepsPromise == Promise!Spec

(***************************************************************************)
(* Progress.                                                               *)
(***************************************************************************)

(* Without faults the receiver eventually confirms a file that fits the   *)
(* window: no thread waits for what another one no longer does.            *)
EventuallyConfirmed ==
  [](faults = 0) => <>(sha256_ok /\ rstatus = "returned")

(* The wait for the answer to the file name ends, whatever is lost.        *)
Handshaking == spc \in {"select", "recv"} /\ expected = "ANSWER_CRC"
HandshakeEnds == Handshaking ~> ~Handshaking

(* Every DATA packet but the last one is resent until the receiver holds   *)
(* it, or one of the two programs stops.                                   *)
LossIsRepaired ==
  \A s \in 1..(NumPackets - 1) :
    (spc = "window" /\ s < seqNum) ~>
      (Holds(s) \/ rstatus # "running" \/ sendingDone)

(* The listener sees that it must stop unless it has entered recvfrom      *)
(* already, and then as soon as one more datagram comes that nobody loses: *)
(* the main thread does not wait longer for it to end.                     *)
ListenerWillSeeStop ==
  \/ lpc # "recv"
  \/ faults = MaxFaults /\ toSender # EmptyChannel
JoinEnds ==
  (spc = "joinListener" /\ ListenerWillSeeStop) ~> spc # "joinListener"
=============================================================================
