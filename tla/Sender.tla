------------------------------- MODULE Sender -------------------------------
(***************************************************************************)
(* The sending program (Sender.cpp): the main thread, which offers the     *)
(* file name, sends the window of DATA packets and the digest; the ACK     *)
(* listener, which acknowledges slots and slides the window; the resend    *)
(* thread.  The last two live as long as one call of sendDataPackets.      *)
(*                                                                         *)
(* A critical section under ack_mutex is one step.  recvfrom and the       *)
(* critical section that uses its datagram are two.  Both the main thread  *)
(* (in handleACK) and the listener read the same socket.                   *)
(***************************************************************************)
EXTENDS Network

CONSTANTS
  Patient,    \* do timers fire only when every datagram has been handled?
  MaxInFlight \* bound of the model: no timed resend into a longer queue

ASSUME SenderAssumption ==
  /\ Patient \in BOOLEAN
  /\ Patient => Ordered
  /\ MaxInFlight \in Nat

VARIABLES
  spc,          \* where the main thread is
  tryCounter,   \* try_counter of run
  attempts,     \* of handleACK
  expected,     \* expectedType of handleACK
  verdict,      \* what sendDataPackets is about to return
  seqNum,       \* sequence number of the next packet to build
  base,
  nextSeqNum,
  packet,       \* buffer[i].packet, by its sequence number
  acknowledged, \* buffer[i].acknowledged
  lastSentID,   \* slot of the DATA packet sent last
  sendingDone,  \* sendingDoneFlag
  stopAck,      \* stopAckListener
  rpc,          \* resend thread: "off", "run", "exit"
  lpc,          \* ACK listener: "off", "check", "recv", "got", "exit"
  ackPacket     \* the listener's datagram, between recvfrom and its use

mainVars == <<spc, tryCounter, attempts, expected, verdict>>
windowVars == <<seqNum, base, nextSeqNum, packet, acknowledged, lastSentID>>
threadVars == <<sendingDone, stopAck, rpc, lpc, ackPacket>>
senderVars == <<mainVars, windowVars, threadVars>>

MaxRetries == 3
NoAnswer == MakeAnswer("SOCKET_ERROR", 0, FALSE, FALSE)

(* The program counter of the main thread.                                 *)
SenderPoints ==
  {"try", "select", "recv", "open", "window", "windowWait", "last", "lastWait",
   "final", "stop", "joinResend", "joinListener", "success", "failure"}

SenderTypeOK ==
  /\ spc \in SenderPoints
  /\ tryCounter \in 0..3
  /\ attempts \in 0..MaxRetries
  /\ expected \in {"ANSWER_CRC", "ANSWER_SHA"}
  /\ verdict \in BOOLEAN
  /\ seqNum \in 0..(NumPackets + 1)
  /\ base \in 0..(NumPackets + 1)
  /\ nextSeqNum \in 0..(NumPackets + WindowSize + 1)
  /\ packet \in [Slots -> 0..NumPackets]
  /\ acknowledged \in [Slots -> BOOLEAN]
  /\ lastSentID \in Slots
  /\ sendingDone \in BOOLEAN
  /\ stopAck \in BOOLEAN
  /\ rpc \in {"off", "run", "exit"}
  /\ lpc \in {"off", "check", "recv", "got", "exit"}
  /\ ackPacket \in Answer

SenderInit ==
  /\ spc = "try"
  /\ tryCounter = 0
  /\ attempts = 0
  /\ expected = "ANSWER_CRC"
  /\ verdict = FALSE
  /\ seqNum = 0
  /\ base = 0
  /\ nextSeqNum = 0
  /\ packet = [i \in Slots |-> 0]
  /\ acknowledged = [i \in Slots |-> FALSE]
  /\ lastSentID = 0
  /\ sendingDone = FALSE
  /\ stopAck = FALSE
  /\ rpc = "off"
  /\ lpc = "off"
  /\ ackPacket = NoAnswer

-----------------------------------------------------------------------------
(* Helpers.                                                                *)

Send(p) == toReceiver' = Put(toReceiver, p) /\ UNCHANGED <<toSender, faults>>

(* A timeout of select or of a packet may have expired.                    *)
TimeoutMayFire ==
  /\ Patient => toReceiver = <<>> /\ toSender = <<>> /\ lpc # "got"
  /\ Ordered => Len(toReceiver) + Len(toSender) < MaxInFlight

WindowFull == nextSeqNum >= base + WindowSize

(* What handleACK returns to: run, for the name, sendDataPackets for FINAL.*)
HandleACKReturns(ok) ==
  \/ /\ expected = "ANSWER_CRC" /\ ok
     /\ spc' = "open"
     /\ UNCHANGED <<tryCounter, verdict>>
  \/ /\ expected = "ANSWER_CRC" /\ ~ok
     /\ spc' = "try"
     /\ tryCounter' = tryCounter + 1
     /\ UNCHANGED verdict
  \/ /\ expected = "ANSWER_SHA"
     /\ spc' = "stop"
     /\ verdict' = ok
     /\ UNCHANGED tryCounter

(* Mutations of AttemptSpent: one attempt too many, and one that a timeout *)
(* or an unexpected answer does not count.                                 *)
AttemptSpent_OneMore ==
  /\ attempts' = attempts + 1
  /\ UNCHANGED expected
  /\ \/ attempts <= MaxRetries /\ spc' = "select" /\ UNCHANGED <<tryCounter, verdict>>
     \/ attempts > MaxRetries /\ HandleACKReturns(FALSE)
AttemptSpent_Uncounted ==
  spc' = "select" /\ UNCHANGED <<attempts, expected, tryCounter, verdict>>

(* One more attempt is spent.                                              *)
AttemptSpent ==
  /\ attempts' = attempts + 1
  /\ UNCHANGED expected
  /\ \/ /\ attempts' < MaxRetries
        /\ spc' = "select"
        /\ UNCHANGED <<tryCounter, verdict>>
     \/ /\ attempts' = MaxRetries
        /\ HandleACKReturns(FALSE)

ExpectedSeqNum == IF expected = "ANSWER_CRC" THEN 0 ELSE seqNum

(* Mutation of IsExpected: any answer is taken for the expected one.       *)
IsExpected_AnyAnswer(a) == a.type \in {expected, "ANSWER_CRC", "ANSWER_SHA"}

(* The answers handleACK takes for the expected one.                       *)
IsExpected(a) ==
  \/ a.type = expected /\ a.seqNum = ExpectedSeqNum
  \/ a.type = "ANSWER_SHA"

-----------------------------------------------------------------------------
(* The main thread: run and sendFileNamePacket.                            *)

SendFileNamePacket ==
  /\ spc = "try" /\ tryCounter < 3
  /\ packet' = [packet EXCEPT ![0] = 0]
  /\ acknowledged' = [acknowledged EXCEPT ![0] = FALSE]
  /\ Send(PacketError(FileNamePacket))
  /\ spc' = "select"
  /\ attempts' = 0
  /\ expected' = "ANSWER_CRC"
  /\ UNCHANGED <<tryCounter, verdict, seqNum, base, nextSeqNum, lastSentID,
                 threadVars>>

GiveUp ==
  /\ spc = "try" /\ tryCounter = 3
  /\ spc' = "failure"
  /\ UNCHANGED <<tryCounter, attempts, expected, verdict, windowVars,
                 threadVars, networkVars>>

(* handleACK: select, then recvfrom, which blocks if the listener was      *)
(* faster.                                                                 *)
SelectReadable ==
  /\ spc = "select"
  /\ Readable(toSender) # {}
  /\ spc' = "recv"
  /\ UNCHANGED <<tryCounter, attempts, expected, verdict, windowVars,
                 threadVars, networkVars>>

SelectTimeout ==
  /\ spc = "select"
  /\ TimeoutMayFire
  /\ AttemptSpent
  /\ UNCHANGED <<windowVars, threadVars, networkVars>>

SelectFailure ==
  /\ spc = "select"
  /\ Fault
  /\ HandleACKReturns(FALSE)
  /\ UNCHANGED <<attempts, expected, windowVars, threadVars, toReceiver,
                 toSender>>

HandleACK ==
  /\ spc = "recv"
  /\ \E a \in Readable(toSender) :
       /\ toSender' = Take(toSender)
       /\ \/ /\ IsExpected(a)
             /\ HandleACKReturns(IsBufferAllNum(a))
             /\ UNCHANGED <<attempts, expected>>
          \/ /\ ~IsExpected(a)
             /\ AttemptSpent
  /\ UNCHANGED <<windowVars, threadVars, toReceiver, faults>>

-----------------------------------------------------------------------------
(* The main thread: sendDataPackets.                                       *)

(* Neither base and nextSeqNum nor the buffer are reset for a new try.     *)
OpenFile ==
  /\ spc = "open"
  /\ spc' = "window"
  /\ acknowledged' = [acknowledged EXCEPT ![0] = TRUE]
  /\ seqNum' = 1
  /\ sendingDone' = FALSE
  /\ stopAck' = FALSE
  /\ rpc' = "run"
  /\ lpc' = "check"
  /\ UNCHANGED <<tryCounter, attempts, expected, verdict, base, nextSeqNum,
                 packet, lastSentID, ackPacket, networkVars>>

OpenFileFails ==
  /\ spc = "open" /\ OpenMayFail
  /\ acknowledged' = [acknowledged EXCEPT ![0] = TRUE]
  /\ spc' = "try"
  /\ tryCounter' = tryCounter + 1
  /\ UNCHANGED <<attempts, expected, verdict, seqNum, base, nextSeqNum, packet,
                 lastSentID, threadVars, networkVars>>

(* The next packet is stored in its slot, whatever the slot holds, and sent.*)
SendDataPacket ==
  /\ spc = "window"
  /\ seqNum <= NumPackets
  /\ ~WindowFull
  /\ packet' = [packet EXCEPT ![seqNum % WindowSize] = seqNum]
  /\ acknowledged' = [acknowledged EXCEPT ![seqNum % WindowSize] = FALSE]
  /\ lastSentID' = seqNum % WindowSize
  /\ Send(PacketError(DataPacket(seqNum)))
  /\ seqNum' = seqNum + 1
  /\ nextSeqNum' = nextSeqNum + 1
  /\ spc' = IF seqNum = NumPackets THEN "last" ELSE "window"
  /\ UNCHANGED <<tryCounter, attempts, expected, verdict, base, threadVars>>

WaitForWindow ==
  /\ spc = "window"
  /\ seqNum <= NumPackets
  /\ WindowFull
  /\ spc' = "windowWait"
  /\ UNCHANGED <<tryCounter, attempts, expected, verdict, windowVars,
                 threadVars, networkVars>>

(* Mutation of LastAcknowledged: the predicate is not waited for.          *)
LastAcknowledged_NoPredicate ==
  /\ spc = "last"
  /\ spc' = "final"
  /\ UNCHANGED <<tryCounter, attempts, expected, verdict, windowVars,
                 threadVars, networkVars>>

(* ack_cv.wait with the predicate "the packet sent last is acknowledged".  *)
LastAcknowledged ==
  /\ spc = "last"
  /\ spc' = IF acknowledged[lastSentID] THEN "final" ELSE "lastWait"
  /\ UNCHANGED <<tryCounter, attempts, expected, verdict, windowVars,
                 threadVars, networkVars>>

(* A condition variable may wake a waiter nobody notified.                 *)
SpuriousWakeup ==
  /\ \/ spc = "windowWait" /\ spc' = "window"
     \/ spc = "lastWait" /\ spc' = "last"
  /\ UNCHANGED <<tryCounter, attempts, expected, verdict, windowVars,
                 threadVars, networkVars>>

(* FINAL is sent once; the answer expected is the verdict on the digest.   *)
SendFinalPacket ==
  /\ spc = "final"
  /\ Send(PacketError(FinalPacket(seqNum)))
  /\ spc' = "select"
  /\ attempts' = 0
  /\ expected' = "ANSWER_SHA"
  /\ UNCHANGED <<tryCounter, verdict, windowVars, threadVars>>

StopThreads ==
  /\ spc = "stop"
  /\ sendingDone' = TRUE
  /\ spc' = "joinResend"
  /\ UNCHANGED <<tryCounter, attempts, expected, verdict, windowVars, stopAck,
                 rpc, lpc, ackPacket, networkVars>>

(* Mutation of JoinResend: the listener is not told to stop.               *)
JoinResend_NoStop ==
  /\ spc = "joinResend" /\ rpc = "exit"
  /\ spc' = "joinListener"
  /\ UNCHANGED <<tryCounter, attempts, expected, verdict, windowVars,
                 threadVars, networkVars>>

JoinResend ==
  /\ spc = "joinResend" /\ rpc = "exit"
  /\ stopAck' = TRUE
  /\ spc' = "joinListener"
  /\ UNCHANGED <<tryCounter, attempts, expected, verdict, windowVars,
                 sendingDone, rpc, lpc, ackPacket, networkVars>>

JoinListener ==
  /\ spc = "joinListener" /\ lpc = "exit"
  /\ \/ /\ verdict
        /\ spc' = "success"
        /\ UNCHANGED tryCounter
     \/ /\ ~verdict
        /\ spc' = "try"
        /\ tryCounter' = tryCounter + 1
  /\ UNCHANGED <<attempts, expected, verdict, windowVars, threadVars,
                 networkVars>>

MainNext ==
  \/ SendFileNamePacket \/ GiveUp
  \/ SelectReadable \/ SelectTimeout \/ HandleACK
  \/ OpenFile \/ OpenFileFails
  \/ SendDataPacket \/ WaitForWindow \/ LastAcknowledged
  \/ SendFinalPacket \/ StopThreads \/ JoinResend \/ JoinListener

-----------------------------------------------------------------------------
(* The ACK listener.                                                       *)

ListenerCheck ==
  /\ lpc = "check"
  /\ lpc' = IF stopAck THEN "exit" ELSE "recv"
  /\ UNCHANGED <<mainVars, windowVars, sendingDone, stopAck, rpc, ackPacket,
                 networkVars>>

(* recvfrom, and the tests made before the lock is taken.                  *)
ListenerReceive ==
  /\ lpc = "recv"
  /\ \E a \in Readable(toSender) :
       /\ toSender' = Take(toSender)
       /\ \/ /\ a.type = "ANSWER_CRC" /\ IsBufferAllNum(a)
             /\ lpc' = "got"
             /\ ackPacket' = a
          \/ /\ ~(a.type = "ANSWER_CRC" /\ IsBufferAllNum(a))
             /\ lpc' = "check"
             /\ UNCHANGED ackPacket
  /\ UNCHANGED <<mainVars, windowVars, sendingDone, stopAck, rpc, toReceiver,
                 faults>>

(* base slides over acknowledged slots, up to seqNum.                      *)
SlidesTo(b, acks) ==
  /\ b \in base..seqNum
  /\ \A j \in base..(b - 1) : acks[j % WindowSize]
  /\ b = seqNum \/ ~acks[b % WindowSize]

(* Mutation of Notified: one of the two waits is not notified.             *)
Notified_WindowOnly(pc) == IF pc = "windowWait" THEN "window" ELSE pc

(* Where ack_cv.notify_all takes the main thread.                          *)
Notified(pc) ==
  IF pc = "windowWait" THEN "window" ELSE IF pc = "lastWait" THEN "last" ELSE pc

InWindow(s) == base <= s /\ s < base + WindowSize

ListenerAcknowledge ==
  /\ lpc = "got"
  /\ LET s == ackPacket.seqNum
     IN \/ /\ InWindow(s) /\ ~acknowledged[s % WindowSize]
           /\ acknowledged' = [acknowledged EXCEPT ![s % WindowSize] = TRUE]
           /\ \/ base > seqNum /\ base' = base
              \/ \E b \in base..seqNum : SlidesTo(b, acknowledged') /\ base' = b
           /\ spc' = IF base' = base THEN spc ELSE Notified(spc)
        \/ /\ ~(InWindow(s) /\ ~acknowledged[s % WindowSize])
           /\ UNCHANGED <<acknowledged, base, spc>>
  /\ lpc' = "check"
  /\ ackPacket' = NoAnswer
  /\ UNCHANGED <<tryCounter, attempts, expected, verdict, seqNum, nextSeqNum,
                 packet, lastSentID, sendingDone, stopAck, rpc, networkVars>>

ListenerNext == ListenerCheck \/ ListenerReceive \/ ListenerAcknowledge

-----------------------------------------------------------------------------
(* The resend thread.  The packets a pass resends are independent of each  *)
(* other, so a pass is as many steps as it resends packets.  It reads base *)
(* and nextSeqNum, and the buffer, under the lock.                         *)

(* Mutation of Resendable: the bound of the loop is one lower.             *)
Resendable_StopsEarly(j) ==
  /\ base <= j /\ j < nextSeqNum - 1
  /\ packet[j % WindowSize] = j /\ j # 0
  /\ ~acknowledged[j % WindowSize]

Resendable(j) ==
  /\ base <= j /\ j < nextSeqNum
  /\ packet[j % WindowSize] = j /\ j # 0   \* slot 0 may hold the FILESIZE packet
  /\ ~acknowledged[j % WindowSize]

(* packetError is not applied to a packet that is sent again.              *)
ResendPacket(j) ==
  /\ rpc = "run"
  /\ Resendable(j)
  /\ TimeoutMayFire
  /\ Send(DataPacket(j))
  /\ UNCHANGED senderVars

ResendExit ==
  /\ rpc = "run" /\ sendingDone
  /\ rpc' = "exit"
  /\ UNCHANGED <<mainVars, windowVars, sendingDone, stopAck, lpc, ackPacket,
                 networkVars>>

ResendNext == ResendExit \/ \E j \in 1..NumPackets : ResendPacket(j)

(* What a thread does, and what may happen to it.                          *)
SenderNext ==
  \/ MainNext \/ ListenerNext \/ ResendNext
  \/ SelectFailure \/ SpuriousWakeup
=============================================================================
