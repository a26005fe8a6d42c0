------------------------------ MODULE Packets ------------------------------
(***************************************************************************)
(* The datagrams both programs exchange (struct Packet of utils.h) and the *)
(* two decisions taken on their payload: does the CRC of the payload match *)
(* and is an answer "all ones".                                            *)
(*                                                                         *)
(* A payload is determined by the type and the sequence number of its      *)
(* packet (DATA s carries block s of the file, FINAL the digest), so it is *)
(* not part of the record; crcOk says whether it still matches its CRC.    *)
(***************************************************************************)
EXTENDS Integers

CONSTANTS
  WindowSize,   \* WINDOW_SIZE, 5 in the code
  NumPackets,   \* number of DATA packets the file is cut into
  ErrorPeriod,  \* packetError spoils every 10th sequence number
  ShortLast     \* does the last DATA packet carry at most TOLERANCE bytes?

(* An empty file is left out: lastSentID is read uninitialised for it.     *)
ASSUME PacketsAssumption ==
  /\ WindowSize \in Nat \ {0}
  /\ NumPackets \in Nat \ {0}
  /\ ErrorPeriod \in Nat \ {0, 1}
  /\ ShortLast \in BOOLEAN

-----------------------------------------------------------------------------
(* Packets from the sender, and answers from the receiver.                 *)

Slots == 0..(WindowSize - 1)    \* of the window buffer each side keeps

PacketTypes == {"FILESIZE", "DATA", "FINAL", "SOCKET_ERROR"}
AnswerTypes == {"ANSWER_CRC", "ANSWER_SHA", "SOCKET_ERROR"}

Packet == [type: PacketTypes, seqNum: Nat, crcOk: BOOLEAN]

(* result is the byte the answer is filled with (1 or 0); short says that  *)
(* its dataSize does not exceed TOLERANCE.                                 *)
Answer == [type: AnswerTypes, seqNum: Nat, result: BOOLEAN, short: BOOLEAN]

FileNamePacket == [type |-> "FILESIZE", seqNum |-> 0, crcOk |-> TRUE]
DataPacket(s)  == [type |-> "DATA", seqNum |-> s, crcOk |-> TRUE]
FinalPacket(s) == [type |-> "FINAL", seqNum |-> s, crcOk |-> TRUE]

(* packetError: the test hook that damages the first copy of some packets. *)
PacketError(p) ==
  IF (p.seqNum + 1) % ErrorPeriod = 0 THEN [p EXCEPT !.crcOk = FALSE] ELSE p

(* dataSize <= TOLERANCE, for the packet an answer copies its size from:   *)
(* names and digests are at most 64 bytes, DATA is 1011 except at the end. *)
Short(p) ==
  \/ p.type \in {"FILESIZE", "FINAL"}
  \/ p.seqNum = NumPackets /\ ShortLast

MakeAnswer(type, seqNum, result, short) ==
  [type |-> type, seqNum |-> seqNum, result |-> result, short |-> short]

(* isBufferAllNum(data, dataSize, 1) tolerates TOLERANCE wrong bytes, so   *)
(* it accepts every answer that is no longer than TOLERANCE.               *)
IsBufferAllNum(a) == a.result \/ a.short
=============================================================================
