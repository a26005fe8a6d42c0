------------------------------ MODULE Receiver ------------------------------
(***************************************************************************)
(* The receiving program (Receiver.cpp): one thread that reads a datagram, *)
(* handles it and answers, until the digest matched or three digests did   *)
(* not.  Every iteration of run() is one step; its variables are the       *)
(* members of class Receiver, and the file it writes.                      *)
(*                                                                         *)
(* Undefined behaviour.  fwrite and fclose on a stream already closed      *)
(* either have no effect or end the program; fwrite and fclose on a null   *)
(* stream, and ifstream on a null name, end it; fwrite of a slot that was  *)
(* never filled writes garbage, nothing, or ends it.                       *)
(***************************************************************************)
EXTENDS Network

VARIABLES
  rstatus,      \* "running", "returned", "failed" (error return), "crashed"
  retryCounter,
  lastSeqNum,
  baseSeqNum,
  crc_fail,
  sha256_ok,
  file_out,     \* the stream: "null", "open" or "closed" (never reset)
  fileName,     \* is fileName not null?
  slot,         \* buffer[i].packet, by its sequence number
  arrived,      \* buffer[i].arrived
  file,         \* blocks in the output file
  sha256        \* blocks fed to the digest so far; the digest is injective

receiverVars == <<rstatus, retryCounter, lastSeqNum, baseSeqNum, crc_fail,
                  sha256_ok, file_out, fileName, slot, arrived, file, sha256>>

Garbage == 0            \* what a slot holds before anything is stored
Blocks  == 0..NumPackets
SentFile == [s \in 1..NumPackets |-> s]

ReceiverTypeOK ==
  /\ rstatus \in {"running", "returned", "failed", "crashed"}
  /\ retryCounter \in 0..3
  /\ lastSeqNum \in -1..(NumPackets + 1)
  /\ baseSeqNum \in -1..(NumPackets + 2)
  /\ crc_fail \in BOOLEAN
  /\ sha256_ok \in BOOLEAN
  /\ file_out \in {"null", "open", "closed"}
  /\ fileName \in BOOLEAN
  /\ slot \in [Slots -> Blocks]
  /\ arrived \in [Slots -> BOOLEAN]
  /\ file \in Seq(Blocks)
  /\ sha256 \in Seq(Blocks)

ReceiverInit ==
  /\ rstatus = "running"
  /\ retryCounter = 0
  /\ lastSeqNum = -1
  /\ baseSeqNum = -1
  /\ crc_fail = FALSE
  /\ sha256_ok = FALSE
  /\ file_out = "null"
  /\ fileName = FALSE
  /\ slot = [i \in Slots |-> Garbage]
  /\ arrived = [i \in Slots |-> FALSE]
  /\ file = <<>>
  /\ sha256 = <<>>

-----------------------------------------------------------------------------

Reply(a) == toSender' = Put(toSender, a)

CrcAnswer(p, result) == MakeAnswer("ANSWER_CRC", p.seqNum, result, Short(p))

(* The program ends inside a handler; nothing of its memory matters then.  *)
Crash ==
  /\ rstatus' = "crashed"
  /\ UNCHANGED <<retryCounter, lastSeqNum, baseSeqNum, crc_fail, sha256_ok,
                 file_out, fileName, slot, arrived, file, sha256>>

(***************************************************************************)
(* handleFileSizePacket.  The answer is sent before the file is opened,    *)
(* and baseSeqNum is set whatever the CRC said.  The answer fills the      *)
(* whole data array, so it is never short.                                 *)
(***************************************************************************)
HandleFileSizePacket(p) ==
  /\ baseSeqNum' = p.seqNum + 1
  /\ lastSeqNum' = p.seqNum
  /\ Reply(MakeAnswer("ANSWER_CRC", p.seqNum, p.crcOk, FALSE))
  /\ \/ /\ p.crcOk
        /\ fileName' = TRUE
        /\ file_out' = "open"
        /\ file' = <<>>
        /\ UNCHANGED rstatus
     \/ /\ p.crcOk /\ OpenMayFail       \* malloc or fopen fails: exception
        /\ rstatus' = "failed"
        /\ UNCHANGED <<fileName, file_out, file>>
     \/ /\ ~p.crcOk
        /\ UNCHANGED <<fileName, file_out, file, rstatus>>
  /\ UNCHANGED <<retryCounter, crc_fail, sha256_ok, slot, arrived, sha256>>

(***************************************************************************)
(* handleDataPacket.  last is the value of lastSeqNum the caller leaves.   *)
(***************************************************************************)
(* Mutation of RejectData: the answer does not carry the CRC's verdict.    *)
RejectData_Acks(p, last) ==
  /\ ~p.crcOk
  /\ crc_fail' = TRUE
  /\ lastSeqNum' = last
  /\ Reply(CrcAnswer(p, TRUE))
  /\ UNCHANGED <<rstatus, retryCounter, baseSeqNum, sha256_ok, file_out,
                 fileName, slot, arrived, file, sha256>>

RejectData(p, last) ==
  /\ ~p.crcOk
  /\ crc_fail' = TRUE
  /\ lastSeqNum' = last
  /\ Reply(CrcAnswer(p, FALSE))
  /\ UNCHANGED <<rstatus, retryCounter, baseSeqNum, sha256_ok, file_out,
                 fileName, slot, arrived, file, sha256>>

BufferData(p, last) ==
  /\ p.crcOk /\ p.seqNum # baseSeqNum
  /\ slot' = [slot EXCEPT ![p.seqNum % WindowSize] = p.seqNum]
  /\ arrived' = [arrived EXCEPT ![p.seqNum % WindowSize] = TRUE]
  /\ lastSeqNum' = last
  /\ Reply(CrcAnswer(p, TRUE))
  /\ UNCHANGED <<rstatus, retryCounter, baseSeqNum, crc_fail, sha256_ok,
                 file_out, fileName, file, sha256>>

(* The slots once the packet at baseSeqNum is stored and written.          *)
SlotWith(p)     == [slot EXCEPT ![p.seqNum % WindowSize] = p.seqNum]
ArrivedAfter(p) == [arrived EXCEPT ![p.seqNum % WindowSize] = FALSE]

(* The loop "write all packets in order" goes on iff the slot of the new   *)
(* baseSeqNum is marked.  Its body clears the mark its next test reads, so *)
(* it runs at most once.  It moves baseSeqNum first and then writes and    *)
(* clears the slot of the NEW value.                                       *)
LoopRuns(p)    == ArrivedAfter(p)[(baseSeqNum + 1) % WindowSize]
DrainedSlot(p) == (baseSeqNum + 2) % WindowSize

(* fwrite(block) on file_out, which is not null.                           *)
Written(f, block) == IF file_out = "open" THEN Append(f, block) ELSE f

WriteData(p, last) ==
  /\ p.crcOk /\ p.seqNum = baseSeqNum
  /\ file_out # "null"
  /\ crc_fail' = FALSE
  /\ slot' = SlotWith(p)
  /\ lastSeqNum' = last
  /\ \/ /\ ~LoopRuns(p)
        /\ baseSeqNum' = baseSeqNum + 1
        /\ arrived' = ArrivedAfter(p)
        /\ file' = Written(file, p.seqNum)
     \/ /\ LoopRuns(p)
        /\ baseSeqNum' = baseSeqNum + 2
        /\ arrived' = [ArrivedAfter(p) EXCEPT ![DrainedSlot(p)] = FALSE]
        /\ \/ file' = Written(Written(file, p.seqNum), SlotWith(p)[DrainedSlot(p)])
           \/ /\ SlotWith(p)[DrainedSlot(p)] = Garbage
              /\ file' = Written(file, p.seqNum)
  /\ Reply(CrcAnswer(p, TRUE))
  /\ UNCHANGED <<rstatus, retryCounter, sha256_ok, file_out, fileName, sha256>>

WriteDataCrash(p) ==
  /\ p.crcOk /\ p.seqNum = baseSeqNum
  /\ \/ file_out # "open"
     \/ LoopRuns(p) /\ SlotWith(p)[DrainedSlot(p)] = Garbage
  /\ Crash
  /\ UNCHANGED toSender

HandleDataPacket(p, last) ==
  \/ RejectData(p, last)
  \/ BufferData(p, last)
  \/ WriteData(p, last)
  \/ WriteDataCrash(p)

(***************************************************************************)
(* handleFinalPacket.  The CRC answer goes first; then the file is closed, *)
(* read back into the digest, which is never reset, and the verdict is     *)
(* answered.  Both answers are as long as a digest, so short.              *)
(***************************************************************************)
DigestMatches(digest) == digest = SentFile

VerifyFile(p) ==
  /\ p.crcOk
  /\ file_out = "open" /\ fileName
  /\ file_out' = "closed"
  /\ fileName' = FALSE
  /\ sha256' = sha256 \o file
  /\ sha256_ok' = DigestMatches(sha256')
  /\ toSender' = Put(Put(toSender, CrcAnswer(p, TRUE)),
                     MakeAnswer("ANSWER_SHA", p.seqNum, sha256_ok', TRUE))
  /\ retryCounter' = IF sha256_ok' THEN retryCounter ELSE retryCounter + 1
  /\ rstatus' = IF sha256_ok' \/ retryCounter' = 3 THEN "returned" ELSE rstatus
  /\ lastSeqNum' = -1
  /\ UNCHANGED <<baseSeqNum, crc_fail, slot, arrived, file>>

VerifyFileCrash(p) ==
  /\ p.crcOk
  /\ file_out # "open" \/ ~fileName
  /\ Reply(CrcAnswer(p, TRUE))
  /\ Crash

RejectFinal(p, last) ==
  /\ ~p.crcOk
  /\ crc_fail' = TRUE
  /\ fileName' = FALSE
  /\ lastSeqNum' = last
  /\ Reply(CrcAnswer(p, FALSE))
  /\ UNCHANGED <<rstatus, retryCounter, baseSeqNum, sha256_ok, file_out, slot,
                 arrived, file, sha256>>

HandleFinalPacket(p, last) ==
  \/ VerifyFile(p)
  \/ VerifyFileCrash(p)
  \/ RejectFinal(p, last)

(***************************************************************************)
(* handleDuplicatePacket.  After a CRC failure the packet is handled again *)
(* (a FILESIZE packet is then not even answered); otherwise the answer is  *)
(* positive whatever the packet holds.                                     *)
(***************************************************************************)
HandleDuplicatePacket(p) ==
  \/ /\ crc_fail /\ p.type = "DATA"
     /\ HandleDataPacket(p, lastSeqNum)
  \/ /\ crc_fail /\ p.type = "FINAL"
     /\ HandleFinalPacket(p, lastSeqNum)
  \/ /\ crc_fail /\ p.type = "FILESIZE"
     /\ UNCHANGED <<receiverVars, toSender>>
  \/ /\ ~crc_fail
     /\ Reply(CrcAnswer(p, TRUE))
     /\ UNCHANGED receiverVars

-----------------------------------------------------------------------------
(* One iteration of run().                                                 *)

(* Mutation of IsDuplicate: only the packet received last is compared.     *)
IsDuplicate_OnlyLast(p) == p.seqNum = lastSeqNum

IsDuplicate(p)    == p.seqNum = lastSeqNum \/ p.seqNum < baseSeqNum
BeyondWindow(p)   == p.seqNum > baseSeqNum + WindowSize
Fresh(p)          == ~IsDuplicate(p) /\ ~BeyondWindow(p)

Receive(p) ==
  /\ rstatus = "running"
  /\ toReceiver' = Take(toReceiver)
  /\ UNCHANGED faults

ReceiveError(p) ==
  /\ Receive(p) /\ p.type = "SOCKET_ERROR"
  /\ rstatus' = "failed"
  /\ UNCHANGED <<retryCounter, lastSeqNum, baseSeqNum, crc_fail, sha256_ok,
                 file_out, fileName, slot, arrived, file, sha256, toSender>>

ReceiveDuplicate(p) ==
  /\ Receive(p) /\ p.type # "SOCKET_ERROR"
  /\ IsDuplicate(p)
  /\ HandleDuplicatePacket(p)

ReceiveOutOfOrder(p) ==
  /\ Receive(p) /\ p.type # "SOCKET_ERROR"
  /\ ~IsDuplicate(p) /\ BeyondWindow(p)
  /\ UNCHANGED <<receiverVars, toSender>>

ReceiveFresh(p) ==
  /\ Receive(p) /\ Fresh(p)
  /\ \/ p.type = "FILESIZE" /\ HandleFileSizePacket(p)
     \/ p.type = "DATA" /\ HandleDataPacket(p, p.seqNum)
     \/ p.type = "FINAL" /\ HandleFinalPacket(p, p.seqNum)

ReceiverNext ==
  \E p \in Readable(toReceiver) :
    \/ ReceiveError(p)
    \/ ReceiveDuplicate(p)
    \/ ReceiveOutOfOrder(p)
    \/ ReceiveFresh(p)
=============================================================================
