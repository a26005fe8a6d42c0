----------------------------- MODULE MCTransfer -----------------------------
(***************************************************************************)
(* Instances of Transfer for TLC (the .cfg files give the constants), and  *)
(* what the comments and messages of the code say of it.  Each of these    *)
(* claims has a run of its own, which shows how the code departs from it.  *)
(***************************************************************************)
EXTENDS Transfer

(* Sender.h:55, "Next packet to send": the resend loop stops before        *)
(* nextSeqNum, so that every packet sent is below it and a lost one is     *)
(* sent again, the last one too, unless one of the programs stops.         *)
LastPacketIsResent ==
  (spc = "last") ~> (Holds(NumPackets) \/ rstatus # "running" \/ sendingDone)

(* Sender.h:54, "Oldest unacknowledged packet": no packet in the sender's  *)
(* buffer that still waits for its answer is older than base.              *)
BaseIsOldestUnacknowledged ==
  \A i \in Slots : packet[i] > 0 /\ ~acknowledged[i] => base <= packet[i]

(* Sender.cpp:230, "Wait for space in the window": the wait ends, at least *)
(* when nothing is lost.                                                   *)
WindowGetsSpace == spc = "windowWait" ~> ~WindowFull

(* Sender.cpp:406-407, an answer that says "CRC/SHA fail" is not taken for *)
(* success, and Sender.cpp:308, "SHA ACK received! File transfer           *)
(* successful.": the sender succeeds only with a matching digest.          *)
SuccessMeansMatch == spc = "success" => sha256_ok

(* Receiver.cpp:175, "Move baseSeqNum forward and write all packets in     *)
(* order": the file is a prefix of the file sent.                          *)
WrittenInOrder == \A i \in 1..Len(file) : file[i] = i

(* Sender.cpp:317, "SHA mismatch! Restarting whole transfer...", and the   *)
(* three digests of Receiver.cpp:37: a receiver without an open file opens *)
(* it for a name that arrives whole, unless fopen fails; after a mismatch, *)
(* which has closed the file, and after a name that arrived damaged.       *)
NameOpensFile ==
  [][\A p \in Readable(toReceiver) :
       Receive(p) /\ p.type = "FILESIZE" /\ p.crcOk /\ file_out # "open" =>
         file_out' = "open" \/ rstatus' = "failed"]_vars
=============================================================================
