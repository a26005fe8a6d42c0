---------------------------- MODULE FileTransfer ----------------------------
(***************************************************************************)
(* What a transfer promises: the blocks of the file are delivered in       *)
(* order, the receiver confirms the file only when it is complete, and the *)
(* sender reports success only for a file that was confirmed.              *)
(***************************************************************************)
EXTENDS Integers, Sequences

CONSTANT NumPackets \* a natural number

VARIABLES
  delivered, \* the blocks in the receiver's file, in order
  verdict,   \* "none", or the receiver's: "confirmed", "rejected", "crashed"
  report     \* "none", or the sender's exit: "success", "failure"

ftVars == <<delivered, verdict, report>>

Init == delivered = <<>> /\ verdict = "none" /\ report = "none"

Deliver ==
  /\ verdict = "none"
  /\ Len(delivered) < NumPackets
  /\ delivered' = Append(delivered, Len(delivered) + 1)
  /\ UNCHANGED <<verdict, report>>

Confirm ==
  /\ verdict = "none"
  /\ Len(delivered) = NumPackets
  /\ verdict' = "confirmed"
  /\ UNCHANGED <<delivered, report>>

ReportSuccess ==
  /\ report = "none" /\ verdict = "confirmed"
  /\ report' = "success"
  /\ UNCHANGED <<delivered, verdict>>

(* The sender may always give up, also after a confirmation it missed.     *)
ReportFailure ==
  /\ report = "none"
  /\ report' = "failure"
  /\ UNCHANGED <<delivered, verdict>>

Next == Deliver \/ Confirm \/ ReportSuccess \/ ReportFailure

Spec == Init /\ [][Next]_ftVars
=============================================================================
