----------------------------- MODULE MCChecksum -----------------------------
(***************************************************************************)
(* Checksum for TLC: the parameters of CRC.h and the text of its check     *)
(* values, in pieces that leave the byte boundary and return to it; and    *)
(* what a comment of CRC.h says that the code does not do.                 *)
(***************************************************************************)
EXTENDS Checksum, CrcParameters

CheckText == [i \in 1..9 |-> Bits(48 + i)]      \* "123456789"
Sizes     == {3, 8, 13, 40}
SizesBelowByte == {3, 5}

(* CRC.h:574 and 646, of CalculateBits with the CRC of an earlier part:    *)
(* "Appends additional data to a previous CRC calculation".                *)
BitsAreAppended ==
  [][\A size \in AppendSizes, lookup \in BOOLEAN :
       MoreBits(size, lookup) => crc' = Reference(P, Ones(P), from, upto' - from)]_vars
=============================================================================
