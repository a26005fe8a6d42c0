-------------------------------- MODULE Words --------------------------------
(***************************************************************************)
(* Unsigned integers of any width, as the sets of the positions of their   *)
(* one bits (bit 0 the lowest): and, or are intersection and union, and a  *)
(* word wider than TLC's integers is no special case.                      *)
(***************************************************************************)
EXTENDS Integers, Sequences

Word == SUBSET Nat
Byte == SUBSET (0..7)

Xor(a, b)        == (a \ b) \cup (b \ a)
ShiftLeft(w, k)  == {i + k : i \in w}
ShiftRight(w, k) == {i - k : i \in {j \in w : j >= k}}
Cast(w, digits)  == {i \in w : i < digits}      \* to a type of so many bits

(* A number below 2^16, and a word from its hexadecimal halves of 16 bits, *)
(* the highest first.                                                      *)
Bits(n) == {i \in 0..15 : (n \div 2^i) % 2 = 1}
Hex(halves) ==
  UNION {ShiftLeft(Bits(halves[k]), 16 * (Len(halves) - k)) : k \in DOMAIN halves}
=============================================================================
