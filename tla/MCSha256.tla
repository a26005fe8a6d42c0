------------------------------- MODULE MCSha256 -------------------------------
(***************************************************************************)
(* Sha256 for TLC: a text that begins with the message of two blocks whose *)
(* digest FIPS 180-4 gives, in pieces that end at the last place where the *)
(* padding fits into a block (55 = 55 bytes), at the first where it does   *)
(* not (28 + 28), at the end of a block (28 + 100) and past one with a     *)
(* whole block behind it (55 + 100).                                       *)
(***************************************************************************)
EXTENDS Sha256

(* "abcdbcdecdef...nopq", 56 bytes, four letters from each of a .. n, and  *)
(* then the same pattern again.                                            *)
Message == [i \in 1..156 |-> Bits(97 + (((i - 1) % 56) \div 4) + ((i - 1) % 4))]

Sizes == {28, 55, 100}

Bytes == {0..7}

Published == [n \in {0, 56} |->
  IF n = 0 THEN Hex(<<\he3b0, \hc442, \h98fc, \h1c14, \h9afb, \hf4c8, \h996f, \hb924,
                      \h27ae, \h41e4, \h649b, \h934c, \ha495, \h991b, \h7852, \hb855>>)
  ELSE Hex(<<\h248d, \h6a61, \hd206, \h38b8, \he5c0, \h2693, \h0c3e, \h6039,
             \ha33c, \he459, \h64ff, \h2167, \hf6ec, \hedd4, \h19db, \h06c1>>)]

(* The published digests of the empty message and of the one of 56 bytes:  *)
(* processBlock, its constants and the byte orders of its words and of the *)
(* text returned are those of SHA-256.                                     *)
KnownDigests ==
  digest # NoDigest /\ length \in DOMAIN Published =>
    digest = [k \in 1..64 |-> Cast(ShiftRight(Published[length], 4 * (64 - k)), 4)]
=============================================================================
