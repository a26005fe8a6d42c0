----------------------------- MODULE Sha256Block -----------------------------
(***************************************************************************)
(* SHA256::processBlock (sha256.cpp): the compression of one block of 64   *)
(* bytes into the eight words of the hash.                                 *)
(***************************************************************************)
EXTENDS Words

Not(x) == (0..31) \ x

(* The sum of two words, modulo 2^32: a carry comes from a bit that is set *)
(* in both, and goes on through bits that are set in one of them.          *)
Plus(x, y) ==
  LET carry[i \in 0..31] ==
        i > 0 /\ IF i - 1 \in x THEN i - 1 \in y \/ carry[i - 1]
                 ELSE i - 1 \in y /\ carry[i - 1]
  IN {i \in 0..31 : (i \in x) # ((i \in y) # carry[i])}

(* Mutation of rotate: to the left.                                        *)
rotate_Left(a, c) == {(i + c) % 32 : i \in a}

rotate(a, c) == {(i + 32 - c) % 32 : i \in a}

swap(x) == {8 * (3 - (i \div 8)) + (i % 8) : i \in x}

f1(e, f, g) ==
  Plus(Xor(Xor(rotate(e, 6), rotate(e, 11)), rotate(e, 25)),
       Xor(e \cap f, Not(e) \cap g))

f2(a, b, c) ==
  Plus(Xor(Xor(rotate(a, 2), rotate(a, 13)), rotate(a, 22)),
       ((a \cup b) \cap c) \cup (a \cap b))

(* The constants of the 64 rounds.                                         *)
RoundHalves == <<
  <<\h428a, \h2f98>>, <<\h7137, \h4491>>, <<\hb5c0, \hfbcf>>, <<\he9b5, \hdba5>>,
  <<\h3956, \hc25b>>, <<\h59f1, \h11f1>>, <<\h923f, \h82a4>>, <<\hab1c, \h5ed5>>,
  <<\hd807, \haa98>>, <<\h1283, \h5b01>>, <<\h2431, \h85be>>, <<\h550c, \h7dc3>>,
  <<\h72be, \h5d74>>, <<\h80de, \hb1fe>>, <<\h9bdc, \h06a7>>, <<\hc19b, \hf174>>,
  <<\he49b, \h69c1>>, <<\hefbe, \h4786>>, <<\h0fc1, \h9dc6>>, <<\h240c, \ha1cc>>,
  <<\h2de9, \h2c6f>>, <<\h4a74, \h84aa>>, <<\h5cb0, \ha9dc>>, <<\h76f9, \h88da>>,
  <<\h983e, \h5152>>, <<\ha831, \hc66d>>, <<\hb003, \h27c8>>, <<\hbf59, \h7fc7>>,
  <<\hc6e0, \h0bf3>>, <<\hd5a7, \h9147>>, <<\h06ca, \h6351>>, <<\h1429, \h2967>>,
  <<\h27b7, \h0a85>>, <<\h2e1b, \h2138>>, <<\h4d2c, \h6dfc>>, <<\h5338, \h0d13>>,
  <<\h650a, \h7354>>, <<\h766a, \h0abb>>, <<\h81c2, \hc92e>>, <<\h9272, \h2c85>>,
  <<\ha2bf, \he8a1>>, <<\ha81a, \h664b>>, <<\hc24b, \h8b70>>, <<\hc76c, \h51a3>>,
  <<\hd192, \he819>>, <<\hd699, \h0624>>, <<\hf40e, \h3585>>, <<\h106a, \ha070>>,
  <<\h19a4, \hc116>>, <<\h1e37, \h6c08>>, <<\h2748, \h774c>>, <<\h34b0, \hbcb5>>,
  <<\h391c, \h0cb3>>, <<\h4ed8, \haa4a>>, <<\h5b9c, \hca4f>>, <<\h682e, \h6ff3>>,
  <<\h748f, \h82ee>>, <<\h78a5, \h636f>>, <<\h84c8, \h7814>>, <<\h8cc7, \h0208>>,
  <<\h90be, \hfffa>>, <<\ha450, \h6ceb>>, <<\hbef9, \ha3f7>>, <<\hc671, \h78f2>> >>
RoundConstants == [i \in 0..63 |-> Hex(RoundHalves[i + 1])]

(* The block as 16 words, read on a little-endian machine and swapped, and *)
(* the 48 they are extended to.                                            *)
LoadWords(data) ==
  [i \in 0..15 |-> swap(UNION {ShiftLeft(data[4 * i + j + 1], 8 * j) : j \in 0..3})]

Extension(w, i) ==
  Plus(Plus(w[i - 16],
            Xor(Xor(rotate(w[i - 15], 7), rotate(w[i - 15], 18)), ShiftRight(w[i - 15], 3))),
       Plus(w[i - 7],
            Xor(Xor(rotate(w[i - 2], 17), rotate(w[i - 2], 19)), ShiftRight(w[i - 2], 10))))

ExtendWords(data) ==
  LET extend[w \in [0..63 -> Word], i \in 16..64] ==
        IF i = 64 THEN w ELSE extend[[w EXCEPT ![i] = Extension(w, i)], i + 1]
      loaded == LoadWords(data)
  IN extend[[i \in 0..63 |-> IF i < 16 THEN loaded[i] ELSE {}], 16]

(* One line of the unrolled rounds.  The variables a .. h are r[0] .. r[7];*)
(* instead of moving their values, each line names them one further on.    *)
Round(r, i, words) ==
  LET at(k) == (k + 64 - i) % 8
      x == Plus(Plus(r[at(7)], f1(r[at(4)], r[at(5)], r[at(6)])),
                Plus(RoundConstants[i], words[i]))
      y == f2(r[at(0)], r[at(1)], r[at(2)])
  IN [r EXCEPT ![at(3)] = Plus(r[at(3)], x), ![at(7)] = Plus(x, y)]

Rounds(hash, words) ==
  LET rounds[r \in [0..7 -> Word], i \in 0..64] ==
        IF i = 64 THEN r ELSE rounds[Round(r, i, words), i + 1]
  IN rounds[hash, 0]

processBlock(hash, data) ==
  LET last == Rounds(hash, ExtendWords(data))
  IN [k \in 0..7 |-> Plus(hash[k], last[k])]

(* What reset() sets m_hash to.                                            *)
InitialHalves == <<
  <<\h6a09, \he667>>, <<\hbb67, \hae85>>, <<\h3c6e, \hf372>>, <<\ha54f, \hf53a>>,
  <<\h510e, \h527f>>, <<\h9b05, \h688c>>, <<\h1f83, \hd9ab>>, <<\h5be0, \hcd19>> >>
InitialHash == [k \in 0..7 |-> Hex(InitialHalves[k + 1])]
=============================================================================
