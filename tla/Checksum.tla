------------------------------ MODULE Checksum ------------------------------
(***************************************************************************)
(* A CRC computed over a text in pieces, by any sequence of calls of the   *)
(* functions of CRC.h, and then compared with the CRC of a damaged copy,   *)
(* as Receiver.cpp does with the CRC that Sender.cpp put into the packet.  *)
(***************************************************************************)
EXTENDS Crc

CONSTANTS
  Choices,     \* parameters, each with the check value its comment documents
  Text,        \* the data, a sequence of bytes
  PieceSizes,  \* bound of the model: sizes of the pieces, in bits
  AppendSizes, \* the same for pieces appended by CalculateBits
  DamagedBytes \* bound of the model: longest text that is damaged

ASSUME ChecksumAssumption ==
  /\ Text \in Seq(Byte)
  /\ \A c \in Choices : IsParameters(c.parameters)
  /\ PieceSizes \subseteq Nat \ {0}
  /\ AppendSizes \subseteq Nat \ {0}
  /\ DamagedBytes \in Nat

VARIABLES
  choice,   \* the parameters in use
  from,     \* the first call began behind this bit of the text,
  upto,     \* and all calls together have been given it up to this one
  crc,      \* what the last call returned
  damage    \* positions of the bits that differ in the copy

vars == <<choice, from, upto, crc, damage>>

P == choice.parameters

(* The positions of the one bits of the text, counted in the order the     *)
(* algorithm takes them, from 1 on.                                        *)
TextSize     == CharBit * Len(Text)
InByte(p, i) == IF p.reflectInput THEN (i - 1) % CharBit ELSE CharBit - 1 - ((i - 1) % CharBit)
Ones(p)      == {i \in 1..TextSize : InByte(p, i) \in Text[((i - 1) \div CharBit) + 1]}

(* Bits first + 1 .. first + size, packed into bytes for a call; the bits  *)
(* that remain of the last byte are zero.                                  *)
Packed(p, ones, first, size) ==
  [k \in 1..((size + CharBit - 1) \div CharBit) |->
     {InByte(p, j) : j \in {i \in (CharBit * (k - 1) + 1)..(CharBit * k) :
                              i <= size /\ first + i \in ones}}]
Piece(first, size) == Packed(P, Ones(P), first, size)

Init ==
  /\ choice \in Choices
  /\ from = 0 /\ upto = 0
  /\ crc = Calculate(<<>>, P, FALSE)
  /\ damage = {}

Fits(size) == damage = {} /\ upto + size <= TextSize

(* A first call, over the next bytes or bits of the text.                  *)
First(size, lookup) ==
  /\ Fits(size)
  /\ crc' = IF size % CharBit = 0
            THEN Calculate(Piece(upto, size), P, lookup)
            ELSE CalculateBits(Piece(upto, size), size, P, lookup)
  /\ from' = upto /\ upto' = upto + size
  /\ UNCHANGED <<choice, damage>>

(* A call that continues from crc.                                         *)
More(size, lookup) ==
  /\ Fits(size) /\ size % CharBit = 0
  /\ crc' = MoreCalculate(Piece(upto, size), P, lookup, crc)
  /\ upto' = upto + size
  /\ UNCHANGED <<choice, from, damage>>

(* The same in bits.                                                       *)
MoreBits(size, lookup) ==
  /\ Fits(size)
  /\ crc' = MoreCalculateBits(Piece(upto, size), size, P, lookup, crc)
  /\ upto' = upto + size
  /\ UNCHANGED <<choice, from, damage>>

(* The network flips bits of the copy, none further apart than the CRC is  *)
(* wide: one, two, or all from one to another.                             *)
Damage(first, last) ==
  /\ damage = {} /\ from = 0
  /\ upto % CharBit = 0 /\ upto <= CharBit * DamagedBytes
  /\ last - first < P.width
  /\ damage' \in {{first, last}, first..last}
  /\ UNCHANGED <<choice, from, upto, crc>>

Next ==
  \/ \E size \in PieceSizes, lookup \in BOOLEAN : First(size, lookup) \/ More(size, lookup)
  \/ \E size \in AppendSizes, lookup \in BOOLEAN : MoreBits(size, lookup)
  \/ \E first, last \in 1..upto : first <= last /\ Damage(first, last)

Spec == Init /\ [][Next]_vars

-----------------------------------------------------------------------------
(* The definition of a CRC: bits are the coefficients of a polynomial, the *)
(* first one that of the highest power, with the initial value in front;   *)
(* the CRC is the remainder of its division by x^width + polynomial.       *)
Reduced(p, dividend, shift) ==
  LET divisor == p.polynomial \cup {p.width}
  IN IF p.width + shift \in dividend THEN Xor(dividend, ShiftLeft(divisor, shift)) ELSE dividend

Remainder(p, ones, first, size) ==
  LET initial  == IF p.reflectInput THEN Reflect(p.initialValue, p.width) ELSE p.initialValue
      dividend == Xor({p.width + first + size - i : i \in ones \cap (first + 1)..(first + size)},
                      ShiftLeft(initial, size))
      reduced[d \in 0..size] ==       \* of degree below width + size - d
        IF d = 0 THEN dividend ELSE Reduced(p, reduced[d - 1], size - d)
  IN reduced[size]

Reference(p, ones, first, size) ==
  LET remainder == Remainder(p, ones, first, size)
  IN Xor(IF p.reflectOutput THEN Reflect(remainder, p.width) ELSE remainder, p.finalXOR)

(* However the text was cut into pieces, and whichever overloads were      *)
(* called, with the table or without, in bytes or in bits: the result is   *)
(* the remainder of the polynomial division of everything given so far.    *)
(* CRC.h keeps this where AppendSizes are below a byte.                    *)
IsRemainder == damage = {} => crc = Reference(P, Ones(P), from, upto - from)

(* "check value": the CRC of the whole text is the documented one, also    *)
(* when it was computed in parts.                                          *)
IsDocumented == from = 0 /\ upto = TextSize => crc = choice.check

(* What a damaged payload relies on: the CRC of a copy in which bits no    *)
(* further apart than the width were flipped differs from crc.             *)
DamageIsDetected ==
  damage # {} => Calculate(Packed(P, Xor(Ones(P), damage), 0, upto), P, TRUE) # crc
=============================================================================
