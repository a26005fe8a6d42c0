--------------------------------- MODULE Crc ---------------------------------
(***************************************************************************)
(* The CRC templates of CRC.h: the bit-by-bit algorithm, the one with a    *)
(* look-up table, and calculations over bytes or bits, in one part or as   *)
(* the continuation of an earlier one.                                     *)
(*                                                                         *)
(* Data is a sequence of bytes.  lookup says whether a function is the     *)
(* overload that takes a Table.                                            *)
(***************************************************************************)
EXTENDS Words

CharBit == 8    \* CHAR_BIT

(* The template arguments and the fields of struct Parameters: width is    *)
(* CRCWidth, digits the number of bits of CRCType.                         *)
Parameters(width, digits, polynomial, initialValue, finalXOR, reflectInput, reflectOutput) ==
  [width |-> width, digits |-> digits, polynomial |-> polynomial,
   initialValue |-> initialValue, finalXOR |-> finalXOR,
   reflectInput |-> reflectInput, reflectOutput |-> reflectOutput]

(* Values of these types, and the assertion that the CRC fits its type.    *)
IsParameters(p) ==
  /\ p.width \in Nat \ {0} /\ p.digits \in Nat
  /\ p.digits >= p.width /\ p.digits >= CharBit
  /\ {p.polynomial, p.initialValue, p.finalXOR} \subseteq SUBSET (0..(p.width - 1))
  /\ {p.reflectInput, p.reflectOutput} \subseteq BOOLEAN

Reflect(value, numBits) == {numBits - 1 - i : i \in Cast(value, numBits)}

(* Mutation of UndoFinalize: the reflection is not undone.                 *)
UndoFinalize_Unreflected(p, crc) == Xor(Cast(crc, p.width), p.finalXOR)

Finalize(p, remainder) ==
  Cast(Xor(IF p.reflectInput # p.reflectOutput
           THEN Reflect(remainder, p.width) ELSE remainder, p.finalXOR),
       p.width)

UndoFinalize(p, crc) ==
  LET unmixed == Xor(Cast(crc, p.width), p.finalXOR)
  IN IF p.reflectInput # p.reflectOutput THEN Reflect(unmixed, p.width) ELSE unmixed

-----------------------------------------------------------------------------
(* CalculateRemainder and CalculateRemainderBits.  Three variants: input   *)
(* reflected, shifted out at the low end; not reflected, shifted out at    *)
(* bit width - 1; and narrower than a byte, kept at the top of a byte.     *)

Narrow(p)     == ~p.reflectInput /\ p.width < CharBit
Top(p)        == IF Narrow(p) THEN CharBit ELSE p.width   \* unless reflected
Align(p, w)   == IF Narrow(p) THEN Cast(ShiftLeft(w, CharBit - p.width), p.digits) ELSE w
Unalign(p, w) == IF Narrow(p) THEN ShiftRight(w, CharBit - p.width) ELSE w

Absorb(p, remainder, byte) ==
  LET placed == IF p.reflectInput THEN byte ELSE ShiftLeft(byte, Top(p) - CharBit)
  IN Cast(Xor(remainder, placed), p.digits)

(* Mutation of ShiftOut: the polynomial is not reflected with the input.   *)
ShiftOut_SamePolynomial(p, remainder) ==
  IF p.reflectInput
  THEN IF 0 \in remainder THEN Xor(ShiftRight(remainder, 1), p.polynomial)
       ELSE ShiftRight(remainder, 1)
  ELSE LET shifted == Cast(ShiftLeft(remainder, 1), p.digits)
       IN IF Top(p) - 1 \in remainder THEN Xor(shifted, Align(p, p.polynomial)) ELSE shifted

(* One bit leaves the remainder; if it is set the polynomial is subtracted.*)
ShiftOut(p, remainder) ==
  LET out     == IF p.reflectInput THEN 0 ELSE Top(p) - 1
      divisor == IF p.reflectInput THEN Reflect(p.polynomial, p.width)
                 ELSE Align(p, p.polynomial)
      shifted == IF p.reflectInput THEN ShiftRight(remainder, 1)
                 ELSE Cast(ShiftLeft(remainder, 1), p.digits)
  IN IF out \in remainder THEN Xor(shifted, divisor) ELSE shifted

ShiftBits(p, remainder, numBits) ==
  LET shifted[n \in 0..numBits] ==
        IF n = 0 THEN remainder ELSE ShiftOut(p, shifted[n - 1])
  IN shifted[numBits]

CalculateRemainderBits(byte, numBits, p, remainder) ==
  Unalign(p, ShiftBits(p, Absorb(p, Align(p, remainder), byte), numBits))

CalculateByte(p, remainder, byte) == ShiftBits(p, Absorb(p, remainder, byte), CharBit)

-----------------------------------------------------------------------------
(* The look-up table, by entry: InitTable fills it and nothing changes it. *)

(* Mutation of Table: the shift of a narrow remainder is not made up for.  *)
Table_Unaligned(p, index) == Cast(Unalign(p, CalculateByte(p, {}, index)), p.width)

Table(p, index) == Align(p, Cast(Unalign(p, CalculateByte(p, {}, index)), p.width))

LookupByte(p, remainder, byte) ==
  LET entry(w) == Table(p, Cast(Xor(w, byte), CharBit))
  IN IF p.reflectInput
     THEN Xor(ShiftRight(remainder, CharBit), entry(remainder))
     ELSE IF Narrow(p) THEN entry(remainder)
     ELSE Cast(Xor(ShiftLeft(remainder, CharBit),
                   entry(ShiftRight(remainder, p.width - CharBit))), p.digits)

(* CalculateRemainder, with the table and without.                         *)
TakeByte(p, lookup, remainder, byte) ==
  IF lookup THEN LookupByte(p, remainder, byte) ELSE CalculateByte(p, remainder, byte)

CalculateRemainder(data, p, lookup, remainder) ==
  LET after[i \in 0..Len(data)] ==
        IF i = 0 THEN Align(p, remainder) ELSE TakeByte(p, lookup, after[i - 1], data[i])
  IN Unalign(p, after[Len(data)])

-----------------------------------------------------------------------------
(* Calculate and CalculateBits; More... continues from the crc of an       *)
(* earlier call.                                                           *)

Calculate(data, p, lookup) ==
  Finalize(p, CalculateRemainder(data, p, lookup, p.initialValue))

MoreCalculate(data, p, lookup, crc) ==
  Finalize(p, CalculateRemainder(data, p, lookup, UndoFinalize(p, crc)))

(* The bits after the whole bytes, if any, in the next byte.               *)
RestOfBits(data, size, p, remainder) ==
  IF size % CharBit = 0 THEN remainder
  ELSE CalculateRemainderBits(data[(size \div CharBit) + 1], size % CharBit, p, remainder)

WholeBytes(data, size) == SubSeq(data, 1, size \div CharBit)

CalculateBits(data, size, p, lookup) ==
  Finalize(p, RestOfBits(data, size, p,
    CalculateRemainder(WholeBytes(data, size), p, lookup, p.initialValue)))

(* Whole bytes start again from the initial value, not from crc.           *)
MoreCalculateBits(data, size, p, lookup, crc) ==
  Finalize(p, RestOfBits(data, size, p,
    IF size >= CharBit
    THEN CalculateRemainder(WholeBytes(data, size), p, lookup, p.initialValue)
    ELSE UndoFinalize(p, crc)))
=============================================================================
