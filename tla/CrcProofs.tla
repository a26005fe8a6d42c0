------------------------------ MODULE CrcProofs ------------------------------
(***************************************************************************)
(* Proofs about the templates of CRC.h, for every width, type, polynomial, *)
(* initial and final value, reflection, text and cut into pieces.          *)
(*                                                                         *)
(* The three variants of the code keep the same register in different      *)
(* places: u counts its bits from the one that is shifted out next.  A run *)
(* is the register of the textbook, which takes one bit of the data at a   *)
(* time.  ShiftOut, whole bytes, the table and the bits after the bytes    *)
(* are shown to go along a run (At, Holding); so is the division that      *)
(* Reference is defined by (Divided).  Calls that continue take up the run *)
(* where the last one left it, as UndoFinalize undoes Finalize.            *)
(***************************************************************************)
EXTENDS Checksum, Induction, SequenceTheorems

(* The register of a calculation: u counts from the bit that is shifted    *)
(* out next.  A byte: t counts from the bit that is taken first.           *)
RegWord(p)         == SUBSET (0..(p.digits - 1))
Reg(p, c, u)       == IF p.reflectInput THEN u \in c ELSE Top(p) - 1 - u \in c
DataBit(p, b, t)   == t \in 0..7 /\ (IF p.reflectInput THEN t \in b ELSE 7 - t \in b)
Feedback(p, u)     == p.width - 1 - u \in p.polynomial
WidthWord(width)   == SUBSET (0..(width - 1))

(* What the assertions on the parameters say.                              *)
LEMMA ParameterTypes ==
  ASSUME NEW p, IsParameters(p)
  PROVE  /\ p.width \in Nat /\ p.width >= 1 /\ p.digits \in Nat
         /\ p.digits >= p.width /\ p.digits >= 8
         /\ p.polynomial \in WidthWord(p.width) /\ p.initialValue \in WidthWord(p.width)
         /\ p.finalXOR \in WidthWord(p.width)
         /\ p.reflectInput \in BOOLEAN /\ p.reflectOutput \in BOOLEAN
BY DEF IsParameters, CharBit, WidthWord

(* The bit that leaves an unreflected register lies within its type.       *)
LEMMA TopIs ==
  ASSUME NEW p, IsParameters(p), ~p.reflectInput
  PROVE  Top(p) \in Nat /\ Top(p) >= 8 /\ Top(p) >= p.width /\ Top(p) <= p.digits
BY ParameterTypes DEF Top, Narrow, CharBit

(* Words bit by bit.                                                       *)
LEMMA InXor ==
  ASSUME NEW a, NEW b, NEW i
  PROVE  i \in Xor(a, b) <=> ~(i \in a <=> i \in b)
BY DEF Xor

LEMMA InShiftLeft ==
  ASSUME NEW w \in SUBSET Int, NEW k \in Int, NEW i \in Int
  PROVE  i \in ShiftLeft(w, k) <=> i - k \in w
<1>1. ASSUME i - k \in w PROVE i \in ShiftLeft(w, k)
  <2>1. i = (i - k) + k
    OBVIOUS
  <2> QED
    BY <1>1, <2>1 DEF ShiftLeft
<1>2. ASSUME i \in ShiftLeft(w, k) PROVE i - k \in w
  <2>1. PICK j \in w : i = j + k
    BY <1>2 DEF ShiftLeft
  <2>2. i - k = j
    BY <2>1
  <2> QED
    BY <2>2
<1> QED
  BY <1>1, <1>2

LEMMA InShiftRight ==
  ASSUME NEW w \in SUBSET Int, NEW k \in Int, NEW i \in Int
  PROVE  i \in ShiftRight(w, k) <=> i + k \in w /\ i >= 0
<1>1. ASSUME i + k \in w, i >= 0 PROVE i \in ShiftRight(w, k)
  <2>1. i = (i + k) - k /\ i + k >= k
    BY <1>1
  <2> QED
    BY <1>1, <2>1 DEF ShiftRight
<1>2. ASSUME i \in ShiftRight(w, k) PROVE i + k \in w /\ i >= 0
  <2>1. PICK j \in w : i = j - k /\ j >= k
    BY <1>2 DEF ShiftRight
  <2>2. i + k = j /\ i >= 0
    BY <2>1
  <2> QED
    BY <2>1, <2>2
<1> QED
  BY <1>1, <1>2

LEMMA InReflect ==
  ASSUME NEW w \in SUBSET Int, NEW n \in Nat, NEW i \in Int
  PROVE  i \in Reflect(w, n) <=> n - 1 - i \in w /\ i >= 0
<1>1. ASSUME n - 1 - i \in w, i >= 0 PROVE i \in Reflect(w, n)
  <2>1. i = n - 1 - (n - 1 - i) /\ n - 1 - i < n
    BY <1>1
  <2> QED
    BY <1>1, <2>1 DEF Reflect, Cast
<1>2. ASSUME i \in Reflect(w, n) PROVE n - 1 - i \in w /\ i >= 0
  <2>1. PICK j \in w : i = n - 1 - j /\ j < n
    BY <1>2 DEF Reflect, Cast
  <2>2. n - 1 - i = j /\ i >= 0
    BY <2>1
  <2> QED
    BY <2>1, <2>2
<1> QED
  BY <1>1, <1>2

LEMMA InCast ==
  ASSUME NEW w, NEW n, NEW i
  PROVE  i \in Cast(w, n) <=> i \in w /\ i < n
BY DEF Cast

-----------------------------------------------------------------------------

(* Words of a width, changed and changed back.                             *)
LEMMA CastWord ==
  ASSUME NEW width \in Nat, NEW w \in WidthWord(width)
  PROVE  Cast(w, width) = w
<1>1. \A i \in w : i < width
  BY DEF WidthWord
<1> QED
  BY <1>1 DEF Cast

LEMMA XorTwice ==
  ASSUME NEW width \in Nat, NEW a \in WidthWord(width), NEW b \in WidthWord(width)
  PROVE  Xor(a, b) \in WidthWord(width) /\ Xor(Xor(a, b), b) = a
BY DEF Xor, WidthWord

LEMMA ReflectTwice ==
  ASSUME NEW width \in Nat, NEW w \in WidthWord(width)
  PROVE  Reflect(w, width) \in WidthWord(width) /\ Reflect(Reflect(w, width), width) = w
<1>1. ASSUME NEW v \in WidthWord(width), NEW j
      PROVE  j \in Reflect(v, width) <=> j \in 0..(width - 1) /\ width - 1 - j \in v
  BY DEF Reflect, Cast, WidthWord
<1>2. Reflect(w, width) \in WidthWord(width)
  BY <1>1 DEF WidthWord
<1>3. ASSUME NEW j PROVE j \in Reflect(Reflect(w, width), width) <=> j \in w
  <2>1. CASE j \in 0..(width - 1)
    <3>1. width - 1 - j \in 0..(width - 1) /\ width - 1 - (width - 1 - j) = j
      BY <2>1
    <3> QED
      BY <1>1, <1>2, <2>1, <3>1
  <2>2. CASE j \notin 0..(width - 1)
    BY <1>1, <1>2, <2>2 DEF WidthWord
  <2> QED
    BY <2>1, <2>2
<1> QED
  BY <1>2, <1>3

(* UndoFinalize is the inverse of Finalize: from the CRC of an earlier     *)
(* part the overloads that continue a calculation get back the remainder   *)
(* it ended with, whatever the width, the final value and the reflections. *)
THEOREM FinalizeIsUndone ==
  ASSUME NEW p, p.width \in Nat, p.finalXOR \in WidthWord(p.width),
         NEW remainder \in WidthWord(p.width)
  PROVE  UndoFinalize(p, Finalize(p, remainder)) = remainder
<1> DEFINE width     == p.width
           reflected == IF p.reflectInput # p.reflectOutput
                        THEN Reflect(remainder, width) ELSE remainder
           mixed     == Xor(reflected, p.finalXOR)
<1>1. reflected \in WidthWord(width)
  BY ReflectTwice
<1>2. mixed \in WidthWord(width) /\ Xor(mixed, p.finalXOR) = reflected
  BY <1>1, XorTwice
<1>3. Finalize(p, remainder) = mixed /\ Cast(mixed, width) = mixed
  BY <1>2, CastWord DEF Finalize
<1>4. UndoFinalize(p, mixed) = IF p.reflectInput # p.reflectOutput
                               THEN Reflect(reflected, width) ELSE reflected
  <2> HIDE DEF mixed, reflected
  <2> QED
    BY <1>2, <1>3 DEF UndoFinalize
<1>5. UndoFinalize(p, mixed) = remainder
  BY <1>4, ReflectTwice
<1> QED
  BY <1>3, <1>5

-----------------------------------------------------------------------------
(* The operators on words yield words.                                     *)
LEMMA WordTypes ==
  /\ \A n \in Int : \A w \in SUBSET Nat : Cast(w, n) \in SUBSET (0..(n - 1))
  /\ \A k \in Nat : \A w \in SUBSET Nat : ShiftLeft(w, k) \in SUBSET Nat
  /\ \A k \in Nat : \A w \in SUBSET Nat : ShiftRight(w, k) \in SUBSET Nat
  /\ \A n \in Nat : \A w \in SUBSET Nat : Reflect(w, n) \in SUBSET (0..(n - 1))
<1>1. ASSUME NEW n \in Int, NEW w \in SUBSET Nat
      PROVE  Cast(w, n) \in SUBSET (0..(n - 1))
  <2>1. ASSUME NEW i \in Cast(w, n) PROVE i \in 0..(n - 1)
    <3>1. i \in w /\ i < n
      BY InCast
    <3>2. i \in Nat
      BY <3>1
    <3> QED
      BY <3>1, <3>2
  <2> QED
    BY <2>1
<1>2. ASSUME NEW k \in Nat, NEW w \in SUBSET Nat
      PROVE  ShiftLeft(w, k) \in SUBSET Nat
  BY DEF ShiftLeft
<1>3. ASSUME NEW k \in Nat, NEW w \in SUBSET Nat
      PROVE  ShiftRight(w, k) \in SUBSET Nat
  BY DEF ShiftRight
<1>4. ASSUME NEW n \in Nat, NEW w \in SUBSET Nat
      PROVE  Reflect(w, n) \in SUBSET (0..(n - 1))
  BY DEF Reflect, Cast
<1> QED
  BY <1>1, <1>2, <1>3, <1>4

(* The divisor, as the register holds it.                                  *)
Divisor(p) == IF p.reflectInput THEN Reflect(p.polynomial, p.width) ELSE Align(p, p.polynomial)

(* The types of the register: aligned, shifted, combined.                  *)
LEMMA AlignType ==
  ASSUME NEW p, IsParameters(p), NEW w \in RegWord(p)
  PROVE  Align(p, w) \in RegWord(p)
<1>1. w \in SUBSET Nat /\ p.digits \in Nat
  BY ParameterTypes DEF RegWord
<1>2. CASE Narrow(p)
  <2>1. 8 - p.width \in Nat
    BY <1>2, ParameterTypes DEF Narrow, CharBit
  <2> QED
    BY <1>1, <1>2, <2>1, WordTypes DEF Align, RegWord, CharBit
<1>3. CASE ~Narrow(p)
  BY <1>3 DEF Align
<1> QED
  BY <1>2, <1>3

(* Align puts bit width - 1 of an unreflected word at the top.             *)
LEMMA AlignRegister ==
  ASSUME NEW p, IsParameters(p), NEW w \in RegWord(p), NEW u \in Nat
  PROVE  Reg(p, Align(p, w), u)
           <=> IF p.reflectInput THEN u \in w ELSE p.width - 1 - u \in w
<1>1. w \in SUBSET Int /\ p.digits \in Nat /\ p.width \in Nat /\ p.digits >= 8
  BY ParameterTypes DEF RegWord
<1>2. CASE p.reflectInput
  BY <1>2 DEF Reg, Align, Narrow
<1>3. CASE ~p.reflectInput /\ p.width >= 8
  BY <1>1, <1>3 DEF Reg, Align, Narrow, Top, CharBit
<1>4. CASE ~p.reflectInput /\ p.width < 8
  <2>1. Narrow(p) /\ Top(p) = 8
    BY <1>4 DEF Narrow, Top, CharBit
  <2>2. Reg(p, Align(p, w), u) <=> 7 - u \in Cast(ShiftLeft(w, 8 - p.width), p.digits)
    <3>1. 8 - 1 - u = 7 - u
      OBVIOUS
    <3> QED
      BY <1>4, <2>1, <3>1 DEF Reg, Align, CharBit
  <2>3. 7 - u < p.digits /\ 7 - u \in Int /\ 8 - p.width \in Int
    BY <1>1
  <2>4. 7 - u \in ShiftLeft(w, 8 - p.width) <=> (7 - u) - (8 - p.width) \in w
    BY <1>1, <2>3, InShiftLeft
  <2>5. (7 - u) - (8 - p.width) = p.width - 1 - u
    BY <1>1
  <2> QED
    BY <1>4, <2>2, <2>3, <2>4, <2>5, InCast
<1> QED
  BY <1>1, <1>2, <1>3, <1>4

(* The divisor feeds back, at each place, the same coefficient.            *)
LEMMA DivisorRegister ==
  ASSUME NEW p, IsParameters(p)
  PROVE  /\ Divisor(p) \in RegWord(p)
         /\ \A u \in Nat : Reg(p, Divisor(p), u) <=> Feedback(p, u)
<1>1. /\ p.polynomial \in RegWord(p) /\ p.polynomial \in SUBSET Nat /\ p.width \in Nat
      /\ p.digits \in Nat /\ p.digits >= p.width
  BY ParameterTypes DEF RegWord, WidthWord
<1>2. CASE p.reflectInput
  <2>1. Divisor(p) = Reflect(p.polynomial, p.width)
    BY <1>2 DEF Divisor
  <2>2. Divisor(p) \in RegWord(p)
    <3>1. Reflect(p.polynomial, p.width) \in SUBSET (0..(p.width - 1))
      BY <1>1, WordTypes
    <3> QED
      BY <1>1, <2>1, <3>1 DEF RegWord
  <2>3. ASSUME NEW u \in Nat PROVE Reg(p, Divisor(p), u) <=> Feedback(p, u)
    <3>1. u \in Reflect(p.polynomial, p.width) <=> p.width - 1 - u \in p.polynomial /\ u >= 0
      BY <1>1, InReflect
    <3> QED
      BY <1>2, <2>1, <3>1 DEF Reg, Feedback
  <2> QED
    BY <2>2, <2>3
<1>3. CASE ~p.reflectInput
  BY <1>1, <1>3, AlignType, AlignRegister DEF Divisor, Feedback
<1> QED
  BY <1>2, <1>3

LEMMA XorRegister ==
  ASSUME NEW p, NEW a \in RegWord(p), NEW b \in RegWord(p), NEW u \in Nat
  PROVE  Reg(p, Xor(a, b), u) <=> ~(Reg(p, a, u) <=> Reg(p, b, u))
BY InXor DEF Reg

(* What is left after a shift, before the divisor is subtracted.           *)
Shifted(p, c) ==
  IF p.reflectInput THEN ShiftRight(c, 1) ELSE Cast(ShiftLeft(c, 1), p.digits)

LEMMA ShiftedRegister ==
  ASSUME NEW p, IsParameters(p), NEW c \in RegWord(p)
  PROVE  /\ Shifted(p, c) \in RegWord(p)
         /\ \A u \in Nat : Reg(p, Shifted(p, c), u) <=> Reg(p, c, u + 1)
<1>1. c \in SUBSET Nat /\ c \in SUBSET Int /\ p.digits \in Nat
  BY ParameterTypes DEF RegWord
<1>2. CASE p.reflectInput
  <2>1. Shifted(p, c) = ShiftRight(c, 1)
    BY <1>2 DEF Shifted
  <2>2. \A i \in Int : i \in ShiftRight(c, 1) <=> i + 1 \in c /\ i >= 0
    BY <1>1, InShiftRight
  <2>3. ShiftRight(c, 1) \in SUBSET Nat
    BY <1>1, WordTypes
  <2>4. ShiftRight(c, 1) \in RegWord(p)
    BY <1>1, <2>2, <2>3 DEF RegWord
  <2>5. ASSUME NEW u \in Nat PROVE u \in ShiftRight(c, 1) <=> u + 1 \in c
    BY <2>2
  <2> QED
    BY <1>2, <2>1, <2>4, <2>5 DEF Reg
<1>3. CASE ~p.reflectInput
  <2>1. Shifted(p, c) = Cast(ShiftLeft(c, 1), p.digits)
    BY <1>3 DEF Shifted
  <2>2. Shifted(p, c) \in RegWord(p)
    BY <1>1, <2>1, WordTypes DEF RegWord
  <2>3. ASSUME NEW u \in Nat
        PROVE  Top(p) - 1 - u \in Shifted(p, c) <=> Top(p) - 1 - (u + 1) \in c
    <3>1. Top(p) \in Nat /\ Top(p) <= p.digits
      BY <1>3, TopIs
    <3>2. Top(p) - 1 - u \in Int /\ Top(p) - 1 - u < p.digits
      BY <1>1, <3>1
    <3>3. Top(p) - 1 - u \in ShiftLeft(c, 1) <=> (Top(p) - 1 - u) - 1 \in c
      BY <1>1, <3>2, InShiftLeft
    <3>4. (Top(p) - 1 - u) - 1 = Top(p) - 1 - (u + 1)
      BY <3>1
    <3> QED
      BY <2>1, <3>2, <3>3, <3>4, InCast
  <2> QED
    BY <1>3, <2>2, <2>3 DEF Reg
<1> QED
  BY <1>2, <1>3

(* One bit leaves the register, and is fed back.                           *)
LEMMA ShiftOutRegister ==
  ASSUME NEW p, IsParameters(p), NEW c \in RegWord(p)
  PROVE  /\ ShiftOut(p, c) \in RegWord(p)
         /\ \A u \in Nat : Reg(p, ShiftOut(p, c), u)
              <=> ~(Reg(p, c, u + 1) <=> (Reg(p, c, 0) /\ Feedback(p, u)))
<1>1. ShiftOut(p, c) = IF Reg(p, c, 0) THEN Xor(Shifted(p, c), Divisor(p)) ELSE Shifted(p, c)
  <2>1. CASE p.reflectInput
    BY <2>1 DEF ShiftOut, Reg, Shifted, Divisor
  <2>2. CASE ~p.reflectInput
    <3>1. Top(p) \in Nat /\ Top(p) - 1 - 0 = Top(p) - 1
      BY <2>2, TopIs
    <3> QED
      BY <2>2, <3>1 DEF ShiftOut, Reg, Shifted, Divisor
  <2> QED
    BY <2>1, <2>2
<1>2. /\ Shifted(p, c) \in RegWord(p) /\ Divisor(p) \in RegWord(p)
      /\ Xor(Shifted(p, c), Divisor(p)) \in RegWord(p)
  <2>1. Shifted(p, c) \in RegWord(p) /\ Divisor(p) \in RegWord(p)
    BY ShiftedRegister, DivisorRegister
  <2> QED
    BY <2>1 DEF Xor, RegWord
<1>3. ASSUME NEW u \in Nat
      PROVE  Reg(p, ShiftOut(p, c), u)
               <=> ~(Reg(p, c, u + 1) <=> (Reg(p, c, 0) /\ Feedback(p, u)))
  <2>1. /\ Reg(p, Shifted(p, c), u) <=> Reg(p, c, u + 1)
        /\ Reg(p, Divisor(p), u) <=> Feedback(p, u)
    BY ShiftedRegister, DivisorRegister
  <2>2. Reg(p, Xor(Shifted(p, c), Divisor(p)), u)
          <=> ~(Reg(p, Shifted(p, c), u) <=> Reg(p, Divisor(p), u))
    BY <1>2, XorRegister
  <2> QED
    BY <1>1, <2>1, <2>2
<1> QED
  BY <1>1, <1>2, <1>3

(* The same register bit by bit: each bit of the data is added to the one  *)
(* that leaves.  A run over the bits first + 1 .. first + size of ones.    *)
Serial(p, q, bit) ==
  {u \in 0..(p.width - 1) :
     ~(u + 1 \in q <=> (~(0 \in q <=> bit) /\ Feedback(p, u)))}

InitialRegister(p) ==
  {u \in 0..(p.width - 1) :
     IF p.reflectInput THEN u \in p.initialValue ELSE p.width - 1 - u \in p.initialValue}

IsRun(g, p, ones, first, size) ==
  g = [k \in 0..size |->
         IF k = 0 THEN InitialRegister(p) ELSE Serial(p, g[k - 1], first + k \in ones)]

(* There is a run over any data, and it is determined step by step.        *)
LEMMA RunExists ==
  ASSUME NEW p, NEW ones, NEW first
  PROVE  \A n \in Nat : \E g : IsRun(g, p, ones, first, n)
<1> DEFINE T == {n \in Nat : \E g : IsRun(g, p, ones, first, n)}
<1>1. 0 \in T
  <2> DEFINE g == [k \in 0..0 |-> InitialRegister(p)]
  <2>1. IsRun(g, p, ones, first, 0)
    BY DEF IsRun
  <2> QED
    BY <2>1
<1>2. ASSUME NEW n \in Nat, n \in T PROVE n + 1 \in T
  <2>1. PICK g : IsRun(g, p, ones, first, n)
    BY <1>2
  <2> DEFINE last == Serial(p, g[n], first + (n + 1) \in ones)
             h == [k \in 0..(n + 1) |-> IF k <= n THEN g[k] ELSE last]
             next(k) == IF k = 0 THEN InitialRegister(p)
                        ELSE Serial(p, h[k - 1], first + k \in ones)
  <2>2. ASSUME NEW k \in 0..(n + 1) PROVE h[k] = next(k)
    <3>1. CASE k <= n
      <4>1. h[k] = g[k] /\ k \in 0..n
        BY <3>1
      <4>2. g[k] = IF k = 0 THEN InitialRegister(p)
                   ELSE Serial(p, g[k - 1], first + k \in ones)
        BY <2>1, <4>1 DEF IsRun
      <4>3. k # 0 => h[k - 1] = g[k - 1]
        BY <3>1
      <4> QED
        BY <4>1, <4>2, <4>3
    <3>2. CASE k = n + 1
      BY <3>2
    <3> QED
      BY <3>1, <3>2
  <2>3. h = [k \in 0..(n + 1) |-> next(k)]
    BY <2>2
  <2>4. IsRun(h, p, ones, first, n + 1)
    BY <2>3 DEF IsRun
  <2> QED
    BY <2>4
<1> HIDE DEF T
<1>3. \A n \in Nat : n \in T
  BY <1>1, <1>2, AllNumbers
<1> QED
  BY <1>3 DEF T

(* What is used of a run.                                                  *)
Runs(g, p, ones, first, size) ==
  /\ size \in Nat
  /\ g[0] = InitialRegister(p)
  /\ \A k \in 0..size : g[k] \in WidthWord(p.width)
  /\ \A k \in 0..(size - 1) : g[k + 1] = Serial(p, g[k], first + (k + 1) \in ones)

LEMMA RunIs ==
  ASSUME NEW p, NEW ones, NEW first, NEW size \in Nat
  PROVE  \E g : Runs(g, p, ones, first, size)
<1>1. PICK g : IsRun(g, p, ones, first, size)
  BY RunExists
<1>2. g[0] = InitialRegister(p)
  BY <1>1 DEF IsRun
<1>3. ASSUME NEW k \in 0..(size - 1)
      PROVE  g[k + 1] = Serial(p, g[k], first + (k + 1) \in ones)
  <2>1. k + 1 \in 0..size /\ k + 1 # 0 /\ (k + 1) - 1 = k
    OBVIOUS
  <2> QED
    BY <1>1, <2>1 DEF IsRun
<1>4. ASSUME NEW k \in 0..size PROVE g[k] \in WidthWord(p.width)
  <2>1. CASE k = 0
    BY <1>2, <2>1 DEF InitialRegister, WidthWord
  <2>2. CASE k # 0
    <3>1. k - 1 \in 0..(size - 1) /\ (k - 1) + 1 = k
      BY <2>2
    <3>2. g[k] = Serial(p, g[k - 1], first + k \in ones)
      BY <1>3, <3>1
    <3> QED
      BY <3>2 DEF Serial, WidthWord
  <2> QED
    BY <2>1, <2>2
<1> QED
  BY <1>2, <1>3, <1>4 DEF Runs

-----------------------------------------------------------------------------
(* ShiftBits, shift by shift.                                              *)
IsShifting(g, p, c, n) ==
  g = [k \in 0..n |-> IF k = 0 THEN c ELSE ShiftOut(p, g[k - 1])]

LEMMA ShiftingExists ==
  ASSUME NEW p, NEW c
  PROVE  \A n \in Nat : \E g : IsShifting(g, p, c, n)
<1> DEFINE T == {n \in Nat : \E g : IsShifting(g, p, c, n)}
<1>1. 0 \in T
  <2> DEFINE g == [k \in 0..0 |-> c]
  <2>1. IsShifting(g, p, c, 0)
    BY DEF IsShifting
  <2> QED
    BY <2>1
<1>2. ASSUME NEW n \in Nat, n \in T PROVE n + 1 \in T
  <2>1. PICK g : IsShifting(g, p, c, n)
    BY <1>2
  <2> DEFINE last == ShiftOut(p, g[n])
             h == [k \in 0..(n + 1) |-> IF k <= n THEN g[k] ELSE last]
             next(k) == IF k = 0 THEN c ELSE ShiftOut(p, h[k - 1])
  <2>2. ASSUME NEW k \in 0..(n + 1) PROVE h[k] = next(k)
    <3>1. CASE k <= n
      <4>1. h[k] = g[k] /\ k \in 0..n
        BY <3>1
      <4>2. g[k] = IF k = 0 THEN c ELSE ShiftOut(p, g[k - 1])
        BY <2>1, <4>1 DEF IsShifting
      <4>3. k # 0 => h[k - 1] = g[k - 1]
        BY <3>1
      <4> QED
        BY <4>1, <4>2, <4>3
    <3>2. CASE k = n + 1
      BY <3>2
    <3> QED
      BY <3>1, <3>2
  <2>3. h = [k \in 0..(n + 1) |-> next(k)]
    BY <2>2
  <2>4. IsShifting(h, p, c, n + 1)
    BY <2>3 DEF IsShifting
  <2> QED
    BY <2>4
<1> HIDE DEF T
<1>3. \A n \in Nat : n \in T
  BY <1>1, <1>2, AllNumbers
<1> QED
  BY <1>3 DEF T

LEMMA Shifting ==
  ASSUME NEW p, NEW c, NEW n \in Nat
  PROVE  \E g : IsShifting(g, p, c, n) /\ ShiftBits(p, c, n) = g[n]
<1> DEFINE g == CHOOSE g : IsShifting(g, p, c, n)
<1>1. IsShifting(g, p, c, n)
  BY ShiftingExists
<1>2. ShiftBits(p, c, n) = g[n]
  BY DEF ShiftBits, IsShifting
<1> QED
  BY <1>1, <1>2

(* The register c is q, with the bits that were absorbed ahead of it.      *)
Ahead(p, c, q, c0, q0, n) ==
  \A u \in Nat : Reg(p, c, u) <=> ~(u \in q <=> ~(Reg(p, c0, u + n) <=> u + n \in q0))

(* When the first n bits that were absorbed into the register are the next *)
(* n of the data, n shifts take it as far along the run; what was absorbed *)
(* beyond them stays in front.                                             *)
LEMMA ShiftBitsRun ==
  ASSUME NEW p, IsParameters(p), NEW c \in RegWord(p), NEW n \in Nat,
         NEW g, NEW ones, NEW first, NEW size, Runs(g, p, ones, first, size),
         NEW m \in Nat, m + n <= size,
         \A k \in 0..(n - 1) :
           first + (m + k + 1) \in ones <=> ~(Reg(p, c, k) <=> k \in g[m])
  PROVE  /\ ShiftBits(p, c, n) \in RegWord(p)
         /\ Ahead(p, ShiftBits(p, c, n), g[m + n], c, g[m], n)
<1>1. PICK s : IsShifting(s, p, c, n) /\ ShiftBits(p, c, n) = s[n]
  BY Shifting
<1>0. /\ size \in Nat /\ p.width \in Nat
      /\ \A k \in 0..size : g[k] \in WidthWord(p.width)
      /\ \A k \in 0..(size - 1) : g[k + 1] = Serial(p, g[k], first + (k + 1) \in ones)
  BY ParameterTypes DEF Runs
<1> DEFINE Good(k) == s[k] \in RegWord(p) /\ Ahead(p, s[k], g[m + k], c, g[m], k)
           T == {k \in Nat : k <= n => Good(k)}
<1>2. 0 \in T
  <2>1. s[0] = c
    BY <1>1 DEF IsShifting
  <2>2. m + 0 = m
    OBVIOUS
  <2>3. Ahead(p, c, g[m], c, g[m], 0)
    <3>1. \A u \in Nat : u + 0 = u
      OBVIOUS
    <3> QED
      BY <3>1 DEF Ahead
  <2> QED
    BY <2>1, <2>2, <2>3
<1>3. ASSUME NEW k \in Nat, k \in T PROVE k + 1 \in T
  <2> SUFFICES ASSUME k + 1 <= n PROVE Good(k + 1)
    OBVIOUS
  <2>1. Good(k)
    BY <1>3
  <2>2. k \in 0..(n - 1) /\ m + k \in 0..(size - 1) /\ (m + k) + 1 = m + (k + 1)
    BY <1>0
  <2>3. s[k + 1] = ShiftOut(p, s[k])
    <3>1. k + 1 \in 0..n /\ k + 1 # 0 /\ (k + 1) - 1 = k
      BY <2>2
    <3> QED
      BY <1>1, <3>1 DEF IsShifting
  <2>d. PICK d : d = s[k]
    OBVIOUS
  <2>q. PICK q \in WidthWord(p.width) : q = g[m + k]
    BY <1>0, <2>2
  <2>b. PICK bit \in BOOLEAN : bit <=> first + ((m + k) + 1) \in ones
    OBVIOUS
  <2>4. g[m + (k + 1)] = Serial(p, q, bit)
    <3>1. g[(m + k) + 1] = Serial(p, g[m + k], first + ((m + k) + 1) \in ones)
      BY <1>0, <2>2
    <3> QED
      BY <2>2, <2>q, <2>b, <3>1 DEF Serial
  <2>5. bit <=> ~(Reg(p, c, k) <=> k \in g[m])
    <3>1. first + (m + k + 1) \in ones <=> ~(Reg(p, c, k) <=> k \in g[m])
      BY <2>2
    <3> QED
      BY <2>b, <3>1
  <2>6. d \in RegWord(p) /\ Ahead(p, d, q, c, g[m], k)
    BY <2>1, <2>d, <2>q
  <2> HIDE DEF Good, T
  <2>7. /\ ShiftOut(p, d) \in RegWord(p)
        /\ \A u \in Nat : Reg(p, ShiftOut(p, d), u)
             <=> ~(Reg(p, d, u + 1) <=> (Reg(p, d, 0) /\ Feedback(p, u)))
    BY <2>6, ShiftOutRegister
  <2>8. Reg(p, d, 0) <=> ~(0 \in q <=> bit)
    <3>1. Reg(p, d, 0) <=> ~(0 \in q <=> ~(Reg(p, c, 0 + k) <=> 0 + k \in g[m]))
      BY <2>6 DEF Ahead
    <3>2. 0 + k = k
      OBVIOUS
    <3> QED
      BY <2>5, <3>1, <3>2
  <2>9. ASSUME NEW u \in Nat
        PROVE  Reg(p, ShiftOut(p, d), u)
                 <=> ~(u \in Serial(p, q, bit)
                         <=> ~(Reg(p, c, u + (k + 1)) <=> u + (k + 1) \in g[m]))
    <3>1. Reg(p, d, u + 1)
            <=> ~(u + 1 \in q <=> ~(Reg(p, c, (u + 1) + k) <=> (u + 1) + k \in g[m]))
      BY <2>6 DEF Ahead
    <3>2. (u + 1) + k = u + (k + 1)
      OBVIOUS
    <3>3. Reg(p, ShiftOut(p, d), u)
            <=> ~(Reg(p, d, u + 1) <=> (Reg(p, d, 0) /\ Feedback(p, u)))
      BY <2>7
    <3>4. u \in Serial(p, q, bit) <=> ~(u + 1 \in q <=> (~(0 \in q <=> bit) /\ Feedback(p, u)))
      <4>1. CASE u \in 0..(p.width - 1)
        BY <4>1 DEF Serial
      <4>2. CASE u \notin 0..(p.width - 1)
        <5>1. u + 1 \notin q
          BY <1>0, <2>q, <4>2 DEF WidthWord
        <5>2. ~Feedback(p, u)
          <6>1. p.width - 1 - u < 0 /\ p.polynomial \in SUBSET (0..(p.width - 1))
            BY <1>0, <4>2, ParameterTypes DEF WidthWord
          <6> QED
            BY <6>1 DEF Feedback
        <5> QED
          BY <4>2, <5>1, <5>2 DEF Serial
      <4> QED
        BY <4>1, <4>2
    <3> QED
      BY <2>8, <3>1, <3>2, <3>3, <3>4
  <2>10. Ahead(p, ShiftOut(p, d), Serial(p, q, bit), c, g[m], k + 1)
    BY <2>9 DEF Ahead
  <2> QED
    BY <2>3, <2>4, <2>7, <2>10, <2>d DEF Good
<1> HIDE DEF T
<1>4. \A k \in Nat : k \in T
  BY <1>2, <1>3, AllNumbers
<1>5. Good(n)
  BY <1>4 DEF T
<1> QED
  BY <1>1, <1>5

(* A byte that is absorbed is added to the bits that leave first.          *)
LEMMA AbsorbRegister ==
  ASSUME NEW p, IsParameters(p), NEW c \in RegWord(p), NEW byte \in Byte
  PROVE  /\ Absorb(p, c, byte) \in RegWord(p)
         /\ \A u \in Nat : Reg(p, Absorb(p, c, byte), u)
              <=> ~(Reg(p, c, u) <=> DataBit(p, byte, u))
<1>1. /\ c \in SUBSET Nat /\ p.digits \in Nat /\ p.digits >= 8
      /\ \A i \in c : i < p.digits
      /\ byte \in SUBSET Nat /\ byte \in SUBSET Int /\ \A i \in byte : i < 8
  BY ParameterTypes DEF RegWord, Byte
<1> DEFINE placed == IF p.reflectInput THEN byte ELSE ShiftLeft(byte, Top(p) - 8)
<1>2. Absorb(p, c, byte) = Cast(Xor(c, placed), p.digits)
  BY DEF Absorb, CharBit
<1>3. placed \in SUBSET Nat
  <2>1. CASE p.reflectInput
    BY <1>1, <2>1
  <2>2. CASE ~p.reflectInput
    <3>1. Top(p) - 8 \in Nat
      BY <2>2, TopIs
    <3> QED
      BY <1>1, <2>2, <3>1, WordTypes
  <2> QED
    BY <2>1, <2>2
<1>4. Absorb(p, c, byte) \in RegWord(p)
  <2>1. Xor(c, placed) \in SUBSET Nat
    BY <1>1, <1>3 DEF Xor
  <2> QED
    BY <1>1, <1>2, <2>1, WordTypes DEF RegWord
<1>5. ASSUME NEW u \in Nat
      PROVE  Reg(p, Absorb(p, c, byte), u) <=> ~(Reg(p, c, u) <=> DataBit(p, byte, u))
  <2>1. CASE p.reflectInput
    <3>1. u \in Absorb(p, c, byte) <=> ~(u \in c <=> u \in byte) /\ u < p.digits
      BY <1>2, <2>1, InCast, InXor
    <3>2. u \in c \/ u \in byte => u < p.digits
      BY <1>1
    <3>3. DataBit(p, byte, u) <=> u \in byte
      BY <1>1, <2>1 DEF DataBit
    <3> QED
      BY <2>1, <3>1, <3>2, <3>3 DEF Reg
  <2>2. CASE ~p.reflectInput
    <3>i. PICK i \in Int : i = Top(p) - 1 - u /\ i < p.digits
      BY <1>1, <2>2, TopIs
    <3>1. i \in Absorb(p, c, byte) <=> ~(i \in c <=> i \in placed)
      BY <1>2, <3>i, InCast, InXor
    <3>2. i \in placed <=> 7 - u \in byte
      <4>1. Top(p) - 8 \in Int /\ i - (Top(p) - 8) = 7 - u
        BY <2>2, <3>i, TopIs
      <4>2. i \in ShiftLeft(byte, Top(p) - 8) <=> i - (Top(p) - 8) \in byte
        BY <1>1, <4>1, InShiftLeft
      <4> QED
        BY <2>2, <4>1, <4>2
    <3>3. DataBit(p, byte, u) <=> 7 - u \in byte
      <4>1. u \notin 0..7 => 7 - u \notin byte
        BY <1>1
      <4> QED
        BY <2>2, <4>1 DEF DataBit
    <3> QED
      BY <2>2, <3>1, <3>2, <3>3, <3>i DEF Reg
  <2> QED
    BY <2>1, <2>2
<1> QED
  BY <1>4, <1>5

(* The register is q, and a remainder is.                                  *)
At(p, c, q) == c \in RegWord(p) /\ \A u \in Nat : Reg(p, c, u) <=> u \in q
Holding(p, w, q) ==
  /\ w \in RegWord(p)
  /\ \A u \in Nat : (IF p.reflectInput THEN u \in w ELSE p.width - 1 - u \in w) <=> u \in q

(* Aligning a remainder makes it a register, unaligning it a remainder.    *)
LEMMA AlignHolding ==
  ASSUME NEW p, IsParameters(p), NEW w, NEW q, Holding(p, w, q)
  PROVE  At(p, Align(p, w), q)
BY AlignType, AlignRegister DEF At, Holding

LEMMA UnalignRegister ==
  ASSUME NEW p, IsParameters(p), NEW c \in RegWord(p)
  PROVE  /\ Unalign(p, c) \in RegWord(p)
         /\ \A u \in Nat : u < p.width =>
              ((IF p.reflectInput THEN u \in Unalign(p, c) ELSE p.width - 1 - u \in Unalign(p, c))
                 <=> Reg(p, c, u))
<1>1. c \in SUBSET Nat /\ c \in SUBSET Int /\ p.width \in Nat /\ p.digits \in Nat
      /\ p.width >= 1
  BY ParameterTypes DEF RegWord
<1>2. CASE p.reflectInput
  BY <1>2 DEF Unalign, Narrow, Reg
<1>3. CASE ~p.reflectInput /\ p.width >= 8
  BY <1>1, <1>3 DEF Unalign, Narrow, Reg, Top, CharBit
<1>4. CASE ~p.reflectInput /\ p.width < 8
  <2>1. Narrow(p) /\ Top(p) = 8
    BY <1>4 DEF Narrow, Top, CharBit
  <2>k. PICK k \in Nat : k = 8 - p.width
    BY <1>1, <1>4
  <2>2. Unalign(p, c) = ShiftRight(c, k)
    BY <2>1, <2>k DEF Unalign, CharBit
  <2>3. \A i \in Int : i \in ShiftRight(c, k) <=> i + k \in c /\ i >= 0
    BY <1>1, InShiftRight
  <2>4. ShiftRight(c, k) \in SUBSET Nat
    BY <1>1, WordTypes
  <2>5. ShiftRight(c, k) \in RegWord(p)
    <3>1. ASSUME NEW i \in ShiftRight(c, k) PROVE i \in 0..(p.digits - 1)
      <4>1. i \in Nat /\ i + k \in c
        BY <2>3, <2>4
      <4>2. i + k \in 0..(p.digits - 1)
        BY <4>1 DEF RegWord
      <4> QED
        BY <1>1, <4>1, <4>2
    <3> QED
      BY <3>1 DEF RegWord
  <2>6. ASSUME NEW u \in Nat, u < p.width
        PROVE  p.width - 1 - u \in ShiftRight(c, k) <=> Reg(p, c, u)
    <3>1. p.width - 1 - u \in Int /\ p.width - 1 - u >= 0
          /\ (p.width - 1 - u) + k = 8 - 1 - u
      BY <1>1, <2>6, <2>k
    <3> QED
      BY <1>4, <2>1, <2>3, <3>1 DEF Reg
  <2> QED
    BY <1>4, <2>2, <2>5, <2>6
<1> QED
  BY <1>1, <1>2, <1>3, <1>4

LEMMA UnalignHolding ==
  ASSUME NEW p, IsParameters(p), NEW c, NEW q \in WidthWord(p.width), At(p, c, q)
  PROVE  Holding(p, Unalign(p, c), q)
<1>1. p.width \in Nat /\ c \in RegWord(p) /\ Unalign(p, c) \in RegWord(p)
  BY ParameterTypes, UnalignRegister DEF At
<1>2. ASSUME NEW u \in Nat
      PROVE  (IF p.reflectInput THEN u \in Unalign(p, c) ELSE p.width - 1 - u \in Unalign(p, c))
               <=> u \in q
  <2>1. CASE u < p.width
    BY <1>1, <2>1, UnalignRegister DEF At
  <2>2. CASE ~(u < p.width)
    <3>1. u \notin q
      BY <1>1, <2>2 DEF WidthWord
    <3>2. CASE p.reflectInput
      <4>1. Unalign(p, c) = c
        BY <3>2 DEF Unalign, Narrow
      <4> QED
        BY <3>1, <3>2, <4>1 DEF At, Reg
    <3>3. CASE ~p.reflectInput
      <4>1. p.width - 1 - u \notin Unalign(p, c)
        BY <1>1, <2>2 DEF RegWord
      <4> QED
        BY <3>1, <3>3, <4>1
    <3> QED
      BY <3>2, <3>3
  <2> QED
    BY <2>1, <2>2
<1> QED
  BY <1>1, <1>2 DEF Holding

(* The bits 1 .. n of a byte are the next n of the data.                   *)
Carries(p, byte, n, ones, before) ==
  /\ byte \in Byte
  /\ \A t \in Nat : DataBit(p, byte, t) <=> t < n /\ before + (t + 1) \in ones

(* Part of a byte: n bits of it are shifted, the others are zero.          *)
LEMMA BitsRun ==
  ASSUME NEW p, IsParameters(p), NEW g, NEW ones, NEW first \in Nat, NEW size,
         Runs(g, p, ones, first, size),
         NEW m \in Nat, NEW n \in Nat, m + n <= size,
         NEW c, At(p, c, g[m]),
         NEW byte, Carries(p, byte, n, ones, first + m)
  PROVE  At(p, ShiftBits(p, Absorb(p, c, byte), n), g[m + n])
<1>d. PICK d : d = Absorb(p, c, byte)
  OBVIOUS
<1>1. /\ d \in RegWord(p)
      /\ \A u \in Nat : Reg(p, d, u) <=> ~(u \in g[m] <=> DataBit(p, byte, u))
  BY <1>d, AbsorbRegister DEF At, Carries
<1>2. ASSUME NEW k \in 0..(n - 1)
      PROVE  first + (m + k + 1) \in ones <=> ~(Reg(p, d, k) <=> k \in g[m])
  <2>1. k \in Nat /\ k < n /\ first + (m + k + 1) = (first + m) + (k + 1)
    OBVIOUS
  <2>2. DataBit(p, byte, k) <=> (first + m) + (k + 1) \in ones
    BY <2>1 DEF Carries
  <2> QED
    BY <1>1, <2>1, <2>2
<1>3. /\ ShiftBits(p, d, n) \in RegWord(p)
      /\ Ahead(p, ShiftBits(p, d, n), g[m + n], d, g[m], n)
  BY <1>1, <1>2, ShiftBitsRun
<1>4. ASSUME NEW u \in Nat
      PROVE  Reg(p, ShiftBits(p, d, n), u) <=> u \in g[m + n]
  <2>1. u + n \in Nat /\ ~(u + n < n)
    OBVIOUS
  <2>2. ~DataBit(p, byte, u + n)
    BY <2>1 DEF Carries
  <2>3. Reg(p, d, u + n) <=> ~(u + n \in g[m] <=> DataBit(p, byte, u + n))
    BY <1>1, <2>1
  <2> QED
    BY <1>3, <2>2, <2>3 DEF Ahead
<1> QED
  BY <1>3, <1>4, <1>d DEF At

(* A byte that is shifted bit by bit.                                      *)
LEMMA CalculateByteRun ==
  ASSUME NEW p, IsParameters(p), NEW g, NEW ones, NEW first \in Nat, NEW size,
         Runs(g, p, ones, first, size),
         NEW m \in Nat, m + 8 <= size,
         NEW c, At(p, c, g[m]),
         NEW byte, Carries(p, byte, 8, ones, first + m)
  PROVE  At(p, CalculateByte(p, c, byte), g[m + 8])
BY BitsRun DEF CalculateByte, CharBit

-----------------------------------------------------------------------------
(* The table holds what eight shifts make of an index.                     *)
LEMMA IndexRun ==
  ASSUME NEW p, IsParameters(p), NEW g, NEW ones, NEW first \in Nat, NEW size,
         Runs(g, p, ones, first, size),
         NEW m \in Nat, m + 8 <= size,
         NEW byte, Carries(p, byte, 8, ones, first + m),
         NEW index \in Byte,
         \A t \in 0..7 : DataBit(p, index, t) <=> ~(t \in g[m] <=> DataBit(p, byte, t))
  PROVE  /\ CalculateByte(p, {}, index) \in RegWord(p)
         /\ \A u \in Nat : Reg(p, CalculateByte(p, {}, index), u)
              <=> ~(u \in g[m + 8] <=> u + 8 \in g[m])
<1>d. PICK d : d = Absorb(p, {}, index)
  OBVIOUS
<1>1. /\ d \in RegWord(p)
      /\ \A u \in Nat : Reg(p, d, u) <=> DataBit(p, index, u)
  <2>1. {} \in RegWord(p) /\ \A u \in Nat : ~Reg(p, {}, u)
    BY DEF RegWord, Reg
  <2> QED
    BY <1>d, <2>1, AbsorbRegister
<1>2. ASSUME NEW k \in 0..(8 - 1)
      PROVE  first + (m + k + 1) \in ones <=> ~(Reg(p, d, k) <=> k \in g[m])
  <2>1. k \in Nat /\ k \in 0..7 /\ k < 8 /\ first + (m + k + 1) = (first + m) + (k + 1)
    OBVIOUS
  <2>2. DataBit(p, byte, k) <=> (first + m) + (k + 1) \in ones
    BY <2>1 DEF Carries
  <2> QED
    BY <1>1, <2>1, <2>2
<1>3. /\ ShiftBits(p, d, 8) \in RegWord(p)
      /\ Ahead(p, ShiftBits(p, d, 8), g[m + 8], d, g[m], 8)
  BY <1>1, <1>2, ShiftBitsRun
<1>4. ASSUME NEW u \in Nat
      PROVE  Reg(p, ShiftBits(p, d, 8), u) <=> ~(u \in g[m + 8] <=> u + 8 \in g[m])
  <2>1. u + 8 \in Nat /\ u + 8 \notin 0..7
    OBVIOUS
  <2>2. ~DataBit(p, index, u + 8)
    BY <2>1 DEF DataBit
  <2>3. ~Reg(p, d, u + 8)
    BY <1>1, <2>1, <2>2
  <2> QED
    BY <1>3, <2>3 DEF Ahead
<1> QED
  BY <1>3, <1>4, <1>d DEF CalculateByte, CharBit

(* Its entry is that register, with nothing beyond the width.              *)
LEMMA TableRegister ==
  ASSUME NEW p, IsParameters(p), NEW index,
         CalculateByte(p, {}, index) \in RegWord(p)
  PROVE  /\ Table(p, index) \in RegWord(p)
         /\ \A u \in Nat : Reg(p, Table(p, index), u)
              <=> u < p.width /\ Reg(p, CalculateByte(p, {}, index), u)
<1>1. PICK c \in RegWord(p) : c = CalculateByte(p, {}, index)
  OBVIOUS
<1>2. PICK w \in RegWord(p) : w = Unalign(p, c)
  BY UnalignRegister
<1>3. Table(p, index) = Align(p, Cast(w, p.width))
  BY <1>1, <1>2 DEF Table
<1>4. Cast(w, p.width) \in RegWord(p)
  BY DEF RegWord, Cast
<1>5. Table(p, index) \in RegWord(p)
  BY <1>3, <1>4, AlignType
<1>6. ASSUME NEW u \in Nat
      PROVE  Reg(p, Table(p, index), u) <=> u < p.width /\ Reg(p, c, u)
  <2>0. p.width \in Nat /\ w \in SUBSET Nat
    BY ParameterTypes DEF RegWord
  <2>1. Reg(p, Table(p, index), u)
          <=> IF p.reflectInput THEN u \in Cast(w, p.width)
                                ELSE p.width - 1 - u \in Cast(w, p.width)
    BY <1>3, <1>4, AlignRegister
  <2>2. u < p.width => ((IF p.reflectInput THEN u \in w ELSE p.width - 1 - u \in w)
                          <=> Reg(p, c, u))
    BY <1>2, UnalignRegister
  <2>3. p.width - 1 - u < p.width /\ (~(u < p.width) => p.width - 1 - u \notin w)
    BY <2>0
  <2> QED
    BY <2>1, <2>2, <2>3, InCast
<1> QED
  BY <1>1, <1>5, <1>6

(* The index into the table: the byte added to the bits that leave next.   *)
Index(p, c, byte) ==
  Cast(Xor(IF p.reflectInput \/ Narrow(p) THEN c ELSE ShiftRight(c, p.width - 8), byte), 8)

LEMMA IndexBits ==
  ASSUME NEW p, IsParameters(p), NEW c \in RegWord(p), NEW byte \in Byte
  PROVE  /\ Index(p, c, byte) \in Byte
         /\ \A t \in 0..7 : DataBit(p, Index(p, c, byte), t)
              <=> ~(Reg(p, c, t) <=> DataBit(p, byte, t))
<1> DEFINE w == IF p.reflectInput \/ Narrow(p) THEN c ELSE ShiftRight(c, p.width - 8)
<1>1. /\ c \in SUBSET Nat /\ c \in SUBSET Int /\ p.width \in Nat /\ p.reflectInput \in BOOLEAN
      /\ byte \in SUBSET Nat
  BY ParameterTypes DEF RegWord, Byte
<1>2. w \in SUBSET Nat
  <2>1. CASE p.reflectInput \/ Narrow(p)
    BY <1>1, <2>1
  <2>2. CASE ~(p.reflectInput \/ Narrow(p))
    <3>1. p.width - 8 \in Nat
      BY <1>1, <2>2 DEF Narrow, CharBit
    <3> QED
      BY <1>1, <2>2, <3>1, WordTypes
  <2> QED
    BY <2>1, <2>2
<1>3. Index(p, c, byte) \in Byte
  <2> HIDE DEF w
  <2>1. Xor(w, byte) \in SUBSET Nat
    BY <1>1, <1>2 DEF Xor
  <2>2. Cast(Xor(w, byte), 8) \in SUBSET (0..(8 - 1))
    BY <2>1, WordTypes
  <2> QED
    BY <2>2 DEF Index, Byte, w
<1>4. ASSUME NEW i \in 0..7
      PROVE  i \in Index(p, c, byte) <=> ~(i \in w <=> i \in byte)
  BY InCast, InXor DEF Index
<1>5. ASSUME NEW t \in 0..7
      PROVE  DataBit(p, Index(p, c, byte), t) <=> ~(Reg(p, c, t) <=> DataBit(p, byte, t))
  <2>i. PICK i \in 0..7 : i = IF p.reflectInput THEN t ELSE 7 - t
    OBVIOUS
  <2>1. /\ DataBit(p, Index(p, c, byte), t) <=> i \in Index(p, c, byte)
        /\ DataBit(p, byte, t) <=> i \in byte
    BY <2>i DEF DataBit
  <2>2. Reg(p, c, t) <=> i \in w
    <3>1. CASE p.reflectInput
      BY <2>i, <3>1 DEF Reg
    <3>2. CASE ~p.reflectInput /\ p.width < 8
      <4>1. Narrow(p) /\ Top(p) = 8
        BY <3>2 DEF Narrow, Top, CharBit
      <4>2. 8 - 1 - t = 7 - t
        OBVIOUS
      <4> QED
        BY <2>i, <3>2, <4>1, <4>2 DEF Reg
    <3>3. CASE ~p.reflectInput /\ p.width >= 8
      <4>1. ~Narrow(p) /\ Top(p) = p.width
        BY <1>1, <3>3 DEF Narrow, Top, CharBit
      <4>2. p.width - 8 \in Int
        BY <1>1
      <4>3. i \in ShiftRight(c, p.width - 8) <=> i + (p.width - 8) \in c /\ i >= 0
        BY <1>1, <4>2, InShiftRight
      <4>4. i + (p.width - 8) = p.width - 1 - t
        BY <1>1, <2>i, <3>3
      <4> QED
        BY <2>i, <3>3, <4>1, <4>3, <4>4 DEF Reg
    <3> QED
      BY <1>1, <3>1, <3>2, <3>3
  <2> HIDE DEF w
  <2> QED
    BY <1>4, <2>1, <2>2
<1> QED
  BY <1>3, <1>5

(* What a byte adds to, when its entry is looked up.                       *)
Kept(p, c) ==
  IF p.reflectInput THEN ShiftRight(c, 8)
  ELSE IF Narrow(p) THEN {} ELSE Cast(ShiftLeft(c, 8), p.digits)

(* It is the register, eight places on.                                    *)
LEMMA KeptRegister ==
  ASSUME NEW p, IsParameters(p), NEW c, NEW q \in WidthWord(p.width), At(p, c, q)
  PROVE  /\ Kept(p, c) \in RegWord(p)
         /\ \A u \in Nat : Reg(p, Kept(p, c), u) <=> u + 8 \in q
<1>1. /\ c \in RegWord(p) /\ c \in SUBSET Nat /\ c \in SUBSET Int /\ p.digits \in Nat
      /\ p.width \in Nat /\ p.reflectInput \in BOOLEAN
      /\ \A i \in c : i < p.digits
  <2>1. c \in RegWord(p)
    BY DEF At
  <2>2. p.digits \in Nat /\ p.width \in Nat /\ p.reflectInput \in BOOLEAN
    BY ParameterTypes
  <2>3. \A i \in c : i \in Nat /\ i \in Int /\ i < p.digits
    BY <2>1, <2>2 DEF RegWord
  <2> QED
    BY <2>1, <2>2, <2>3
<1>0. ASSUME NEW u \in Nat PROVE Reg(p, c, u + 8) <=> u + 8 \in q
  BY DEF At
<1>2. CASE p.reflectInput
  <2>1. Kept(p, c) = ShiftRight(c, 8)
    BY <1>2 DEF Kept
  <2>2. \A i \in Int : i \in ShiftRight(c, 8) <=> i + 8 \in c /\ i >= 0
    BY <1>1, InShiftRight
  <2>3. ShiftRight(c, 8) \in SUBSET Nat
    BY <1>1, WordTypes
  <2>4. ASSUME NEW i \in ShiftRight(c, 8) PROVE i \in 0..(p.digits - 1)
    <3>1. i \in Nat /\ i + 8 \in c
      BY <2>2, <2>3
    <3>2. i + 8 < p.digits
      BY <1>1, <3>1
    <3> QED
      BY <1>1, <3>1, <3>2
  <2>5. ASSUME NEW u \in Nat PROVE Reg(p, Kept(p, c), u) <=> u + 8 \in q
    <3>1. u \in ShiftRight(c, 8) <=> u + 8 \in c
      BY <2>2
    <3> QED
      BY <1>0, <1>2, <2>1, <3>1 DEF Reg
  <2> QED
    BY <2>1, <2>4, <2>5 DEF RegWord
<1>3. CASE ~p.reflectInput /\ p.width < 8
  <2>1. Kept(p, c) = {}
    BY <1>3 DEF Kept, Narrow, CharBit
  <2>2. ASSUME NEW u \in Nat PROVE u + 8 \notin q
    BY <1>1, <1>3 DEF WidthWord
  <2> QED
    BY <1>3, <2>1, <2>2 DEF Reg, RegWord
<1>4. CASE ~p.reflectInput /\ p.width >= 8
  <2>1. Kept(p, c) = Cast(ShiftLeft(c, 8), p.digits)
    BY <1>1, <1>4 DEF Kept, Narrow, CharBit
  <2>2. Kept(p, c) \in RegWord(p)
    BY <1>1, <2>1, WordTypes DEF RegWord
  <2>3. ASSUME NEW u \in Nat PROVE Reg(p, Kept(p, c), u) <=> u + 8 \in q
    <3>i. PICK i \in Int : i = Top(p) - 1 - u /\ i < p.digits
      BY <1>1, <1>4, TopIs
    <3>1. i \in Kept(p, c) <=> i - 8 \in c
      BY <1>1, <2>1, <3>i, InCast, InShiftLeft
    <3>2. i - 8 = Top(p) - 1 - (u + 8)
      BY <1>4, <3>i, TopIs
    <3> QED
      BY <1>0, <1>4, <3>1, <3>2, <3>i DEF Reg
  <2> QED
    BY <2>2, <2>3
<1> QED
  BY <1>1, <1>2, <1>3, <1>4

(* In all three variants the entry is added to what is kept ...            *)
LEMMA LookupByteIs ==
  ASSUME NEW p, IsParameters(p), NEW c \in RegWord(p), NEW byte \in Byte,
         Table(p, Index(p, c, byte)) \in RegWord(p)
  PROVE  LookupByte(p, c, byte) = Xor(Kept(p, c), Table(p, Index(p, c, byte)))
<1>i. PICK index : index = Index(p, c, byte)
  OBVIOUS
<1>e. PICK e \in RegWord(p) : e = Table(p, index)
  BY <1>i
<1>1. p.digits \in Nat /\ p.width \in Nat /\ p.reflectInput \in BOOLEAN
  BY ParameterTypes
<1>2. CASE p.reflectInput
  <2>1. index = Cast(Xor(c, byte), 8)
    BY <1>2, <1>i DEF Index
  <2> QED
    BY <1>2, <1>i, <1>e, <2>1 DEF LookupByte, Kept, CharBit
<1>3. CASE ~p.reflectInput /\ Narrow(p)
  <2>1. index = Cast(Xor(c, byte), 8)
    BY <1>3, <1>i DEF Index
  <2>2. LookupByte(p, c, byte) = e /\ Kept(p, c) = {}
    BY <1>3, <1>e, <2>1 DEF LookupByte, Kept, CharBit
  <2>3. Xor({}, e) = e
    BY DEF Xor
  <2> QED
    BY <1>i, <1>e, <2>2, <2>3
<1>4. CASE ~p.reflectInput /\ ~Narrow(p)
  <2>1. index = Cast(Xor(ShiftRight(c, p.width - 8), byte), 8)
    BY <1>4, <1>i DEF Index
  <2>2. LookupByte(p, c, byte) = Cast(Xor(ShiftLeft(c, 8), e), p.digits)
    BY <1>4, <1>e, <2>1 DEF LookupByte, CharBit
  <2>3. Kept(p, c) = Cast(ShiftLeft(c, 8), p.digits)
    BY <1>4 DEF Kept
  <2>4. \A i \in e : i < p.digits
    BY <1>1 DEF RegWord
  <2>5. Cast(Xor(ShiftLeft(c, 8), e), p.digits) = Xor(Cast(ShiftLeft(c, 8), p.digits), e)
    BY <2>4 DEF Xor, Cast
  <2> QED
    BY <1>i, <1>e, <2>2, <2>3, <2>5
<1> QED
  BY <1>1, <1>2, <1>3, <1>4

(* ... and that is eight steps of the run.                                 *)
LEMMA LookupByteRun ==
  ASSUME NEW p, IsParameters(p), NEW g, NEW ones, NEW first \in Nat, NEW size,
         Runs(g, p, ones, first, size),
         NEW m \in Nat, m + 8 <= size,
         NEW c, At(p, c, g[m]),
         NEW byte, Carries(p, byte, 8, ones, first + m)
  PROVE  At(p, LookupByte(p, c, byte), g[m + 8])
<1>1. /\ c \in RegWord(p) /\ byte \in Byte /\ p.width \in Nat
      /\ g[m] \in WidthWord(p.width) /\ g[m + 8] \in WidthWord(p.width)
  <2>1. m \in 0..size /\ m + 8 \in 0..size
    BY DEF Runs
  <2> QED
    BY <2>1, ParameterTypes DEF Runs, At, Carries
<1>i. PICK index : index = Index(p, c, byte)
  OBVIOUS
<1>2. /\ index \in Byte
      /\ \A t \in 0..7 : DataBit(p, index, t) <=> ~(t \in g[m] <=> DataBit(p, byte, t))
  <2>1. \A t \in 0..7 : Reg(p, c, t) <=> t \in g[m]
    BY DEF At
  <2> QED
    BY <1>1, <1>i, <2>1, IndexBits
<1>3. /\ CalculateByte(p, {}, index) \in RegWord(p)
      /\ \A u \in Nat : Reg(p, CalculateByte(p, {}, index), u)
           <=> ~(u \in g[m + 8] <=> u + 8 \in g[m])
  BY <1>2, IndexRun
<1>4. /\ Table(p, index) \in RegWord(p)
      /\ \A u \in Nat : Reg(p, Table(p, index), u)
           <=> u < p.width /\ Reg(p, CalculateByte(p, {}, index), u)
  BY <1>3, TableRegister
<1>5. /\ Kept(p, c) \in RegWord(p)
      /\ \A u \in Nat : Reg(p, Kept(p, c), u) <=> u + 8 \in g[m]
  BY <1>1, KeptRegister
<1>6. LookupByte(p, c, byte) = Xor(Kept(p, c), Table(p, index))
  BY <1>1, <1>4, <1>i, LookupByteIs
<1>7. ASSUME NEW u \in Nat
      PROVE  Reg(p, Xor(Kept(p, c), Table(p, index)), u) <=> u \in g[m + 8]
  <2>1. Reg(p, Xor(Kept(p, c), Table(p, index)), u)
          <=> ~(Reg(p, Kept(p, c), u) <=> Reg(p, Table(p, index), u))
    BY <1>4, <1>5, XorRegister
  <2>2. ~(u < p.width) => u \notin g[m + 8] /\ u + 8 \notin g[m]
    BY <1>1 DEF WidthWord
  <2> QED
    BY <1>3, <1>4, <1>5, <2>1, <2>2
<1>8. Xor(Kept(p, c), Table(p, index)) \in RegWord(p)
  BY <1>4, <1>5 DEF Xor, RegWord
<1> QED
  BY <1>6, <1>7, <1>8 DEF At

(* CalculateRemainder, byte by byte.                                       *)
IsTaking(a, data, p, lookup, c, n) ==
  a = [i \in 0..n |-> IF i = 0 THEN c ELSE TakeByte(p, lookup, a[i - 1], data[i])]

LEMMA TakingExists ==
  ASSUME NEW data, NEW p, NEW lookup, NEW c
  PROVE  \A n \in Nat : \E a : IsTaking(a, data, p, lookup, c, n)
<1> DEFINE T == {n \in Nat : \E a : IsTaking(a, data, p, lookup, c, n)}
<1>1. 0 \in T
  <2> DEFINE a == [i \in 0..0 |-> c]
  <2>1. IsTaking(a, data, p, lookup, c, 0)
    BY DEF IsTaking
  <2> QED
    BY <2>1
<1>2. ASSUME NEW n \in Nat, n \in T PROVE n + 1 \in T
  <2>1. PICK a : IsTaking(a, data, p, lookup, c, n)
    BY <1>2
  <2> DEFINE last == TakeByte(p, lookup, a[n], data[n + 1])
             h == [i \in 0..(n + 1) |-> IF i <= n THEN a[i] ELSE last]
             next(i) == IF i = 0 THEN c ELSE TakeByte(p, lookup, h[i - 1], data[i])
  <2>2. ASSUME NEW i \in 0..(n + 1) PROVE h[i] = next(i)
    <3>1. CASE i <= n
      <4>1. h[i] = a[i] /\ i \in 0..n
        BY <3>1
      <4>2. a[i] = IF i = 0 THEN c ELSE TakeByte(p, lookup, a[i - 1], data[i])
        BY <2>1, <4>1 DEF IsTaking
      <4>3. i # 0 => h[i - 1] = a[i - 1]
        BY <3>1
      <4> QED
        BY <4>1, <4>2, <4>3
    <3>2. CASE i = n + 1
      BY <3>2
    <3> QED
      BY <3>1, <3>2
  <2>3. h = [i \in 0..(n + 1) |-> next(i)]
    BY <2>2
  <2>4. IsTaking(h, data, p, lookup, c, n + 1)
    BY <2>3 DEF IsTaking
  <2> QED
    BY <2>4
<1> HIDE DEF T
<1>3. \A n \in Nat : n \in T
  BY <1>1, <1>2, AllNumbers
<1> QED
  BY <1>3 DEF T

LEMMA Taking ==
  ASSUME NEW data, NEW p, NEW lookup, NEW w, Len(data) \in Nat
  PROVE  \E a : /\ IsTaking(a, data, p, lookup, Align(p, w), Len(data))
                /\ CalculateRemainder(data, p, lookup, w) = Unalign(p, a[Len(data)])
<1> DEFINE a == CHOOSE a : IsTaking(a, data, p, lookup, Align(p, w), Len(data))
<1>1. IsTaking(a, data, p, lookup, Align(p, w), Len(data))
  BY TakingExists
<1>2. CalculateRemainder(data, p, lookup, w) = Unalign(p, a[Len(data)])
  BY DEF CalculateRemainder, IsTaking
<1> QED
  BY <1>1, <1>2

(* With the table or without, a byte is eight steps of the run.            *)
LEMMA TakeByteRun ==
  ASSUME NEW p, IsParameters(p), NEW g, NEW ones, NEW first \in Nat, NEW size,
         Runs(g, p, ones, first, size),
         NEW m \in Nat, m + 8 <= size,
         NEW c, At(p, c, g[m]), NEW lookup \in BOOLEAN,
         NEW byte, Carries(p, byte, 8, ones, first + m)
  PROVE  At(p, TakeByte(p, lookup, c, byte), g[m + 8])
BY LookupByteRun, CalculateByteRun DEF TakeByte

(* The bytes of the data are the next bits of the run.                     *)
BytesCarry(p, data, ones, before) ==
  /\ Len(data) \in Nat
  /\ \A i \in 1..Len(data) : Carries(p, data[i], 8, ones, before + 8 * (i - 1))

(* And so are all the bytes, one after the other.                          *)
LEMMA CalculateRemainderRun ==
  ASSUME NEW p, IsParameters(p), NEW g, NEW ones, NEW first \in Nat, NEW size,
         Runs(g, p, ones, first, size),
         NEW m \in Nat, NEW data, NEW lookup \in BOOLEAN,
         BytesCarry(p, data, ones, first + m), m + 8 * Len(data) <= size,
         NEW w, Holding(p, w, g[m])
  PROVE  Holding(p, CalculateRemainder(data, p, lookup, w), g[m + 8 * Len(data)])
<1>n. PICK n \in Nat : n = Len(data)
  BY DEF BytesCarry
<1>a. PICK a : /\ IsTaking(a, data, p, lookup, Align(p, w), n)
               /\ CalculateRemainder(data, p, lookup, w) = Unalign(p, a[n])
  BY <1>n, Taking
<1> DEFINE T == {i \in Nat : i <= n => At(p, a[i], g[m + 8 * i])}
<1>1. 0 \in T
  <2>1. a[0] = Align(p, w) /\ m + 8 * 0 = m
    BY <1>a DEF IsTaking
  <2>2. At(p, Align(p, w), g[m])
    BY AlignHolding
  <2> QED
    BY <2>1, <2>2
<1>2. ASSUME NEW i \in Nat, i \in T PROVE i + 1 \in T
  <2> SUFFICES ASSUME i + 1 <= n PROVE At(p, a[i + 1], g[m + 8 * (i + 1)])
    OBVIOUS
  <2>k. PICK k \in Nat : k = m + 8 * i
    OBVIOUS
  <2>1. k + 8 = m + 8 * (i + 1) /\ k + 8 <= size
    <3>1. size \in Nat
      BY DEF Runs
    <3> QED
      BY <1>n, <2>k, <3>1
  <2>c. PICK c : c = a[i] /\ At(p, c, g[k])
    BY <1>2, <2>k
  <2>b. PICK byte : byte = data[i + 1]
    OBVIOUS
  <2>2. Carries(p, byte, 8, ones, first + k)
    <3>1. i + 1 \in 1..Len(data) /\ (first + m) + 8 * ((i + 1) - 1) = first + k
      BY <1>n, <2>k
    <3> QED
      BY <2>b, <3>1 DEF BytesCarry
  <2>3. a[i + 1] = TakeByte(p, lookup, c, byte)
    <3>1. i + 1 \in 0..n /\ i + 1 # 0 /\ (i + 1) - 1 = i
      OBVIOUS
    <3> QED
      BY <1>a, <2>b, <2>c, <3>1 DEF IsTaking
  <2>4. At(p, TakeByte(p, lookup, c, byte), g[k + 8])
    <3> HIDE DEF T
    <3> QED
      BY <2>1, <2>2, <2>c, TakeByteRun
  <2> QED
    BY <2>1, <2>3, <2>4
<1> HIDE DEF T
<1>3. \A i \in Nat : i \in T
  BY <1>1, <1>2, AllNumbers
<1>4. At(p, a[n], g[m + 8 * n])
  BY <1>3 DEF T
<1>5. g[m + 8 * n] \in WidthWord(p.width)
  <2>1. m + 8 * n \in 0..size
    BY <1>n DEF Runs
  <2> QED
    BY <2>1 DEF Runs
<1> QED
  BY <1>4, <1>5, <1>a, <1>n, UnalignHolding

(* The bits after the whole bytes.                                         *)
LEMMA CalculateRemainderBitsRun ==
  ASSUME NEW p, IsParameters(p), NEW g, NEW ones, NEW first \in Nat, NEW size,
         Runs(g, p, ones, first, size),
         NEW m \in Nat, NEW n \in Nat, m + n <= size,
         NEW byte, Carries(p, byte, n, ones, first + m),
         NEW w, Holding(p, w, g[m])
  PROVE  Holding(p, CalculateRemainderBits(byte, n, p, w), g[m + n])
<1>c. PICK c : c = Align(p, w) /\ At(p, c, g[m])
  BY AlignHolding
<1>1. At(p, ShiftBits(p, Absorb(p, c, byte), n), g[m + n])
  BY <1>c, BitsRun
<1>2. g[m + n] \in WidthWord(p.width)
  <2>1. m + n \in 0..size
    BY DEF Runs
  <2> QED
    BY <2>1 DEF Runs
<1> QED
  BY <1>1, <1>2, <1>c, UnalignHolding DEF CalculateRemainderBits

-----------------------------------------------------------------------------
(* The CRC, when the register is q.                                        *)
CrcOf(p, q) == Xor(IF p.reflectOutput THEN q ELSE Reflect(q, p.width), p.finalXOR)

(* A calculation starts with the initial value, ends with Finalize, and is *)
(* taken up with UndoFinalize.                                             *)
LEMMA InitialHolding ==
  ASSUME NEW p, IsParameters(p)
  PROVE  /\ Holding(p, p.initialValue, InitialRegister(p))
         /\ InitialRegister(p) \in WidthWord(p.width)
<1>1. /\ p.width \in Nat /\ p.digits \in Nat /\ p.digits >= p.width
      /\ p.initialValue \in SUBSET (0..(p.width - 1))
  BY ParameterTypes DEF WidthWord
<1>2. p.initialValue \in RegWord(p)
  BY <1>1 DEF RegWord
<1>3. ASSUME NEW u \in Nat
      PROVE  (IF p.reflectInput THEN u \in p.initialValue ELSE p.width - 1 - u \in p.initialValue)
               <=> u \in InitialRegister(p)
  <2>1. u \notin 0..(p.width - 1) => u \notin p.initialValue /\ p.width - 1 - u \notin p.initialValue
    BY <1>1
  <2> QED
    BY <2>1 DEF InitialRegister
<1> QED
  BY <1>2, <1>3 DEF Holding, InitialRegister, WidthWord

LEMMA FinalizeHolding ==
  ASSUME NEW p, IsParameters(p), NEW q \in WidthWord(p.width), NEW w, Holding(p, w, q)
  PROVE  Finalize(p, w) = CrcOf(p, q)
<1>1. /\ p.width \in Nat /\ p.finalXOR \in SUBSET (0..(p.width - 1))
      /\ \A i \in p.finalXOR : i < p.width
      /\ p.reflectInput \in BOOLEAN /\ p.reflectOutput \in BOOLEAN
      /\ q \in SUBSET (0..(p.width - 1)) /\ q \in SUBSET Int /\ q \in SUBSET Nat
      /\ w \in SUBSET Nat /\ w \in SUBSET Int
  BY ParameterTypes DEF WidthWord, Holding, RegWord
<1>m. PICK mirrored \in SUBSET (0..(p.width - 1)) : mirrored = Reflect(q, p.width)
  BY <1>1, WordTypes
<1>2. ASSUME NEW a \in SUBSET Nat, NEW b \in SUBSET (0..(p.width - 1)), Cast(a, p.width) = b
      PROVE  Cast(Xor(a, p.finalXOR), p.width) = Xor(b, p.finalXOR)
  BY <1>1, <1>2 DEF Cast, Xor
<1>3. CASE p.reflectInput
  <2>1. w = q
    <3>1. \A u \in Nat : u \in w <=> u \in q
      BY <1>3 DEF Holding
    <3> QED
      BY <1>1, <3>1
  <2>2. Cast(q, p.width) = q /\ Cast(mirrored, p.width) = mirrored
    <3>1. /\ \A i \in q : i < p.width
          /\ \A i \in mirrored : i < p.width
      BY <1>1
    <3> QED
      BY <3>1 DEF Cast
  <2>3. Finalize(p, w) = Cast(Xor(IF p.reflectOutput THEN q ELSE mirrored, p.finalXOR), p.width)
    BY <1>1, <1>3, <1>m, <2>1 DEF Finalize
  <2>4. CASE p.reflectOutput
    BY <1>1, <1>2, <2>2, <2>3, <2>4 DEF CrcOf
  <2>5. CASE ~p.reflectOutput
    <3>1. mirrored \in SUBSET Nat
      BY <1>1
    <3>2. Cast(Xor(mirrored, p.finalXOR), p.width) = Xor(mirrored, p.finalXOR)
      BY <1>2, <2>2, <3>1
    <3> QED
      BY <1>m, <2>3, <2>5, <3>2 DEF CrcOf
  <2> QED
    BY <2>4, <2>5
<1>4. CASE ~p.reflectInput
  <2>1. ASSUME NEW u \in Nat PROVE p.width - 1 - u \in w <=> u \in q
    BY <1>4 DEF Holding
  <2>2. Cast(w, p.width) = mirrored
    <3>1. ASSUME NEW i PROVE i \in Cast(w, p.width) <=> i \in mirrored
      <4>1. CASE i \in 0..(p.width - 1)
        <5>u. PICK u \in Nat : u = p.width - 1 - i /\ i = p.width - 1 - u
          BY <1>1, <4>1
        <5>1. i \in Cast(w, p.width) <=> i \in w
          BY <1>1, <4>1, InCast
        <5>2. i \in mirrored <=> u \in q
          <6>1. i \in Int /\ i >= 0
            BY <4>1
          <6> QED
            BY <1>1, <1>m, <5>u, <6>1, InReflect
        <5> QED
          BY <2>1, <5>1, <5>2, <5>u
      <4>2. CASE i \notin 0..(p.width - 1)
        <5>1. i \in w => i \in Nat
          BY <1>1
        <5>2. i \in w => ~(i < p.width)
          BY <1>1, <4>2, <5>1
        <5> QED
          BY <4>2, <5>2, InCast
      <4> QED
        BY <4>1, <4>2
    <3> QED
      BY <3>1
  <2>3. Reflect(w, p.width) = q
    <3>1. ASSUME NEW i PROVE i \in Reflect(w, p.width) <=> i \in q
      <4>1. CASE i \in Nat
        BY <1>1, <2>1, <4>1, InReflect
      <4>2. CASE i \notin Nat
        <5>1. Reflect(w, p.width) \in SUBSET (0..(p.width - 1))
          BY <1>1, WordTypes
        <5>2. i \notin 0..(p.width - 1)
          BY <1>1, <4>2
        <5> QED
          BY <1>1, <5>1, <5>2, Zenon
      <4> QED
        BY <4>1, <4>2
    <3> QED
      BY <3>1
  <2>4. CASE p.reflectOutput
    <3>1. Finalize(p, w) = Cast(Xor(q, p.finalXOR), p.width)
      BY <1>1, <1>4, <2>3, <2>4 DEF Finalize
    <3>2. Cast(q, p.width) = q
      BY <1>1 DEF Cast
    <3> QED
      BY <1>1, <1>2, <2>4, <3>1, <3>2 DEF CrcOf
  <2>5. CASE ~p.reflectOutput
    <3>1. Finalize(p, w) = Cast(Xor(w, p.finalXOR), p.width)
      BY <1>1, <1>4, <2>5 DEF Finalize
    <3>2. Cast(Xor(w, p.finalXOR), p.width) = Xor(mirrored, p.finalXOR)
      BY <1>1, <1>2, <2>2
    <3> QED
      BY <1>m, <2>5, <3>1, <3>2 DEF CrcOf
  <2> QED
    BY <2>4, <2>5
<1> QED
  BY <1>1, <1>3, <1>4

LEMMA UndoFinalizeHolding ==
  ASSUME NEW p, IsParameters(p), NEW q \in WidthWord(p.width)
  PROVE  Holding(p, UndoFinalize(p, CrcOf(p, q)), q)
<1>1. /\ p.width \in Nat /\ p.finalXOR \in WidthWord(p.width) /\ p.digits \in Nat
      /\ p.digits >= p.width /\ p.reflectInput \in BOOLEAN
      /\ q \in SUBSET Int /\ q \in SUBSET Nat /\ \A u \in q : u < p.width
  BY ParameterTypes DEF WidthWord
<1>v. PICK v : v = IF p.reflectInput THEN q ELSE Reflect(q, p.width)
  OBVIOUS
<1>2. v \in WidthWord(p.width)
  BY <1>1, <1>v, WordTypes DEF WidthWord
<1>3. ASSUME NEW u \in Nat
      PROVE  (IF p.reflectInput THEN u \in v ELSE p.width - 1 - u \in v) <=> u \in q
  <2>1. CASE p.reflectInput
    BY <1>v, <2>1
  <2>2. CASE ~p.reflectInput
    <3>i. PICK i \in Int : i = p.width - 1 - u /\ p.width - 1 - i = u
      BY <1>1
    <3>1. i \in Reflect(q, p.width) <=> p.width - 1 - i \in q /\ i >= 0
      BY <1>1, InReflect
    <3>2. u \in q => i >= 0
      BY <1>1, <3>i
    <3> QED
      BY <1>v, <2>2, <3>i, <3>1, <3>2
  <2> QED
    BY <2>1, <2>2
<1>4. Holding(p, v, q)
  <2>1. v \in RegWord(p)
    BY <1>1, <1>2 DEF WidthWord, RegWord
  <2> QED
    BY <1>3, <2>1 DEF Holding
<1>5. Finalize(p, v) = CrcOf(p, q)
  BY <1>4, FinalizeHolding
<1>6. UndoFinalize(p, Finalize(p, v)) = v
  BY <1>1, <1>2, FinalizeIsUndone
<1> QED
  BY <1>4, <1>5, <1>6

(* The division, reduction by reduction.                                   *)
Dividend(p, ones, first, size) ==
  Xor({p.width + first + size - i : i \in ones \cap (first + 1)..(first + size)},
      ShiftLeft(IF p.reflectInput THEN Reflect(p.initialValue, p.width) ELSE p.initialValue,
                size))

IsDividing(r, p, dividend, size, n) ==
  r = [d \in 0..n |-> IF d = 0 THEN dividend ELSE Reduced(p, r[d - 1], size - d)]

LEMMA DividingExists ==
  ASSUME NEW p, NEW dividend, NEW size
  PROVE  \A n \in Nat : \E r : IsDividing(r, p, dividend, size, n)
<1> DEFINE T == {n \in Nat : \E r : IsDividing(r, p, dividend, size, n)}
<1>1. 0 \in T
  <2> DEFINE r == [d \in 0..0 |-> dividend]
  <2>1. IsDividing(r, p, dividend, size, 0)
    BY DEF IsDividing
  <2> QED
    BY <2>1
<1>2. ASSUME NEW n \in Nat, n \in T PROVE n + 1 \in T
  <2>1. PICK r : IsDividing(r, p, dividend, size, n)
    BY <1>2
  <2> DEFINE last == Reduced(p, r[n], size - (n + 1))
             h == [d \in 0..(n + 1) |-> IF d <= n THEN r[d] ELSE last]
             next(d) == IF d = 0 THEN dividend ELSE Reduced(p, h[d - 1], size - d)
  <2>2. ASSUME NEW d \in 0..(n + 1) PROVE h[d] = next(d)
    <3>1. CASE d <= n
      <4>1. h[d] = r[d] /\ d \in 0..n
        BY <3>1
      <4>2. r[d] = IF d = 0 THEN dividend ELSE Reduced(p, r[d - 1], size - d)
        BY <2>1, <4>1 DEF IsDividing
      <4>3. d # 0 => h[d - 1] = r[d - 1]
        BY <3>1
      <4> QED
        BY <4>1, <4>2, <4>3
    <3>2. CASE d = n + 1
      BY <3>2
    <3> QED
      BY <3>1, <3>2
  <2>3. h = [d \in 0..(n + 1) |-> next(d)]
    BY <2>2
  <2>4. IsDividing(h, p, dividend, size, n + 1)
    BY <2>3 DEF IsDividing
  <2> QED
    BY <2>4
<1> HIDE DEF T
<1>3. \A n \in Nat : n \in T
  BY <1>1, <1>2, AllNumbers
<1> QED
  BY <1>3 DEF T

LEMMA Dividing ==
  ASSUME NEW p, NEW ones, NEW first, NEW size \in Nat
  PROVE  \E r : /\ IsDividing(r, p, Dividend(p, ones, first, size), size, size)
                /\ Remainder(p, ones, first, size) = r[size]
<1> DEFINE r == CHOOSE r : IsDividing(r, p, Dividend(p, ones, first, size), size, size)
<1>1. IsDividing(r, p, Dividend(p, ones, first, size), size, size)
  BY DividingExists
<1>2. Remainder(p, ones, first, size) = r[size]
  BY DEF Remainder, IsDividing, Dividend
<1> QED
  BY <1>1, <1>2

(* After d reductions the dividend, from its highest bit on, is the        *)
(* register with the bits added that did not enter it yet.                 *)
Upcoming(ones, first, size, j) == j <= size /\ first + j \in ones
Divided(p, r, q, ones, first, size, d) ==
  /\ r \subseteq Int
  /\ \A u \in Int : p.width + size - 1 - d - u \in r
       <=> u >= 0 /\ ~(u \in q <=> Upcoming(ones, first, size, d + u + 1))

(* Before the division: the initial value in front of the data.            *)
LEMMA DividendRun ==
  ASSUME NEW p, IsParameters(p), NEW ones, NEW first \in Nat, NEW size \in Nat
  PROVE  Divided(p, Dividend(p, ones, first, size), InitialRegister(p), ones, first, size, 0)
<1>1. /\ p.width \in Nat /\ p.initialValue \in SUBSET (0..(p.width - 1))
      /\ p.initialValue \in SUBSET Int /\ p.initialValue \in SUBSET Nat
  BY ParameterTypes DEF WidthWord
<1> DEFINE data    == {p.width + first + size - i : i \in ones \cap (first + 1)..(first + size)}
           initial == IF p.reflectInput THEN Reflect(p.initialValue, p.width) ELSE p.initialValue
<1>2. initial \in SUBSET (0..(p.width - 1))
  BY <1>1, WordTypes
<1>3. ASSUME NEW u \in Int
      PROVE  p.width + size - 1 - 0 - u \in data
               <=> u >= 0 /\ Upcoming(ones, first, size, 0 + u + 1)
  <2>1. ASSUME p.width + size - 1 - 0 - u \in data
        PROVE  u >= 0 /\ Upcoming(ones, first, size, 0 + u + 1)
    <3>1. PICK i \in ones \cap (first + 1)..(first + size) :
            p.width + size - 1 - 0 - u = p.width + first + size - i
      BY <2>1
    <3>i. i \in (first + 1)..(first + size)
      BY <3>1
    <3>2. i = first + (0 + u + 1) /\ i >= first + 1 /\ i <= first + size
      BY <1>1, <3>1, <3>i
    <3>3. u >= 0 /\ 0 + u + 1 <= size
      BY <3>2
    <3> QED
      BY <3>1, <3>2, <3>3 DEF Upcoming
  <2>2. ASSUME u >= 0, Upcoming(ones, first, size, 0 + u + 1)
        PROVE  p.width + size - 1 - 0 - u \in data
    <3>i. PICK i \in Int : i = first + (0 + u + 1)
      OBVIOUS
    <3>1. i \in ones \cap (first + 1)..(first + size)
      BY <2>2, <3>i DEF Upcoming
    <3>2. p.width + size - 1 - 0 - u = p.width + first + size - i
      BY <1>1, <3>i
    <3> QED
      BY <3>1, <3>2
  <2> QED
    BY <2>1, <2>2
<1>4. ASSUME NEW u \in Int
      PROVE  p.width + size - 1 - 0 - u \in ShiftLeft(initial, size) <=> u \in InitialRegister(p)
  <2>i. PICK i \in Int : i = p.width - 1 - u /\ p.width + size - 1 - 0 - u = i + size
    BY <1>1
  <2>1. i + size \in ShiftLeft(initial, size) <=> i \in initial
    <3>1. initial \in SUBSET Int
      BY <1>2
    <3>2. i + size \in Int /\ (i + size) - size = i
      OBVIOUS
    <3> HIDE DEF initial
    <3> QED
      BY <3>1, <3>2, InShiftLeft
  <2>2. i \in initial <=> u \in InitialRegister(p)
    <3>1. CASE p.reflectInput
      <4>1. i \in Reflect(p.initialValue, p.width) <=> p.width - 1 - i \in p.initialValue /\ i >= 0
        BY <1>1, InReflect
      <4>2. p.width - 1 - i = u
        BY <1>1, <2>i
      <4>3. u \in p.initialValue => u \in 0..(p.width - 1) /\ i >= 0
        BY <1>1, <2>i
      <4> QED
        BY <3>1, <4>1, <4>2, <4>3 DEF InitialRegister
    <3>2. CASE ~p.reflectInput
      <4>1. i \in p.initialValue => u \in 0..(p.width - 1)
        BY <1>1, <2>i
      <4> QED
        BY <2>i, <3>2, <4>1 DEF InitialRegister
    <3> QED
      BY <3>1, <3>2
  <2> QED
    BY <2>1, <2>2, <2>i
<1>5. \A u \in InitialRegister(p) : u >= 0
  BY DEF InitialRegister
<1>6. Dividend(p, ones, first, size) = Xor(data, ShiftLeft(initial, size))
  BY DEF Dividend
<1>7. Dividend(p, ones, first, size) \subseteq Int
  <2>1. data \subseteq Int
    BY <1>1
  <2>2. ShiftLeft(initial, size) \subseteq Int
    <3>1. initial \in SUBSET Nat
      BY <1>2
    <3> HIDE DEF initial
    <3>2. ShiftLeft(initial, size) \in SUBSET Nat
      BY <3>1, WordTypes
    <3> QED
      BY <3>2
  <2> HIDE DEF data, initial
  <2> QED
    BY <1>6, <2>1, <2>2 DEF Xor
<1> HIDE DEF data, initial
<1>8. ASSUME NEW u \in Int
      PROVE  p.width + size - 1 - 0 - u \in Dividend(p, ones, first, size)
               <=> u >= 0 /\ ~(u \in InitialRegister(p) <=> Upcoming(ones, first, size, 0 + u + 1))
  BY <1>3, <1>4, <1>5, <1>6, InXor
<1> QED
  BY <1>7, <1>8 DEF Divided

(* One reduction is one step of the run.                                   *)
LEMMA ReducedRun ==
  ASSUME NEW p, IsParameters(p), NEW ones, NEW first \in Nat, NEW size \in Nat,
         NEW d \in Nat, d + 1 <= size, NEW r, NEW q \in WidthWord(p.width),
         Divided(p, r, q, ones, first, size, d)
  PROVE  Divided(p, Reduced(p, r, size - (d + 1)), Serial(p, q, first + (d + 1) \in ones),
                 ones, first, size, d + 1)
<1>0. /\ p.width \in Nat /\ p.polynomial \in SUBSET (0..(p.width - 1))
      /\ r \subseteq Int /\ q \in SUBSET (0..(p.width - 1))
  BY ParameterTypes DEF WidthWord, Divided
<1>s. PICK shift \in Nat : shift = size - (d + 1)
  OBVIOUS
<1>b. PICK bit \in BOOLEAN : bit <=> first + (d + 1) \in ones
  OBVIOUS
<1>f. PICK back \in BOOLEAN : back <=> ~(0 \in q <=> bit)
  OBVIOUS
<1> DEFINE divisor == p.polynomial \cup {p.width}
           next    == Serial(p, q, bit)
           reduced == Reduced(p, r, shift)
<1>1. p.width + shift \in r <=> back
  <2>1. p.width + shift = p.width + size - 1 - d - 0
    BY <1>0, <1>s
  <2>2. p.width + size - 1 - d - 0 \in r
          <=> 0 >= 0 /\ ~(0 \in q <=> Upcoming(ones, first, size, d + 0 + 1))
    BY DEF Divided
  <2>3. Upcoming(ones, first, size, d + 0 + 1) <=> bit
    <3>1. d + 0 + 1 = d + 1
      OBVIOUS
    <3> QED
      BY <1>b, <3>1 DEF Upcoming
  <2> QED
    BY <1>f, <2>1, <2>2, <2>3
<1>2. divisor \in SUBSET Int /\ ShiftLeft(divisor, shift) \subseteq Int
  <2>1. divisor \in SUBSET Nat
    BY <1>0
  <2> HIDE DEF divisor
  <2>2. ShiftLeft(divisor, shift) \in SUBSET Nat
    BY <2>1, WordTypes
  <2> QED
    BY <2>1, <2>2
<1>3. reduced \subseteq Int
  <2>1. Xor(r, ShiftLeft(divisor, shift)) \subseteq Int
    <3> HIDE DEF divisor
    <3> QED
      BY <1>0, <1>2 DEF Xor
  <2> QED
    BY <1>0, <2>1 DEF Reduced
<1>4. ASSUME NEW v \in Int
      PROVE  p.width + size - 1 - (d + 1) - v \in reduced
               <=> v >= 0 /\ ~(v \in next <=> Upcoming(ones, first, size, (d + 1) + v + 1))
  <2>i. PICK i \in Int : /\ i = p.width + size - 1 - (d + 1) - v
                         /\ i = p.width + size - 1 - d - (v + 1)
    BY <1>0
  <2>u. PICK up \in BOOLEAN : up <=> Upcoming(ones, first, size, (d + 1) + v + 1)
    OBVIOUS
  <2>1. i \in r <=> v + 1 >= 0 /\ ~(v + 1 \in q <=> up)
    <3>1. d + (v + 1) + 1 = (d + 1) + v + 1
      OBVIOUS
    <3>2. i \in r
            <=> v + 1 >= 0 /\ ~(v + 1 \in q <=> Upcoming(ones, first, size, d + (v + 1) + 1))
      BY <2>i DEF Divided
    <3> QED
      BY <2>u, <3>1, <3>2
  <2>2. i \in ShiftLeft(divisor, shift) <=> Feedback(p, v) \/ v = -1
    <3>1. i \in ShiftLeft(divisor, shift) <=> i - shift \in divisor
      <4> HIDE DEF divisor
      <4> QED
        BY <1>2, InShiftLeft
    <3>2. i - shift = p.width - 1 - v
      BY <1>0, <1>s, <2>i
    <3>3. p.width - 1 - v = p.width <=> v = -1
      BY <1>0
    <3> QED
      BY <3>1, <3>2, <3>3 DEF Feedback
  <2>3. i \in reduced <=> ~(i \in r <=> (back /\ i \in ShiftLeft(divisor, shift)))
    <3> HIDE DEF divisor
    <3>1. reduced = IF p.width + shift \in r THEN Xor(r, ShiftLeft(divisor, shift)) ELSE r
      BY DEF Reduced, divisor
    <3> HIDE DEF reduced
    <3> QED
      BY <1>1, <3>1, InXor
  <2>4. CASE v >= 0
    <3>1. v \in next <=> ~(v + 1 \in q <=> (back /\ Feedback(p, v)))
      <4>1. CASE v \in 0..(p.width - 1)
        BY <1>f, <4>1 DEF Serial
      <4>2. CASE v \notin 0..(p.width - 1)
        <5>1. v + 1 \notin q /\ ~Feedback(p, v)
          BY <1>0, <2>4, <4>2 DEF Feedback
        <5> QED
          BY <4>2, <5>1 DEF Serial
      <4> QED
        BY <4>1, <4>2
    <3>2. v + 1 >= 0 /\ v # -1
      BY <2>4
    <3> HIDE DEF next, reduced, divisor
    <3> QED
      BY <2>1, <2>2, <2>3, <2>4, <2>i, <2>u, <3>1, <3>2
  <2>5. CASE v = -1
    <3>1. v + 1 = 0 /\ ~(v >= 0)
      BY <2>5
    <3>2. up <=> bit
      <4>1. (d + 1) + v + 1 = d + 1
        BY <2>5
      <4> QED
        BY <1>b, <2>u, <4>1 DEF Upcoming
    <3> HIDE DEF next, reduced, divisor
    <3> QED
      BY <1>f, <2>1, <2>2, <2>3, <2>5, <2>i, <3>1, <3>2
  <2>6. CASE v < -1
    <3>1. ~(v + 1 >= 0) /\ ~(v >= 0) /\ v # -1
      BY <2>6
    <3>2. ~Feedback(p, v)
      BY <1>0, <2>6 DEF Feedback
    <3> HIDE DEF next, reduced, divisor
    <3> QED
      BY <2>1, <2>2, <2>3, <2>i, <3>1, <3>2
  <2> QED
    BY <2>4, <2>5, <2>6
<1>5. next = Serial(p, q, first + (d + 1) \in ones)
  BY <1>b DEF Serial
<1> HIDE DEF next, reduced, divisor
<1>6. Divided(p, reduced, next, ones, first, size, d + 1)
  BY <1>3, <1>4 DEF Divided
<1> QED
  BY <1>5, <1>6, <1>s DEF reduced

(* So the remainder of the division is the register, finalized.            *)
LEMMA ReferenceRun ==
  ASSUME NEW p, IsParameters(p), NEW g, NEW ones, NEW first \in Nat, NEW size \in Nat,
         NEW total, Runs(g, p, ones, first, total), size <= total
  PROVE  Reference(p, ones, first, size) = CrcOf(p, g[size])
<1>0. /\ total \in Nat /\ g[0] = InitialRegister(p) /\ p.width \in Nat
      /\ \A k \in 0..total : g[k] \in WidthWord(p.width)
      /\ \A k \in 0..(total - 1) : g[k + 1] = Serial(p, g[k], first + (k + 1) \in ones)
  BY ParameterTypes DEF Runs
<1>r. PICK r : /\ IsDividing(r, p, Dividend(p, ones, first, size), size, size)
               /\ Remainder(p, ones, first, size) = r[size]
  BY Dividing
<1> DEFINE T == {d \in Nat : d <= size => Divided(p, r[d], g[d], ones, first, size, d)}
<1>1. 0 \in T
  <2>1. r[0] = Dividend(p, ones, first, size)
    BY <1>r DEF IsDividing
  <2> QED
    BY <1>0, <2>1, DividendRun
<1>2. ASSUME NEW d \in Nat, d \in T PROVE d + 1 \in T
  <2> SUFFICES ASSUME d + 1 <= size
               PROVE  Divided(p, r[d + 1], g[d + 1], ones, first, size, d + 1)
    OBVIOUS
  <2>1. Divided(p, r[d], g[d], ones, first, size, d)
    BY <1>2
  <2>2. r[d + 1] = Reduced(p, r[d], size - (d + 1))
    <3>1. d + 1 \in 0..size /\ d + 1 # 0 /\ (d + 1) - 1 = d
      OBVIOUS
    <3> QED
      BY <1>r, <3>1 DEF IsDividing
  <2>3. /\ d \in 0..total /\ d \in 0..(total - 1)
    BY <1>0
  <2>4. g[d + 1] = Serial(p, g[d], first + (d + 1) \in ones) /\ g[d] \in WidthWord(p.width)
    BY <1>0, <2>3
  <2>5. PICK s, q : s = r[d] /\ q = g[d]
    OBVIOUS
  <2> HIDE DEF T
  <2>6. Divided(p, Reduced(p, s, size - (d + 1)), Serial(p, q, first + (d + 1) \in ones),
                ones, first, size, d + 1)
    BY <2>1, <2>4, <2>5, ReducedRun
  <2> QED
    BY <2>2, <2>4, <2>5, <2>6
<1> HIDE DEF T
<1>3. \A d \in Nat : d \in T
  BY <1>1, <1>2, AllNumbers
<1>q. PICK q : q = g[size]
  OBVIOUS
<1>s. PICK s : s = r[size]
  OBVIOUS
<1>4. Divided(p, s, q, ones, first, size, size)
  BY <1>3, <1>q, <1>s DEF T
<1>5. q \in WidthWord(p.width) /\ q \in SUBSET Int /\ \A u \in q : u \in 0..(p.width - 1)
  BY <1>0, <1>q DEF WidthWord
<1>6. s = Reflect(q, p.width)
  <2>1. ASSUME NEW i \in Int PROVE i \in s <=> i \in Reflect(q, p.width)
    <3>u. PICK u \in Int : u = p.width - 1 - i /\ p.width + size - 1 - size - u = i
      BY <1>0
    <3>1. i \in s <=> u >= 0 /\ ~(u \in q <=> Upcoming(ones, first, size, size + u + 1))
      BY <1>4, <3>u DEF Divided
    <3>2. u >= 0 => ~Upcoming(ones, first, size, size + u + 1)
      BY DEF Upcoming
    <3>3. i \in Reflect(q, p.width) <=> u \in q /\ i >= 0
      BY <1>0, <1>5, <3>u, InReflect
    <3>4. u \in q => u >= 0 /\ i >= 0
      BY <1>0, <1>5, <3>u
    <3> QED
      BY <3>1, <3>2, <3>3, <3>4
  <2>2. s \subseteq Int
    BY <1>4 DEF Divided
  <2>3. Reflect(q, p.width) \subseteq Int
    <3>1. q \in SUBSET Nat
      BY <1>0, <1>5
    <3>2. Reflect(q, p.width) \in SUBSET (0..(p.width - 1))
      BY <1>0, <3>1, WordTypes
    <3> QED
      BY <3>2
  <2> QED
    BY <2>1, <2>2, <2>3
<1>7. Reflect(Reflect(q, p.width), p.width) = q
  BY <1>0, <1>5, ReflectTwice
<1>8. Remainder(p, ones, first, size) = Reflect(q, p.width)
  BY <1>6, <1>r, <1>s
<1>9. Reference(p, ones, first, size) = CrcOf(p, q)
  BY <1>7, <1>8 DEF Reference, CrcOf
<1> QED
  BY <1>9, <1>q

(* Sizes in bits and in bytes.                                             *)
LEMMA EightTimes ==
  ASSUME NEW size \in Nat
  PROVE  /\ size \div 8 \in Nat /\ size % 8 \in 0..7
         /\ size = (8 * (size \div 8)) + (size % 8)
         /\ (size + 8 - 1) \div 8 = (IF size % 8 = 0 THEN size \div 8 ELSE size \div 8 + 1)
<1>1. /\ size \div 8 \in Nat /\ size % 8 \in 0..7
      /\ size = (8 * (size \div 8)) + (size % 8)
  OBVIOUS
<1>w. PICK w \in Nat, r \in 0..7 : w = size \div 8 /\ r = size % 8 /\ size = 8 * w + r
  BY <1>1
<1>2. r = 0 => (size + 8 - 1) \div 8 = w
  <2>1. r = 0 => size + 8 - 1 = 8 * w + 7
    BY <1>w
  <2>2. (8 * w + 7) \div 8 = w
    OBVIOUS
  <2> QED
    BY <2>1, <2>2
<1>3. r # 0 => (size + 8 - 1) \div 8 = w + 1
  <2>1. r # 0 => size + 8 - 1 = 8 * (w + 1) + (r - 1) /\ r - 1 \in 0..7
    BY <1>w
  <2>2. \A t \in 0..7 : (8 * (w + 1) + t) \div 8 = w + 1
    OBVIOUS
  <2> QED
    BY <2>1, <2>2
<1> QED
  BY <1>1, <1>2, <1>3, <1>w

(* The bits of a piece, in its bytes.                                      *)
LEMMA PackedBits ==
  ASSUME NEW p, NEW ones, NEW first \in Nat, NEW size \in Nat,
         NEW k \in 1..((size + 8 - 1) \div 8)
  PROVE  /\ Packed(p, ones, first, size)[k] \in Byte
         /\ \A t \in Nat : DataBit(p, Packed(p, ones, first, size)[k], t)
              <=> t < 8 /\ 8 * (k - 1) + (t + 1) <= size
                  /\ first + (8 * (k - 1) + (t + 1)) \in ones
<1>k. PICK b \in Nat : b = k - 1 /\ k = b + 1
  BY EightTimes
<1> DEFINE taken == {i \in (8 * (k - 1) + 1)..(8 * k) : i <= size /\ first + i \in ones}
           byte  == {InByte(p, j) : j \in taken}
<1>1. Packed(p, ones, first, size)[k] = byte
  BY DEF Packed, CharBit
<1>2. ASSUME NEW j \in taken
      PROVE  j - (8 * b + 1) \in 0..7 /\ (j - 1) % 8 = j - (8 * b + 1)
  <2>1. j \in (8 * b + 1)..(8 * b + 8)
    BY <1>k
  <2>2. PICK t \in 0..7 : j - 1 = 8 * b + t
    <3>1. j - (8 * b + 1) \in 0..7 /\ j - 1 = 8 * b + (j - (8 * b + 1))
      BY <2>1
    <3> QED
      BY <3>1
  <2>3. (8 * b + t) % 8 = t
    OBVIOUS
  <2> QED
    BY <2>1, <2>2, <2>3
<1>3. ASSUME NEW j \in taken
      PROVE  InByte(p, j) = IF p.reflectInput THEN j - (8 * b + 1) ELSE 7 - (j - (8 * b + 1))
  <2>1. (j - 1) % 8 = j - (8 * b + 1) /\ j - (8 * b + 1) \in 0..7
    BY <1>2
  <2> HIDE DEF taken
  <2> QED
    BY <2>1 DEF InByte, CharBit
<1>4. byte \in Byte
  <2>1. ASSUME NEW j \in taken PROVE InByte(p, j) \in 0..7
    <3>1. j - (8 * b + 1) \in 0..7
      BY <1>2
    <3> HIDE DEF taken
    <3> QED
      BY <1>3, <3>1
  <2> QED
    BY <2>1 DEF Byte
<1>5. ASSUME NEW t \in Nat
      PROVE  DataBit(p, byte, t)
               <=> t < 8 /\ 8 * (k - 1) + (t + 1) <= size
                   /\ first + (8 * (k - 1) + (t + 1)) \in ones
  <2>j. PICK j \in Nat : j = 8 * (k - 1) + (t + 1) /\ j - (8 * b + 1) = t
    BY <1>k
  <2>1. ASSUME t < 8, j <= size, first + j \in ones PROVE DataBit(p, byte, t)
    <3>1. j \in taken
      BY <1>k, <2>1, <2>j
    <3>2. InByte(p, j) \in byte
      BY <3>1
    <3>3. InByte(p, j) = IF p.reflectInput THEN t ELSE 7 - t
      <4> HIDE DEF taken
      <4> QED
        BY <1>3, <2>j, <3>1
    <3> HIDE DEF byte
    <3> QED
      BY <2>1, <3>2, <3>3 DEF DataBit
  <2>2. ASSUME DataBit(p, byte, t) PROVE t < 8 /\ j <= size /\ first + j \in ones
    <3>1. t \in 0..7 /\ (IF p.reflectInput THEN t ELSE 7 - t) \in byte
      BY <2>2 DEF DataBit
    <3>2. PICK i \in taken : (IF p.reflectInput THEN t ELSE 7 - t) = InByte(p, i)
      BY <3>1
    <3>3. i - (8 * b + 1) \in 0..7
      BY <1>2
    <3>4. InByte(p, i) = IF p.reflectInput THEN i - (8 * b + 1) ELSE 7 - (i - (8 * b + 1))
      BY <1>3
    <3>5. i - (8 * b + 1) = t /\ i \in Int
      <4>1. i \in Int
        BY <1>k
      <4> HIDE DEF taken, byte
      <4> QED
        BY <3>1, <3>2, <3>3, <3>4, <4>1
    <3>6. i = j
      <4> HIDE DEF taken, byte
      <4> QED
        BY <2>j, <3>5
    <3> QED
      BY <3>1, <3>2, <3>6
  <2> HIDE DEF byte, taken
  <2> QED
    BY <2>1, <2>2, <2>j
<1> HIDE DEF byte, taken
<1> QED
  BY <1>1, <1>4, <1>5

(* The bytes a piece takes.                                                *)
LEMMA PackedLength ==
  ASSUME NEW p, NEW ones, NEW first \in Nat, NEW size \in Nat
  PROVE  /\ Packed(p, ones, first, size) \in Seq(Byte)
         /\ Len(Packed(p, ones, first, size)) = (size + 8 - 1) \div 8
<1>n. PICK n \in Nat : n = (size + 8 - 1) \div 8
  BY EightTimes
<1>d. PICK data : data = Packed(p, ones, first, size)
  OBVIOUS
<1>1. DOMAIN data = 1..n
  BY <1>d, <1>n DEF Packed, CharBit
<1>2. ASSUME NEW k \in 1..n PROVE data[k] \in Byte
  BY <1>d, <1>n, PackedBits
<1>3. data = [k \in 1..n |-> data[k]]
  BY <1>d, <1>n DEF Packed, CharBit
<1>4. data \in [1..n -> Byte]
  BY <1>2, <1>3
<1>5. data \in Seq(Byte)
  BY <1>4, SeqDef
<1>6. Len(data) = n
  BY <1>1, <1>5
<1> QED
  BY <1>5, <1>6, <1>d, <1>n

(* The whole bytes of a piece carry their bits, and so do those after.     *)
LEMMA WholeBytesCarry ==
  ASSUME NEW p, NEW ones, NEW first \in Nat, NEW size \in Nat
  PROVE  LET data == Packed(p, ones, first, size)
         IN  /\ BytesCarry(p, WholeBytes(data, size), ones, first)
             /\ Len(WholeBytes(data, size)) = size \div 8
             /\ size % 8 # 0 =>
                  Carries(p, data[(size \div 8) + 1], size % 8, ones, first + 8 * (size \div 8))
<1>d. PICK data : data = Packed(p, ones, first, size)
  OBVIOUS
<1>w. PICK w \in Nat : w = size \div 8
  BY EightTimes
<1>r. PICK r \in 0..7 : r = size % 8
  BY EightTimes
<1>1. size = 8 * w + r
  BY <1>w, <1>r, EightTimes
<1>2. data \in Seq(Byte) /\ Len(data) = IF r = 0 THEN w ELSE w + 1
  BY <1>d, <1>r, <1>w, EightTimes, PackedLength
<1>3. ASSUME NEW k \in 1..Len(data)
      PROVE  /\ data[k] \in Byte
             /\ \A t \in Nat : DataBit(p, data[k], t)
                  <=> t < 8 /\ 8 * (k - 1) + (t + 1) <= size
                      /\ first + (8 * (k - 1) + (t + 1)) \in ones
  <2>1. k \in 1..((size + 8 - 1) \div 8)
    BY <1>d, PackedLength
  <2> QED
    BY <1>d, <2>1, PackedBits
<1>b. PICK bytes : bytes = WholeBytes(data, size)
  OBVIOUS
<1>4. bytes = SubSeq(data, 1, w)
  BY <1>b, <1>w DEF WholeBytes, CharBit
<1>5. Len(bytes) = w /\ \A k \in 1..w : bytes[k] = data[k]
  <2>1. w <= Len(data)
    BY <1>2
  <2>2. \A k \in 1..w : k \in 1..Len(data) /\ 1 + k - 1 = k
    BY <1>2, <2>1
  <2>3. 1 \in 1..(Len(data) + 1) /\ w \in 0..Len(data)
    BY <1>2, <2>1
  <2> QED
    BY <1>2, <1>4, <2>1, <2>2, <2>3, SubSeqProperties
<1>6. BytesCarry(p, bytes, ones, first)
  <2>1. ASSUME NEW k \in 1..Len(bytes) PROVE Carries(p, bytes[k], 8, ones, first + 8 * (k - 1))
    <3>1. k \in 1..w /\ k \in 1..Len(data) /\ bytes[k] = data[k]
      BY <1>2, <1>5
    <3>2. ASSUME NEW t \in Nat
          PROVE  DataBit(p, data[k], t) <=> t < 8 /\ (first + 8 * (k - 1)) + (t + 1) \in ones
      <4>1. first + (8 * (k - 1) + (t + 1)) = (first + 8 * (k - 1)) + (t + 1)
        OBVIOUS
      <4>2. t < 8 => 8 * (k - 1) + (t + 1) <= size
        BY <1>1, <3>1
      <4>3. DataBit(p, data[k], t)
              <=> t < 8 /\ 8 * (k - 1) + (t + 1) <= size
                  /\ first + (8 * (k - 1) + (t + 1)) \in ones
        BY <1>3, <3>1
      <4> QED
        BY <4>1, <4>2, <4>3
    <3>3. data[k] \in Byte
      BY <1>3, <3>1
    <3> QED
      BY <3>1, <3>2, <3>3 DEF Carries
  <2> QED
    BY <1>5, <2>1 DEF BytesCarry
<1>7. ASSUME r # 0 PROVE Carries(p, data[w + 1], r, ones, first + 8 * w)
  <2>1. w + 1 \in 1..Len(data) /\ (w + 1) - 1 = w
    BY <1>2, <1>7
  <2>2. ASSUME NEW t \in Nat
        PROVE  DataBit(p, data[w + 1], t) <=> t < r /\ (first + 8 * w) + (t + 1) \in ones
    <3>1. first + (8 * w + (t + 1)) = (first + 8 * w) + (t + 1)
      OBVIOUS
    <3>2. t < 8 /\ 8 * w + (t + 1) <= size <=> t < r
      BY <1>1
    <3>3. DataBit(p, data[w + 1], t)
            <=> t < 8 /\ 8 * w + (t + 1) <= size /\ first + (8 * w + (t + 1)) \in ones
      BY <1>3, <2>1
    <3> QED
      BY <3>1, <3>2, <3>3
  <2>3. data[w + 1] \in Byte
    BY <1>3, <2>1
  <2> QED
    BY <2>2, <2>3 DEF Carries
<1> QED
  BY <1>5, <1>6, <1>7, <1>b, <1>d, <1>r, <1>w

(* A piece of whole bytes is all of them.                                  *)
LEMMA WholeBytesAre ==
  ASSUME NEW p, NEW ones, NEW first \in Nat, NEW size \in Nat, size % 8 = 0
  PROVE  /\ WholeBytes(Packed(p, ones, first, size), size) = Packed(p, ones, first, size)
         /\ 8 * (size \div 8) = size
<1>d. PICK data \in Seq(Byte) : /\ data = Packed(p, ones, first, size)
                                /\ Len(data) = (size + 8 - 1) \div 8
  BY PackedLength
<1>w. PICK w \in Nat : w = size \div 8 /\ size = 8 * w /\ Len(data) = w
  BY <1>d, EightTimes
<1>1. SubSeq(data, 1, w) = data
  <2>1. 1 \in 1..(Len(data) + 1) /\ w \in 0..Len(data)
    BY <1>w
  <2>2. /\ SubSeq(data, 1, w) \in Seq(Byte) /\ Len(SubSeq(data, 1, w)) = w
        /\ \A i \in 1..w : SubSeq(data, 1, w)[i] = data[i]
    <3>1. \A i \in 1..w : 1 + i - 1 = i
      OBVIOUS
    <3> QED
      BY <1>w, <2>1, <3>1, SubSeqProperties
  <2> QED
    BY <1>w, <2>2, SeqEqual
<1> QED
  BY <1>1, <1>d, <1>w DEF WholeBytes, CharBit

(* A piece that follows m bits takes the remainder from there to its end:  *)
(* its whole bytes, and the bits after them.                               *)
LEMMA WholeBytesRun ==
  ASSUME NEW p, IsParameters(p), NEW g, NEW ones, NEW first \in Nat, NEW total,
         Runs(g, p, ones, first, total),
         NEW m \in Nat, NEW size \in Nat, m + size <= total, NEW lookup \in BOOLEAN,
         NEW data, data = Packed(p, ones, first + m, size),
         NEW w, Holding(p, w, g[m])
  PROVE  Holding(p, CalculateRemainder(WholeBytes(data, size), p, lookup, w),
                 g[m + (8 * (size \div 8))])
<1>k. PICK k \in Nat, r \in 0..7 : k = size \div 8 /\ size = 8 * k + r
  BY EightTimes
<1>b. PICK bytes : bytes = WholeBytes(data, size)
  OBVIOUS
<1>1. BytesCarry(p, bytes, ones, first + m) /\ Len(bytes) = k
  <2>1. first + m \in Nat
    OBVIOUS
  <2> QED
    BY <1>b, <1>k, <2>1, WholeBytesCarry
<1>2. m + 8 * Len(bytes) <= total
  <2>1. total \in Nat
    BY DEF Runs
  <2> QED
    BY <1>1, <1>k, <2>1
<1>3. Holding(p, CalculateRemainder(bytes, p, lookup, w), g[m + 8 * Len(bytes)])
  BY <1>1, <1>2, CalculateRemainderRun
<1> QED
  BY <1>1, <1>3, <1>b, <1>k

LEMMA RestOfBitsRun ==
  ASSUME NEW p, IsParameters(p), NEW g, NEW ones, NEW first \in Nat, NEW total,
         Runs(g, p, ones, first, total),
         NEW m \in Nat, NEW size \in Nat, m + size <= total,
         NEW data, data = Packed(p, ones, first + m, size),
         NEW w, Holding(p, w, g[m + (8 * (size \div 8))])
  PROVE  Holding(p, RestOfBits(data, size, p, w), g[m + size])
<1>0. total \in Nat
  BY DEF Runs
<1>k. PICK k \in Nat, r \in 0..7 : k = size \div 8 /\ r = size % 8 /\ size = 8 * k + r
  BY EightTimes
<1>j. PICK j \in Nat : j = m + (8 * k)
  OBVIOUS
<1>1. Holding(p, w, g[j])
  BY <1>j, <1>k
<1>2. CASE r = 0
  <2>1. j = m + size
    BY <1>k, <1>j, <1>2
  <2> QED
    BY <1>1, <1>k, <1>2, <2>1 DEF RestOfBits, CharBit
<1>3. CASE r # 0
  <2>1. RestOfBits(data, size, p, w) = CalculateRemainderBits(data[k + 1], r, p, w)
    BY <1>k, <1>3 DEF RestOfBits, CharBit
  <2>2. j + r = m + size /\ j + r <= total /\ first + j = first + m + 8 * k /\ r \in Nat
    BY <1>0, <1>k, <1>j
  <2>c. PICK byte : byte = data[k + 1]
    OBVIOUS
  <2>3. Carries(p, byte, r, ones, first + j)
    <3>1. first + m \in Nat
      OBVIOUS
    <3> QED
      BY <1>k, <1>3, <2>2, <2>c, <3>1, WholeBytesCarry
  <2>4. Holding(p, CalculateRemainderBits(byte, r, p, w), g[j + r])
    BY <1>1, <2>2, <2>3, CalculateRemainderBitsRun
  <2> QED
    BY <2>1, <2>2, <2>4, <2>c
<1> QED
  BY <1>2, <1>3

(* What holds at each point of a run.                                      *)
LEMMA RunPoints ==
  ASSUME NEW p, IsParameters(p), NEW g, NEW ones, NEW first \in Nat, NEW total,
         Runs(g, p, ones, first, total), NEW m \in Nat, m <= total
  PROVE  /\ g[m] \in WidthWord(p.width)
         /\ Reference(p, ones, first, m) = CrcOf(p, g[m])
         /\ Holding(p, UndoFinalize(p, Reference(p, ones, first, m)), g[m])
         /\ \A w : Holding(p, w, g[m]) => Finalize(p, w) = Reference(p, ones, first, m)
<1>1. g[m] \in WidthWord(p.width) /\ g[0] = InitialRegister(p)
  BY DEF Runs
<1>2. Reference(p, ones, first, m) = CrcOf(p, g[m])
  BY ReferenceRun
<1>q. PICK q \in WidthWord(p.width) : q = g[m]
  BY <1>1
<1>3. Holding(p, UndoFinalize(p, CrcOf(p, q)), q)
  BY UndoFinalizeHolding
<1>4. ASSUME NEW w, Holding(p, w, q) PROVE Finalize(p, w) = CrcOf(p, q)
  BY <1>4, FinalizeHolding
<1> QED
  BY <1>1, <1>2, <1>3, <1>4, <1>q

(* A first call returns the remainder of the piece, in bytes ...           *)
LEMMA CalculateIsReference ==
  ASSUME NEW p, IsParameters(p), NEW ones, NEW first \in Nat, NEW size \in Nat,
         size % 8 = 0, NEW lookup \in BOOLEAN
  PROVE  Calculate(Packed(p, ones, first, size), p, lookup) = Reference(p, ones, first, size)
<1>g. PICK g : Runs(g, p, ones, first, size)
  BY RunIs
<1>d. PICK data : data = Packed(p, ones, first, size)
  OBVIOUS
<1>1. first + 0 = first /\ 0 + size = size /\ 0 + (8 * (size \div 8)) = size
      /\ WholeBytes(data, size) = data
  BY <1>d, EightTimes, WholeBytesAre
<1>2. Holding(p, p.initialValue, g[0])
  BY <1>g, InitialHolding DEF Runs
<1>3. Holding(p, CalculateRemainder(WholeBytes(data, size), p, lookup, p.initialValue),
              g[0 + (8 * (size \div 8))])
  <2>1. data = Packed(p, ones, first + 0, size) /\ 0 + size <= size
    BY <1>1, <1>d
  <2> QED
    BY <1>2, <1>g, <2>1, WholeBytesRun
<1>4. Holding(p, CalculateRemainder(data, p, lookup, p.initialValue), g[size])
  BY <1>1, <1>3
<1>5. Finalize(p, CalculateRemainder(data, p, lookup, p.initialValue))
        = Reference(p, ones, first, size)
  BY <1>4, <1>g, RunPoints
<1> QED
  BY <1>5, <1>d DEF Calculate

(* ... and in bits.                                                        *)
LEMMA CalculateBitsIsReference ==
  ASSUME NEW p, IsParameters(p), NEW ones, NEW first \in Nat, NEW size \in Nat,
         NEW lookup \in BOOLEAN
  PROVE  CalculateBits(Packed(p, ones, first, size), size, p, lookup)
           = Reference(p, ones, first, size)
<1>g. PICK g : Runs(g, p, ones, first, size)
  BY RunIs
<1>d. PICK data : data = Packed(p, ones, first, size)
  OBVIOUS
<1>1. first + 0 = first /\ 0 + size = size
  OBVIOUS
<1>2. Holding(p, p.initialValue, g[0])
  BY <1>g, InitialHolding DEF Runs
<1>e. data = Packed(p, ones, first + 0, size) /\ 0 + size <= size
  BY <1>1, <1>d
<1>w. PICK w : w = CalculateRemainder(WholeBytes(data, size), p, lookup, p.initialValue)
  OBVIOUS
<1>3. Holding(p, w, g[0 + (8 * (size \div 8))])
  BY <1>2, <1>g, <1>w, <1>e, WholeBytesRun
<1>4. Holding(p, RestOfBits(data, size, p, w), g[0 + size])
  BY <1>3, <1>g, <1>e, RestOfBitsRun
<1>5. Finalize(p, RestOfBits(data, size, p, w)) = Reference(p, ones, first, size)
  BY <1>1, <1>4, <1>g, RunPoints
<1> QED
  BY <1>5, <1>d, <1>w DEF CalculateBits

(* A call that continues returns the remainder of both pieces.             *)
LEMMA MoreCalculateIsReference ==
  ASSUME NEW p, IsParameters(p), NEW ones, NEW first \in Nat, NEW m \in Nat,
         NEW size \in Nat, size % 8 = 0, NEW lookup \in BOOLEAN
  PROVE  MoreCalculate(Packed(p, ones, first + m, size), p, lookup,
                       Reference(p, ones, first, m))
           = Reference(p, ones, first, m + size)
<1>t. PICK total \in Nat : total = m + size
  OBVIOUS
<1>g. PICK g : Runs(g, p, ones, first, total)
  BY RunIs
<1>d. PICK data : data = Packed(p, ones, first + m, size)
  OBVIOUS
<1>1. m + (8 * (size \div 8)) = total /\ WholeBytes(data, size) = data /\ m <= total
  <2>1. first + m \in Nat
    OBVIOUS
  <2> QED
    BY <1>d, <1>t, <2>1, EightTimes, WholeBytesAre
<1>w. PICK w : w = UndoFinalize(p, Reference(p, ones, first, m))
  OBVIOUS
<1>2. Holding(p, w, g[m])
  BY <1>1, <1>g, <1>w, RunPoints
<1>3. Holding(p, CalculateRemainder(WholeBytes(data, size), p, lookup, w),
              g[m + (8 * (size \div 8))])
  BY <1>2, <1>d, <1>g, <1>t, WholeBytesRun
<1>4. Holding(p, CalculateRemainder(data, p, lookup, w), g[total])
  BY <1>1, <1>3
<1>5. Finalize(p, CalculateRemainder(data, p, lookup, w)) = Reference(p, ones, first, total)
  BY <1>4, <1>g, RunPoints
<1> QED
  BY <1>5, <1>d, <1>t, <1>w DEF MoreCalculate

(* CalculateBits with the CRC of an earlier part starts again for a byte   *)
(* or more: it returns what the overload without that CRC returns, and     *)
(* appends nothing, whatever the parameters, the data and the CRC.         *)
THEOREM AppendedBitsStartAgain ==
  ASSUME NEW p, NEW data, NEW size \in Nat, size >= 8, NEW lookup, NEW crcBefore
  PROVE  MoreCalculateBits(data, size, p, lookup, crcBefore) = CalculateBits(data, size, p, lookup)
BY DEF MoreCalculateBits, CalculateBits, CharBit

(* It appends less than a byte.                                            *)
LEMMA MoreCalculateBitsIsReference ==
  ASSUME NEW p, IsParameters(p), NEW ones, NEW first \in Nat, NEW m \in Nat,
         NEW size \in Nat, size < 8, NEW lookup \in BOOLEAN
  PROVE  MoreCalculateBits(Packed(p, ones, first + m, size), size, p, lookup,
                           Reference(p, ones, first, m))
           = Reference(p, ones, first, m + size)
<1>d. PICK data : data = Packed(p, ones, first + m, size)
  OBVIOUS
<1>t. PICK total \in Nat : total = m + size
  OBVIOUS
<1>g. PICK g : Runs(g, p, ones, first, total)
  BY RunIs
<1>1. size \div 8 = 0 /\ m + (8 * (size \div 8)) = m /\ m <= total
  <2>1. size \div 8 = 0
    BY EightTimes
  <2> QED
    BY <1>t, <2>1
<1>w. PICK w : w = UndoFinalize(p, Reference(p, ones, first, m))
  OBVIOUS
<1>2. Holding(p, w, g[m])
  BY <1>1, <1>g, <1>w, RunPoints
<1>3. Holding(p, RestOfBits(data, size, p, w), g[m + size])
  <2>1. Holding(p, w, g[m + (8 * (size \div 8))])
    BY <1>1, <1>2
  <2> QED
    BY <1>d, <1>g, <1>t, <2>1, RestOfBitsRun
<1>4. Finalize(p, RestOfBits(data, size, p, w)) = Reference(p, ones, first, total)
  BY <1>3, <1>g, <1>t, RunPoints
<1>5. MoreCalculateBits(data, size, p, lookup, Reference(p, ones, first, m))
        = Finalize(p, RestOfBits(data, size, p, w))
  BY <1>w DEF MoreCalculateBits, CharBit
<1> QED
  BY <1>d, <1>4, <1>5, <1>t

-----------------------------------------------------------------------------
(* What crc stands for, also while damage is compared: the strengthened    *)
(* form of IsRemainder.                                                    *)
CrcInv ==
  /\ choice \in Choices
  /\ from \in Nat /\ upto \in Nat /\ from <= upto
  /\ crc = Reference(P, Ones(P), from, upto - from)

(* The invariant holds at the start, and each call keeps it.               *)
LEMMA CrcInvInit == Init => CrcInv
<1> SUFFICES ASSUME Init PROVE CrcInv
  OBVIOUS
<1>p. PICK p : p = choice.parameters /\ IsParameters(p)
  BY ChecksumAssumption DEF Init
<1>o. PICK ones : ones = Ones(p)
  OBVIOUS
<1>1. Packed(p, ones, 0, 0) = <<>>
  <2>1. Packed(p, ones, 0, 0) \in Seq(Byte) /\ Len(Packed(p, ones, 0, 0)) = 0
    BY PackedLength, EightTimes
  <2> QED
    BY <2>1
<1>2. 0 % 8 = 0 /\ 0 - 0 = 0
  OBVIOUS
<1>3. Calculate(<<>>, p, FALSE) = Reference(p, ones, 0, 0)
  BY <1>1, <1>2, <1>p, CalculateIsReference
<1>4. P = p
  BY <1>p DEF P
<1>5. from = 0 /\ upto = 0 /\ choice \in Choices /\ crc = Calculate(<<>>, p, FALSE)
  BY <1>4 DEF Init
<1>6. crc = Reference(P, Ones(P), 0, 0)
  BY <1>3, <1>4, <1>5, <1>o
<1>7. upto - from = 0 /\ 0 <= 0
  BY <1>5
<1> QED
  BY <1>5, <1>6, <1>7 DEF CrcInv

(* What CalculateBits appends is shorter than a byte: for more, it is      *)
(* AppendedBitsStartAgain that holds.                                      *)
ShortAppends == \A size \in AppendSizes : size < 8

LEMMA CrcInvNext ==
  ASSUME ShortAppends
  PROVE  CrcInv /\ [Next]_vars => CrcInv'
<1> SUFFICES ASSUME CrcInv, [Next]_vars PROVE CrcInv'
  OBVIOUS
<1>p. PICK p : p = choice.parameters /\ IsParameters(p)
  BY ChecksumAssumption DEF CrcInv
<1>o. PICK ones : ones = Ones(p)
  OBVIOUS
<1>f. PICK f \in Nat, m \in Nat : f = from /\ m = upto - from /\ upto = f + m
  BY DEF CrcInv
<1>0. crc = Reference(p, ones, f, m)
  BY <1>f, <1>o, <1>p DEF CrcInv, P
<1>t. ASSUME UNCHANGED choice, NEW k \in Nat, from' \in Nat, upto' = from' + k,
             crc' = Reference(p, ones, from', k)
      PROVE  CrcInv'
  <2>1. upto' - from' = k /\ from' <= upto' /\ upto' \in Nat
    <3>1. \A a \in Nat, n \in Nat : (a + n) - a = n /\ a <= a + n /\ a + n \in Nat
      OBVIOUS
    <3>2. from' \in Nat /\ k \in Nat /\ upto' = from' + k
      BY <1>t
    <3> QED
      BY <3>1, <3>2, Zenon
  <2>2. P' = p /\ Ones(P)' = ones
    BY <1>o, <1>p, <1>t DEF P, Ones, InByte
  <2> QED
    BY <1>t, <2>1, <2>2 DEF CrcInv
<1>1. ASSUME NEW size \in PieceSizes, NEW lookup \in BOOLEAN, First(size, lookup)
      PROVE  CrcInv'
  <2>s. size \in Nat /\ upto \in Nat
    BY ChecksumAssumption DEF CrcInv
  <2>d. PICK n \in Nat : n = upto
    BY <2>s
  <2>1. from' = n /\ upto' = n + size /\ UNCHANGED choice
    BY <1>1, <2>d DEF First
  <2>2. crc' = IF size % 8 = 0 THEN Calculate(Packed(p, ones, n, size), p, lookup)
               ELSE CalculateBits(Packed(p, ones, n, size), size, p, lookup)
    BY <1>1, <1>o, <1>p, <2>d DEF First, Piece, P, CharBit
  <2>3. crc' = Reference(p, ones, n, size)
    BY <1>p, <2>2, <2>s, CalculateIsReference, CalculateBitsIsReference
  <2> QED
    BY <1>t, <2>1, <2>3, <2>s
<1>2. ASSUME NEW size \in PieceSizes, NEW lookup \in BOOLEAN, More(size, lookup)
      PROVE  CrcInv'
  <2>s. size \in Nat /\ size % 8 = 0
    BY <1>2, ChecksumAssumption DEF More, CharBit
  <2>1. from' = f /\ upto' = f + (m + size) /\ UNCHANGED choice /\ m + size \in Nat
    BY <1>2, <1>f, <2>s DEF More
  <2>2. crc' = MoreCalculate(Packed(p, ones, f + m, size), p, lookup, Reference(p, ones, f, m))
    BY <1>0, <1>2, <1>f, <1>o, <1>p DEF More, Piece, P
  <2>3. crc' = Reference(p, ones, f, m + size)
    BY <1>p, <2>2, <2>s, MoreCalculateIsReference
  <2> QED
    BY <1>t, <2>1, <2>3
<1>3. ASSUME NEW size \in AppendSizes, NEW lookup \in BOOLEAN, MoreBits(size, lookup)
      PROVE  CrcInv'
  <2>s. size \in Nat /\ size < 8
    BY ChecksumAssumption DEF ShortAppends
  <2>1. crc' = MoreCalculateBits(Packed(p, ones, f + m, size), size, p, lookup,
                                 Reference(p, ones, f, m))
    BY <1>0, <1>3, <1>f, <1>o, <1>p DEF MoreBits, Piece, P
  <2>2. crc' = Reference(p, ones, f, m + size)
    BY <1>p, <2>1, <2>s, MoreCalculateBitsIsReference
  <2>3. from' = f /\ upto' = f + (m + size) /\ UNCHANGED choice /\ m + size \in Nat
    BY <1>3, <1>f, <2>s DEF MoreBits
  <2> QED
    BY <1>t, <2>2, <2>3
<1>4. ASSUME UNCHANGED <<choice, from, upto, crc>> PROVE CrcInv'
  BY <1>0, <1>4, <1>f, <1>t
<1>5. ASSUME NEW first, NEW last, Damage(first, last) PROVE CrcInv'
  BY <1>4, <1>5 DEF Damage
<1>6. CASE UNCHANGED vars
  BY <1>4, <1>6 DEF vars
<1> QED
  BY <1>1, <1>2, <1>3, <1>5, <1>6 DEF Next

(* However the text is cut into pieces, and whichever calls of CRC.h are   *)
(* made over it, with the table or without, in bytes or, below a byte, in  *)
(* bits: crc is the remainder of the polynomial division of all of it.     *)
THEOREM CrcIsRemainder ==
  ASSUME ShortAppends
  PROVE  Spec => []IsRemainder
<1>1. CrcInv => IsRemainder
  BY DEF CrcInv, IsRemainder
<1> QED
  BY <1>1, CrcInvInit, CrcInvNext, PTL DEF Spec

-----------------------------------------------------------------------------
(* Two runs, over data that differ in the bits of a set: what is different *)
(* in the registers, together with the different bits still to come.       *)
Difference(g, h, bits, k) == {u \in Nat : ~(~(u \in g[k] <=> u \in h[k]) <=> k + u + 1 \in bits)}

(* No further apart than the CRC is wide.                                  *)
Close(set, width) == \A i \in set, j \in set : i - j < width

(* The difference goes through the register as the data does.              *)
LEMMA DifferenceNext ==
  ASSUME NEW p, IsParameters(p), NEW ones, NEW bits, NEW size,
         NEW g, Runs(g, p, ones, 0, size), NEW h, Runs(h, p, Xor(ones, bits), 0, size),
         NEW k \in Nat, k + 1 <= size, NEW v \in Nat
  PROVE  v \in Difference(g, h, bits, k + 1)
           <=> ~(v + 1 \in Difference(g, h, bits, k)
                   <=> (0 \in Difference(g, h, bits, k) /\ Feedback(p, v)))
<1>0. /\ size \in Nat /\ p.width \in Nat /\ p.polynomial \in SUBSET (0..(p.width - 1))
      /\ k \in 0..size /\ k \in 0..(size - 1)
  BY ParameterTypes DEF Runs, WidthWord
<1>q. PICK q \in WidthWord(p.width), r \in WidthWord(p.width) : q = g[k] /\ r = h[k]
  BY <1>0 DEF Runs
<1>b. PICK bit \in BOOLEAN, other \in BOOLEAN, flip \in BOOLEAN :
        /\ bit <=> k + 1 \in ones
        /\ other <=> k + 1 \in Xor(ones, bits)
        /\ flip <=> k + 1 \in bits
  OBVIOUS
<1>l. PICK later \in BOOLEAN : later <=> (k + 1) + v + 1 \in bits
  OBVIOUS
<1>1. other <=> ~(bit <=> flip)
  BY <1>b, InXor
<1>2. g[k + 1] = Serial(p, q, bit) /\ h[k + 1] = Serial(p, r, other)
  <2>1. 0 + (k + 1) = k + 1
    OBVIOUS
  <2>2. /\ g[k + 1] = Serial(p, g[k], 0 + (k + 1) \in ones)
        /\ h[k + 1] = Serial(p, h[k], 0 + (k + 1) \in Xor(ones, bits))
    BY <1>0 DEF Runs
  <2> QED
    BY <1>b, <1>q, <2>1, <2>2 DEF Serial
<1>3. ASSUME NEW c \in WidthWord(p.width), NEW b \in BOOLEAN
      PROVE  v \in Serial(p, c, b) <=> ~(v + 1 \in c <=> (~(0 \in c <=> b) /\ Feedback(p, v)))
  <2>1. CASE v \in 0..(p.width - 1)
    BY <2>1 DEF Serial
  <2>2. CASE v \notin 0..(p.width - 1)
    <3>1. v + 1 \notin c /\ ~Feedback(p, v)
      BY <1>0, <2>2 DEF Feedback, WidthWord
    <3> QED
      BY <2>2, <3>1 DEF Serial
  <2> QED
    BY <2>1, <2>2
<1>4. v \in Difference(g, h, bits, k + 1)
        <=> ~(~(v \in Serial(p, q, bit) <=> v \in Serial(p, r, other)) <=> later)
  BY <1>2, <1>l DEF Difference
<1>5. v + 1 \in Difference(g, h, bits, k) <=> ~(~(v + 1 \in q <=> v + 1 \in r) <=> later)
  <2>1. k + (v + 1) + 1 = (k + 1) + v + 1 /\ v + 1 \in Nat
    OBVIOUS
  <2> QED
    BY <1>l, <1>q, <2>1 DEF Difference
<1>6. 0 \in Difference(g, h, bits, k) <=> ~(~(0 \in q <=> 0 \in r) <=> flip)
  <2>1. k + 0 + 1 = k + 1
    OBVIOUS
  <2> QED
    BY <1>b, <1>q, <2>1 DEF Difference
<1>7. /\ v \in Serial(p, q, bit) <=> ~(v + 1 \in q <=> (~(0 \in q <=> bit) /\ Feedback(p, v)))
      /\ v \in Serial(p, r, other) <=> ~(v + 1 \in r <=> (~(0 \in r <=> other) /\ Feedback(p, v)))
  BY <1>3
<1> QED
  BY <1>1, <1>4, <1>5, <1>6, <1>7

(* With the lowest coefficient in the polynomial nothing of a difference   *)
(* as narrow as the CRC gets lost.                                         *)
LEMMA DifferenceStays ==
  ASSUME NEW p, IsParameters(p), 0 \in p.polynomial, NEW ones, NEW bits, NEW size,
         NEW g, Runs(g, p, ones, 0, size), NEW h, Runs(h, p, Xor(ones, bits), 0, size),
         NEW k \in Nat, k + 1 <= size,
         Difference(g, h, bits, k) # {}, Close(Difference(g, h, bits, k), p.width)
  PROVE  /\ Difference(g, h, bits, k + 1) # {}
         /\ Close(Difference(g, h, bits, k + 1), p.width)
<1>0. p.width \in Nat /\ p.width >= 1 /\ p.polynomial \in SUBSET (0..(p.width - 1))
  BY ParameterTypes DEF WidthWord
<1>z. PICK z, y : z = Difference(g, h, bits, k) /\ y = Difference(g, h, bits, k + 1)
  OBVIOUS
<1>1. z \subseteq Nat /\ y \subseteq Nat /\ z # {} /\ Close(z, p.width)
  BY <1>z DEF Difference
<1>2. \A v \in Nat : v \in y <=> ~(v + 1 \in z <=> (0 \in z /\ Feedback(p, v)))
  BY <1>z, DifferenceNext
<1>3. CASE 0 \in z
  <2>1. \A i \in z : i < p.width
    <3>1. ASSUME NEW i \in z PROVE i < p.width
      <4>1. i - 0 < p.width /\ i \in Nat
        BY <1>1, <1>3 DEF Close
      <4> QED
        BY <4>1
    <3> QED
      BY <3>1
  <2>2. p.width - 1 \in y
    <3>1. p.width - 1 \in Nat /\ (p.width - 1) + 1 = p.width /\ p.width - 1 - (p.width - 1) = 0
      BY <1>0
    <3>2. p.width \notin z
      BY <1>0, <2>1
    <3>3. Feedback(p, p.width - 1)
      BY <3>1 DEF Feedback
    <3> QED
      BY <1>2, <1>3, <3>1, <3>2, <3>3
  <2>3. ASSUME NEW v \in y PROVE v < p.width /\ v \in Nat
    <3>1. v + 1 \in z \/ Feedback(p, v)
      BY <1>1, <1>2
    <3>2. v + 1 \in z => v < p.width
      BY <1>0, <1>1, <2>1
    <3>3. Feedback(p, v) => v < p.width
      BY <1>0, <1>1 DEF Feedback
    <3> QED
      BY <1>1, <3>1, <3>2, <3>3
  <2>4. Close(y, p.width)
    BY <1>0, <2>3 DEF Close
  <2> QED
    BY <1>z, <2>2, <2>4
<1>4. CASE 0 \notin z
  <2>1. \A v \in Nat : v \in y <=> v + 1 \in z
    BY <1>2, <1>4
  <2>2. PICK i \in z : i \in Nat /\ i # 0
    BY <1>1, <1>4
  <2>3. i - 1 \in y
    <3>1. i - 1 \in Nat /\ (i - 1) + 1 = i
      BY <2>2
    <3> QED
      BY <2>1, <2>2, <3>1
  <2>4. ASSUME NEW u \in y, NEW v \in y PROVE u - v < p.width
    <3>1. u \in Nat /\ v \in Nat /\ u + 1 \in z /\ v + 1 \in z
      BY <1>1, <2>1
    <3>2. (u + 1) - (v + 1) < p.width
      BY <1>1, <3>1 DEF Close
    <3> QED
      BY <1>0, <3>1, <3>2
  <2> QED
    BY <1>z, <2>3, <2>4 DEF Close
<1> QED
  BY <1>3, <1>4

(* Equal CRCs are those of equal registers.                                *)
LEMMA CrcOfInjective ==
  ASSUME NEW p, IsParameters(p), NEW q \in WidthWord(p.width), NEW r \in WidthWord(p.width),
         CrcOf(p, q) = CrcOf(p, r)
  PROVE  q = r
<1>0. p.width \in Nat /\ p.finalXOR \in WidthWord(p.width)
  BY ParameterTypes
<1>1. UndoFinalize(p, CrcOf(p, q)) = UndoFinalize(p, CrcOf(p, r))
  OBVIOUS
<1>2. PICK w : Holding(p, w, q) /\ Holding(p, w, r)
  BY <1>1, UndoFinalizeHolding
<1>3. \A u \in Nat : u \in q <=> u \in r
  BY <1>2 DEF Holding
<1>4. q \in SUBSET Nat /\ r \in SUBSET Nat
  BY <1>0 DEF WidthWord
<1> QED
  BY <1>3, <1>4

(* Flipped bits no further apart than the CRC is wide change it.           *)
LEMMA FlippedBitsChange ==
  ASSUME NEW p, IsParameters(p), 0 \in p.polynomial, NEW ones, NEW size \in Nat,
         NEW bits \in SUBSET (1..size), bits # {}, Close(bits, p.width)
  PROVE  Reference(p, Xor(ones, bits), 0, size) # Reference(p, ones, 0, size)
<1>g. PICK g : Runs(g, p, ones, 0, size)
  BY RunIs
<1>h. PICK h : Runs(h, p, Xor(ones, bits), 0, size)
  BY RunIs
<1>w. p.width \in Nat
  BY ParameterTypes
<1> DEFINE Good(k) == /\ Difference(g, h, bits, k) # {}
                      /\ Close(Difference(g, h, bits, k), p.width)
           T == {k \in Nat : k <= size => Good(k)}
<1>1. 0 \in T
  <2>z. PICK z : z = Difference(g, h, bits, 0)
    OBVIOUS
  <2>1. ASSUME NEW u \in Nat PROVE u \in z <=> u + 1 \in bits
    <3>1. g[0] = h[0] /\ 0 + u + 1 = u + 1
      BY <1>g, <1>h DEF Runs
    <3> QED
      BY <2>z, <3>1 DEF Difference
  <2>2. z # {}
    <3>1. PICK i \in bits : TRUE
      OBVIOUS
    <3>2. i \in 1..size
      BY <3>1
    <3>3. i - 1 \in Nat /\ (i - 1) + 1 = i
      BY <3>2
    <3> QED
      BY <2>1, <3>1, <3>3
  <2>3. ASSUME NEW u \in z, NEW v \in z PROVE u - v < p.width
    <3>1. u \in Nat /\ v \in Nat
      BY <2>z DEF Difference
    <3>2. u + 1 \in bits /\ v + 1 \in bits
      BY <2>1, <3>1
    <3>3. (u + 1) - (v + 1) < p.width
      BY <3>2 DEF Close
    <3> QED
      BY <1>w, <3>1, <3>3
  <2> QED
    BY <2>2, <2>3, <2>z DEF Close
<1>2. ASSUME NEW k \in Nat, k \in T PROVE k + 1 \in T
  <2>1. CASE k + 1 <= size
    <3>1. Difference(g, h, bits, k) # {} /\ Close(Difference(g, h, bits, k), p.width)
      BY <1>2, <2>1
    <3> HIDE DEF T
    <3>2. Good(k + 1)
      BY <1>g, <1>h, <2>1, <3>1, DifferenceStays
    <3> QED
      BY <3>2 DEF T
  <2>2. CASE ~(k + 1 <= size)
    BY <2>2
  <2> QED
    BY <2>1, <2>2
<1> HIDE DEF T
<1>3. \A k \in Nat : k \in T
  BY <1>1, <1>2, AllNumbers
<1>4. PICK u \in Nat : u \in Difference(g, h, bits, size)
  <2>1. Difference(g, h, bits, size) # {}
    BY <1>3 DEF T
  <2> QED
    BY <2>1 DEF Difference
<1>5. size + u + 1 \notin bits
  OBVIOUS
<1>6. g[size] # h[size]
  BY <1>4, <1>5 DEF Difference
<1>7. /\ Reference(p, ones, 0, size) = CrcOf(p, g[size])
      /\ Reference(p, Xor(ones, bits), 0, size) = CrcOf(p, h[size])
  BY <1>g, <1>h, ReferenceRun
<1>8. g[size] \in WidthWord(p.width) /\ h[size] \in WidthWord(p.width)
  BY <1>g, <1>h DEF Runs
<1> QED
  BY <1>6, <1>7, <1>8, CrcOfInjective

-----------------------------------------------------------------------------
(* The flipped bits lie in the bytes that crc is about, and close together.*)
Damaged ==
  /\ from = 0 /\ upto % 8 = 0
  /\ damage \in SUBSET (1..upto) /\ Close(damage, P.width)

DamageInv == CrcInv /\ (damage # {} => Damaged)

(* Only the first flips of bits make damage, and no call follows it.       *)
LEMMA DamageInvNext ==
  ASSUME ShortAppends
  PROVE  DamageInv /\ [Next]_vars => DamageInv'
<1> SUFFICES ASSUME DamageInv, [Next]_vars PROVE DamageInv'
  OBVIOUS
<1>1. CrcInv /\ CrcInv'
  BY CrcInvNext DEF DamageInv
<1>2. ASSUME UNCHANGED damage, damage = {} PROVE DamageInv'
  BY <1>1, <1>2 DEF DamageInv
<1>3. ASSUME NEW size, NEW lookup,
             First(size, lookup) \/ More(size, lookup) \/ MoreBits(size, lookup)
      PROVE  DamageInv'
  BY <1>2, <1>3 DEF First, More, MoreBits, Fits
<1>4. ASSUME NEW first \in 1..upto, NEW last \in 1..upto, first <= last, Damage(first, last)
      PROVE  DamageInv'
  <2>p. PICK p : p = P /\ p.width \in Nat
    BY <1>1, ChecksumAssumption, ParameterTypes DEF CrcInv, P
  <2>1. /\ from' = 0 /\ upto' % 8 = 0 /\ upto' = upto /\ P' = p
        /\ damage' \in {{first, last}, first..last} /\ last - first < p.width
    BY <1>4, <2>p DEF Damage, P, CharBit
  <2>u. PICK n \in Nat : n = upto /\ first \in 1..n /\ last \in 1..n
    BY <1>1 DEF CrcInv
  <2>2. \A i \in damage' : i \in first..last
    BY <1>4, <2>1
  <2>3. damage' \in SUBSET (1..n)
    BY <2>2, <2>u
  <2>4. ASSUME NEW i \in damage', NEW j \in damage' PROVE i - j < p.width
    <3>1. i \in first..last /\ j \in first..last
      BY <2>2
    <3> QED
      BY <2>1, <2>p, <2>u, <3>1
  <2> QED
    BY <1>1, <2>1, <2>3, <2>4, <2>p, <2>u DEF DamageInv, Damaged, Close
<1>5. CASE UNCHANGED vars
  BY <1>1, <1>5 DEF DamageInv, Damaged, P, vars
<1> QED
  BY <1>3, <1>4, <1>5 DEF Next

(* The polynomials have the coefficient of the lowest power, as those of   *)
(* all the parameters in CRC.h do.                                         *)
OddPolynomials == \A c \in Choices : 0 \in c.parameters.polynomial

(* The CRC of a copy in which one bit, two bits or a whole burst no longer *)
(* than the CRC was flipped is not the one that was sent with it.          *)
THEOREM CrcDetectsDamage ==
  ASSUME OddPolynomials, ShortAppends
  PROVE  Spec => []DamageIsDetected
<1>1. Init => DamageInv
  BY CrcInvInit DEF Init, DamageInv
<1>2. DamageInv => DamageIsDetected
  <2> SUFFICES ASSUME DamageInv, damage # {}
               PROVE  Calculate(Packed(P, Xor(Ones(P), damage), 0, upto), P, TRUE) # crc
    BY DEF DamageIsDetected
  <2>p. PICK p : p = P /\ IsParameters(p) /\ 0 \in p.polynomial
    BY ChecksumAssumption DEF DamageInv, CrcInv, OddPolynomials, P
  <2>n. PICK n \in Nat : n = upto /\ n % 8 = 0 /\ upto - from = n /\ from = 0
    BY DEF DamageInv, CrcInv, Damaged
  <2>o. PICK ones : ones = Ones(P)
    OBVIOUS
  <2>b. PICK bits \in SUBSET (1..n) : bits = damage
    BY <2>n DEF DamageInv, Damaged
  <2>1. crc = Reference(p, ones, 0, n)
    BY <2>n, <2>o, <2>p DEF DamageInv, CrcInv
  <2>2. Calculate(Packed(p, Xor(ones, bits), 0, n), p, TRUE) = Reference(p, Xor(ones, bits), 0, n)
    BY <2>n, <2>p, CalculateIsReference
  <2>3. Reference(p, Xor(ones, bits), 0, n) # Reference(p, ones, 0, n)
    <3>1. bits # {} /\ Close(bits, p.width)
      BY <2>b, <2>p DEF DamageInv, Damaged
    <3> QED
      BY <2>b, <2>p, <3>1, FlippedBitsChange
  <2> QED
    BY <2>1, <2>2, <2>3, <2>n, <2>o, <2>p, <2>b
<1> QED
  BY <1>1, <1>2, DamageInvNext, PTL DEF Spec

-----------------------------------------------------------------------------
(* The unused bits of the last byte.  CalculateRemainderBits adds the      *)
(* whole byte and shifts n of its bits: the others stay in the remainder,  *)
(* as far as it is wide.                                                   *)

Unused(p, byte, n) == {u \in 0..(p.width - 1) : DataBit(p, byte, u + n)}

(* The first n bits of a byte are the next n of the data, whatever the     *)
(* others are.                                                             *)
Leads(p, byte, n, ones, before) ==
  /\ byte \in Byte
  /\ \A t \in 0..(n - 1) : DataBit(p, byte, t) <=> before + (t + 1) \in ones

LEMMA UnusedBitsRun ==
  ASSUME NEW p, IsParameters(p), NEW g, NEW ones, NEW first \in Nat, NEW size,
         Runs(g, p, ones, first, size),
         NEW m \in Nat, NEW n \in Nat, m + n <= size,
         NEW c, At(p, c, g[m]),
         NEW byte, Leads(p, byte, n, ones, first + m)
  PROVE  LET after == ShiftBits(p, Absorb(p, c, byte), n)
         IN  /\ after \in RegWord(p)
             /\ \A u \in Nat : Reg(p, after, u)
                  <=> ~(u \in g[m + n] <=> DataBit(p, byte, u + n))
<1>d. PICK d : d = Absorb(p, c, byte)
  OBVIOUS
<1>1. /\ d \in RegWord(p)
      /\ \A u \in Nat : Reg(p, d, u) <=> ~(u \in g[m] <=> DataBit(p, byte, u))
  BY <1>d, AbsorbRegister DEF At, Leads
<1>2. ASSUME NEW k \in 0..(n - 1)
      PROVE  first + (m + k + 1) \in ones <=> ~(Reg(p, d, k) <=> k \in g[m])
  <2>1. k \in Nat /\ first + (m + k + 1) = (first + m) + (k + 1)
    OBVIOUS
  <2>2. DataBit(p, byte, k) <=> (first + m) + (k + 1) \in ones
    BY DEF Leads
  <2> QED
    BY <1>1, <2>1, <2>2
<1>3. /\ ShiftBits(p, d, n) \in RegWord(p)
      /\ Ahead(p, ShiftBits(p, d, n), g[m + n], d, g[m], n)
  BY <1>1, <1>2, ShiftBitsRun
<1>4. ASSUME NEW u \in Nat
      PROVE  Reg(p, ShiftBits(p, d, n), u)
               <=> ~(u \in g[m + n] <=> DataBit(p, byte, u + n))
  <2>1. u + n \in Nat
    OBVIOUS
  <2>2. Reg(p, d, u + n) <=> ~(u + n \in g[m] <=> DataBit(p, byte, u + n))
    BY <1>1, <2>1
  <2> QED
    BY <1>3, <2>2 DEF Ahead
<1> QED
  BY <1>3, <1>4, <1>d

(* Within the width, the remainder differs by the unused bits.             *)
LEMMA UnusedBitsHolding ==
  ASSUME NEW p, IsParameters(p), NEW g, NEW ones, NEW first \in Nat, NEW size,
         Runs(g, p, ones, first, size),
         NEW m \in Nat, NEW n \in Nat, m + n <= size,
         NEW byte, Leads(p, byte, n, ones, first + m),
         NEW w, Holding(p, w, g[m])
  PROVE  Holding(p, Cast(CalculateRemainderBits(byte, n, p, w), p.width),
                 Xor(g[m + n], Unused(p, byte, n)))
<1>c. PICK c : c = Align(p, w) /\ At(p, c, g[m])
  BY AlignHolding
<1>a. PICK after : after = ShiftBits(p, Absorb(p, c, byte), n)
  OBVIOUS
<1>q. PICK q : q = g[m + n]
  OBVIOUS
<1>1. /\ after \in RegWord(p)
      /\ \A u \in Nat : Reg(p, after, u) <=> ~(u \in q <=> DataBit(p, byte, u + n))
  BY <1>c, <1>a, <1>q, UnusedBitsRun
<1>2. q \in WidthWord(p.width)
  <2>1. m + n \in 0..size
    BY DEF Runs
  <2> QED
    BY <1>q, <2>1 DEF Runs
<1>r. PICK rest : rest = Unalign(p, after)
  OBVIOUS
<1>3. /\ rest \in RegWord(p)
      /\ \A u \in Nat : u < p.width =>
           ((IF p.reflectInput THEN u \in rest ELSE p.width - 1 - u \in rest)
              <=> Reg(p, after, u))
  BY <1>1, <1>r, UnalignRegister
<1>4. p.width \in Nat /\ rest \in SUBSET Nat
  BY <1>3, ParameterTypes DEF RegWord
<1>5. Cast(rest, p.width) \in RegWord(p)
  BY <1>3 DEF RegWord, Cast
<1>6. ASSUME NEW u \in Nat
      PROVE  (IF p.reflectInput THEN u \in Cast(rest, p.width)
              ELSE p.width - 1 - u \in Cast(rest, p.width))
               <=> u \in Xor(q, Unused(p, byte, n))
  <2>1. CASE u < p.width
    <3>1. u \in Unused(p, byte, n) <=> DataBit(p, byte, u + n)
      BY <1>4, <2>1 DEF Unused
    <3>2. u \in Xor(q, Unused(p, byte, n)) <=> Reg(p, after, u)
      BY <1>1, <3>1, InXor
    <3>3. p.width - 1 - u < p.width
      BY <1>4
    <3> QED
      BY <1>3, <2>1, <3>2, <3>3, InCast
  <2>2. CASE ~(u < p.width)
    <3>1. u \notin q /\ u \notin Unused(p, byte, n)
      BY <1>2, <1>4, <2>2 DEF WidthWord, Unused
    <3>2. p.width - 1 - u \notin rest
      BY <1>4, <2>2
    <3> QED
      BY <2>2, <3>1, <3>2, InCast, InXor
  <2> QED
    BY <2>1, <2>2
<1>7. CalculateRemainderBits(byte, n, p, w) = rest
  BY <1>c, <1>a, <1>r DEF CalculateRemainderBits
<1> QED
  BY <1>5, <1>6, <1>7, <1>q DEF Holding

(* Finalize looks at the remainder within the width only.                  *)
LEMMA FinalizeCast ==
  ASSUME NEW p, NEW w
  PROVE  Finalize(p, Cast(w, p.width)) = Finalize(p, w)
<1>1. Cast(Cast(w, p.width), p.width) = Cast(w, p.width)
  BY DEF Cast
<1>2. Reflect(Cast(w, p.width), p.width) = Reflect(w, p.width)
  BY <1>1 DEF Reflect
<1>3. Cast(Xor(Cast(w, p.width), p.finalXOR), p.width) = Cast(Xor(w, p.finalXOR), p.width)
  BY DEF Cast, Xor
<1> QED
  BY <1>2, <1>3 DEF Finalize

(* The bits first + 1 .. first + size are in data, with anything behind.   *)
Contains(p, data, ones, first, size) ==
  /\ WholeBytes(data, size) = WholeBytes(Packed(p, ones, first, size), size)
  /\ Leads(p, data[(size \div CharBit) + 1], size % CharBit, ones,
           first + 8 * (size \div CharBit))

(* A CRC over a number of bits that is no multiple of eight is that of the *)
(* bits exactly if the last byte has none set behind them, up to the width *)
(* of the CRC: CalculateBits does not ignore what it was not asked for.    *)
THEOREM UnusedBitsCount ==
  ASSUME NEW p, IsParameters(p), NEW ones, NEW first \in Nat, NEW size \in Nat,
         size % 8 # 0, NEW lookup \in BOOLEAN,
         NEW data, Contains(p, data, ones, first, size)
  PROVE  CalculateBits(data, size, p, lookup) = Reference(p, ones, first, size)
           <=> Unused(p, data[(size \div 8) + 1], size % 8) = {}
<1>g. PICK g : Runs(g, p, ones, first, size)
  BY RunIs
<1>k. PICK k \in Nat, n \in 0..7 : k = size \div 8 /\ n = size % 8 /\ size = 8 * k + n
  BY EightTimes
<1>j. PICK j \in Nat : j = 8 * k
  OBVIOUS
<1>b. PICK byte : byte = data[k + 1]
  OBVIOUS
<1>u. PICK unused : unused = Unused(p, byte, n)
  OBVIOUS
<1>1. first + 0 = first /\ 0 + size = size /\ 0 + 8 * k = j /\ j + n = size /\ n # 0
      /\ n \in Nat /\ j + n <= size
  BY <1>k, <1>j
<1>w. PICK w : w = CalculateRemainder(WholeBytes(data, size), p, lookup, p.initialValue)
  OBVIOUS
<1>2. Holding(p, w, g[j])
  <2>1. PICK packed : packed = Packed(p, ones, first, size)
    OBVIOUS
  <2>2. Holding(p, p.initialValue, g[0])
    BY <1>g, InitialHolding DEF Runs
  <2>3. packed = Packed(p, ones, first + 0, size) /\ 0 + size <= size
    BY <1>1, <2>1
  <2>4. Holding(p, CalculateRemainder(WholeBytes(packed, size), p, lookup, p.initialValue),
                g[0 + (8 * (size \div 8))])
    BY <1>g, <2>2, <2>3, WholeBytesRun
  <2> QED
    BY <1>1, <1>k, <1>w, <2>1, <2>4 DEF Contains
<1>3. Leads(p, byte, n, ones, first + j)
  BY <1>k, <1>j, <1>b DEF Contains, CharBit
<1>r. PICK rest : rest = CalculateRemainderBits(byte, n, p, w)
  OBVIOUS
<1>q. PICK q \in WidthWord(p.width) : q = g[size]
  BY <1>g DEF Runs
<1>4. Holding(p, Cast(rest, p.width), Xor(q, unused))
  BY <1>1, <1>2, <1>3, <1>g, <1>r, <1>q, <1>u, UnusedBitsHolding
<1>5. CalculateBits(data, size, p, lookup) = Finalize(p, rest)
  BY <1>1, <1>k, <1>b, <1>w, <1>r DEF CalculateBits, RestOfBits, CharBit
<1>6. p.width \in Nat /\ unused \in WidthWord(p.width) /\ Xor(q, unused) \in WidthWord(p.width)
  BY <1>u, ParameterTypes, XorTwice DEF Unused, WidthWord
<1>7. Finalize(p, rest) = CrcOf(p, Xor(q, unused))
  BY <1>4, <1>6, FinalizeHolding, FinalizeCast
<1>8. Reference(p, ones, first, size) = CrcOf(p, q)
  BY <1>g, <1>q, ReferenceRun
<1>9. Xor(q, unused) = q <=> unused = {}
  BY DEF Xor
<1>10. CrcOf(p, Xor(q, unused)) = CrcOf(p, q) <=> Xor(q, unused) = q
  BY <1>6, CrcOfInjective
<1> QED
  BY <1>5, <1>7, <1>8, <1>9, <1>10, <1>k, <1>b, <1>u
=============================================================================
