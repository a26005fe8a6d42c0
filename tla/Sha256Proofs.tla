---------------------------- MODULE Sha256Proofs ----------------------------
(***************************************************************************)
(* Proofs about class SHA256, for every text and all pieces: the buffer    *)
(* holds the bytes after the last whole block, the hash is that of the     *)
(* blocks before them, and so getHash returns the digest of the message.   *)
(***************************************************************************)
EXTENDS Sha256, Induction, SequenceTheorems

IsObject(s) ==
  s = [numBytes |-> s.numBytes, bufferSize |-> s.bufferSize, buffer |-> s.buffer,
       hash |-> s.hash]

(* A sequence, or the buffer, begins with count bytes of the text, those   *)
(* after its first n.                                                      *)
PieceAt(data, count, n) == \A i \in 1..count : data[i] = Text[n + i]

HasLength(data, l) == Len(data) = l

(* s is the object after the first n bytes of the text.                    *)
Tail64(s, n) ==
  /\ IsObject(s)
  /\ s.numBytes \in Nat /\ s.numBytes % 64 = 0
  /\ s.bufferSize \in 0..63
  /\ s.numBytes + s.bufferSize = n
  /\ PieceAt(s.buffer, s.bufferSize, s.numBytes)

StreamInv ==
  /\ length \in 0..Len(Text)
  /\ Tail64(sha, length)

LEMMA TextType ==
  Text \in Seq(Byte) /\ Len(Text) \in Nat /\ PieceSizes \subseteq Nat
<1>1. Text \in Seq(Byte) /\ PieceSizes \subseteq Nat
  BY Sha256Assumption
<1> QED
  BY <1>1

-----------------------------------------------------------------------------
LEMMA BlocksAndRest ==
  ASSUME NEW n \in Nat
  PROVE  /\ n \div 64 \in Nat /\ n % 64 \in 0..63
         /\ n = (64 * (n \div 64)) + (n % 64)
OBVIOUS

LEMMA WholeBlocks ==
  ASSUME NEW n \in Nat, n % 64 = 0, NEW k \in Nat
  PROVE  (n + (64 * k)) % 64 = 0
OBVIOUS

LEMMA PieceOfText ==
  ASSUME NEW n \in Nat, NEW size \in Nat, n + size <= Len(Text)
  PROVE  LET data == SubSeq(Text, n + 1, n + size)
         IN HasLength(data, size) /\ PieceAt(data, size, n)
<1> DEFINE data == SubSeq(Text, n + 1, n + size)
<1>1. Text \in Seq(Byte)
  BY TextType
<1>2. Len(data) = size
  BY <1>1
<1>3. \A i \in 1..size : data[i] = Text[n + i]
  BY <1>1
<1> QED
  BY <1>2, <1>3 DEF PieceAt, HasLength

(* Bytes of data written behind from bytes of the buffer.                  *)
LEMMA WrittenPiece ==
  ASSUME NEW buffer, NEW m \in Nat, NEW from \in Nat, PieceAt(buffer, from, m),
         NEW data, NEW n \in Nat, NEW first \in Nat, NEW count \in Nat,
         PieceAt(data, first + count, n),
         from + count <= 64, n + first = m + from
  PROVE  PieceAt(Written(buffer, from, data, first, count), from + count, m)
<1> DEFINE result == Written(buffer, from, data, first, count)
<1> SUFFICES ASSUME NEW i \in 1..(from + count) PROVE result[i] = Text[m + i]
  BY DEF PieceAt
<1>1. i \in 1..64 /\ i \in Nat
  OBVIOUS
<1>2. CASE i <= from
  <2>1. result[i] = buffer[i] /\ i \in 1..from
    BY <1>1, <1>2 DEF Written, BlockSize
  <2> QED
    BY <2>1 DEF PieceAt
<1>3. CASE i > from
  <2>1. result[i] = data[first + i - from]
    BY <1>1, <1>3 DEF Written, BlockSize
  <2>2. first + i - from \in 1..(first + count) /\ n + (first + i - from) = m + i
    BY <1>1, <1>3
  <2> QED
    BY <2>1, <2>2 DEF PieceAt
<1> QED
  BY <1>1, <1>2, <1>3

-----------------------------------------------------------------------------
(* The three ways of add: into an empty buffer, into one that becomes full,*)
(* and into one that stays partly filled.                                  *)
LEMMA FillingCases ==
  ASSUME NEW size \in 0..63, NEW l \in Nat, NEW fill,
         fill = IF size = 0 THEN 0 ELSE IF l < 64 - size THEN l ELSE 64 - size
  PROVE  /\ fill \in 0..l
         /\ \/ size = 0 /\ fill = 0
            \/ size + fill = 64
            \/ size + fill < 64 /\ fill = l
<1>1. CASE size = 0
  <2>1. fill = 0
    BY <1>1
  <2> QED
    BY <1>1, <2>1
<1>2. CASE size # 0 /\ l < 64 - size
  <2>1. fill = l
    BY <1>2
  <2> QED
    BY <1>2, <2>1
<1>3. CASE size # 0 /\ ~(l < 64 - size)
  <2>1. fill = 64 - size
    BY <1>3
  <2>2. size + fill = 64
    BY <2>1
  <2>3. fill \in Nat /\ fill <= l
    BY <1>3, <2>1
  <2> QED
    BY <2>2, <2>3
<1> QED
  BY <1>1, <1>2, <1>3

(* The counters of add: m counted and size waiting bytes before, fill      *)
(* bytes into the buffer, whole blocks, kept bytes at the end; count after.*)
Counters(m, size, fill, whole, kept, l, from, count) ==
  /\ m \in Nat /\ m % 64 = 0 /\ size \in 0..63
  /\ fill \in Nat /\ whole \in Nat /\ kept \in 0..63 /\ l \in Nat
  /\ l - fill = (64 * whole) + kept
  /\ \/ size + fill = 64 /\ from = 0 /\ count = m + 64 + (64 * whole)
     \/ from = size + fill /\ count = m + (64 * whole)

LEMMA CountersAfterAdd ==
  ASSUME NEW m, NEW size, NEW fill, NEW whole, NEW kept, NEW l, NEW from, NEW count,
         Counters(m, size, fill, whole, kept, l, from, count)
  PROVE  /\ count \in Nat /\ count % 64 = 0
         /\ m + size + fill + (64 * whole) = count + from
         /\ count + from + kept = m + size + l
<1>1. CASE size + fill = 64 /\ from = 0 /\ count = m + 64 + (64 * whole)
  <2>1. count = m + (64 * (whole + 1)) /\ m \in Nat /\ m % 64 = 0 /\ whole + 1 \in Nat
    BY <1>1 DEF Counters
  <2>2. count \in Nat /\ count % 64 = 0
    BY <2>1, WholeBlocks
  <2> QED
    BY <1>1, <2>2 DEF Counters
<1>2. CASE from = size + fill /\ count = m + (64 * whole)
  <2>1. m \in Nat /\ m % 64 = 0 /\ whole \in Nat
    BY DEF Counters
  <2>2. count \in Nat /\ count % 64 = 0
    BY <1>2, <2>1, WholeBlocks
  <2> QED
    BY <1>2, <2>2 DEF Counters
<1> QED
  BY <1>1, <1>2 DEF Counters

LEMMA AddResult ==
  ASSUME NEW s, NEW data, NEW l, HasLength(data, l), NEW fill, fill = Filling(s, data),
         NEW from, from = Flushed(s.bufferSize + fill),
         NEW whole, whole = (l - fill) \div 64, NEW kept, kept = (l - fill) % 64
  PROVE  LET filled == Written(s.buffer, s.bufferSize, data, 0, fill)
             result == add(s, data)
         IN /\ IsObject(result)
            /\ result.numBytes = s.numBytes
                 + (IF s.bufferSize + fill = 64 THEN 64 ELSE 0) + (64 * whole)
            /\ result.bufferSize = from + kept
            /\ result.buffer = Written(filled, from, data, fill + (64 * whole), kept)
            /\ result.hash =
                 ProcessBlocks(IF s.bufferSize + fill = 64 THEN processBlock(s.hash, filled)
                                                           ELSE s.hash, data, fill, whole)
BY DEF add, IsObject, BlockSize, HasLength

(* The object r after add, and what is known of the old buffer.            *)
Added(r, count, from, kept, filled, data, n, first, l) ==
  /\ IsObject(r) /\ count \in Nat /\ count % 64 = 0 /\ r.numBytes = count
  /\ from \in Nat /\ kept \in Nat /\ from + kept \in 0..63
  /\ r.bufferSize = from + kept
  /\ PieceAt(filled, from, count)
  /\ n \in Nat /\ first \in Nat /\ first + kept = l /\ PieceAt(data, l, n)
  /\ n + first = count + from
  /\ r.buffer = Written(filled, from, data, first, kept)
  /\ count + (from + kept) = n + l

LEMMA TailAfterAdd ==
  ASSUME NEW r, NEW count, NEW from, NEW kept, NEW filled, NEW data, NEW n,
         NEW first, NEW l, Added(r, count, from, kept, filled, data, n, first, l)
  PROVE  Tail64(r, n + l)
<1>1. /\ PieceAt(filled, from, count) /\ PieceAt(data, first + kept, n)
      /\ count \in Nat /\ from \in Nat /\ kept \in Nat /\ n \in Nat /\ first \in Nat
      /\ from + kept <= 64 /\ n + first = count + from
  BY DEF Added
<1>2. PieceAt(r.buffer, from + kept, count)
  <2>1. PieceAt(Written(filled, from, data, first, kept), from + kept, count)
    BY <1>1, WrittenPiece
  <2> QED
    BY <2>1 DEF Added
<1> QED
  BY <1>2 DEF Added, Tail64

LEMMA AddKeepsTail ==
  ASSUME NEW s, NEW n \in Nat, Tail64(s, n), NEW data, NEW l \in Nat,
         HasLength(data, l), PieceAt(data, l, n)
  PROVE  Tail64(add(s, data), n + l)
<1> DEFINE m      == s.numBytes
           size   == s.bufferSize
           fill   == Filling(s, data)
           whole  == (l - fill) \div 64
           kept   == (l - fill) % 64
           from   == Flushed(size + fill)
           filled == Written(s.buffer, size, data, 0, fill)
           count  == m + (IF size + fill = 64 THEN 64 ELSE 0) + (64 * whole)
           first  == fill + (64 * whole)
           result == add(s, data)
<1> SUFFICES Tail64(result, n + l)
  OBVIOUS
<1> HIDE DEF m, size, fill, whole, kept, from, filled, count, first, result
<1>1. /\ m \in Nat /\ m % 64 = 0 /\ size \in 0..63 /\ m + size = n
      /\ PieceAt(s.buffer, size, m)
  BY DEF Tail64, m, size
<1>2. /\ result.numBytes = count
      /\ result.bufferSize = from + kept
      /\ result.buffer = Written(filled, from, data, first, kept)
      /\ IsObject(result)
  BY AddResult DEF result, count, from, kept, whole, fill, filled, first, m, size
<1>3. /\ fill \in 0..l
      /\ \/ size = 0 /\ fill = 0
         \/ size + fill = 64
         \/ size + fill < 64 /\ fill = l
  <2>1. fill = IF size = 0 THEN 0 ELSE IF l < 64 - size THEN l ELSE 64 - size
    BY DEF fill, Filling, HasLength, BlockSize, size
  <2> QED
    BY <1>1, <2>1, FillingCases
<1>4. /\ from = IF size + fill = 64 THEN 0 ELSE size + fill
      /\ l \in Nat /\ PieceAt(data, l, n)
  BY DEF Flushed, BlockSize, from
<1>0. /\ count = m + (IF size + fill = 64 THEN 64 ELSE 0) + (64 * whole)
      /\ first = fill + (64 * whole)
  BY DEF count, first
<1>5. fill \in Nat /\ l - fill \in Nat
  BY <1>3, <1>4
<1>6. whole \in Nat /\ kept \in 0..63 /\ l - fill = (64 * whole) + kept
  BY <1>5, BlocksAndRest DEF whole, kept
<1>7. first \in Nat /\ first + kept = l /\ kept \in Nat
  BY <1>0, <1>4, <1>5, <1>6
<1>8. CASE size + fill = 64
  <2>1. from = 0 /\ count = m + 64 + (64 * whole)
    BY <1>0, <1>4, <1>8
  <2>2. /\ count \in Nat /\ count % 64 = 0
        /\ n + first = count + from
        /\ count + (from + kept) = n + l
    <3>1. Counters(m, size, fill, whole, kept, l, from, count)
      BY <1>1, <1>4, <1>5, <1>6, <1>8, <2>1 DEF Counters
    <3>2. /\ count \in Nat /\ count % 64 = 0
          /\ m + size + fill + (64 * whole) = count + from
          /\ count + from + kept = m + size + l
      BY <3>1, CountersAfterAdd
    <3>3. from \in Nat
      BY <1>1, <1>5, <2>1
    <3> QED
      BY <1>0, <1>1, <1>4, <1>5, <1>6, <3>2, <3>3
  <2>3. from \in Nat /\ from + kept \in 0..63
    BY <1>6, <2>1
  <2>4. PieceAt(filled, from, count)
    BY <2>1 DEF PieceAt
  <2>9. Added(result, count, from, kept, filled, data, n, first, l)
    BY <1>2, <1>4, <1>7, <2>2, <2>3, <2>4 DEF Added
  <2> QED
    BY <2>9, TailAfterAdd
<1>9. CASE size + fill # 64
  <2>1. from = size + fill /\ count = m + 0 + (64 * whole)
    BY <1>0, <1>4, <1>9
  <2>2. /\ count \in Nat /\ count % 64 = 0
        /\ n + first = count + from
        /\ count + (from + kept) = n + l
    <3>1. Counters(m, size, fill, whole, kept, l, from, count)
      BY <1>1, <1>4, <1>5, <1>6, <2>1 DEF Counters
    <3>2. /\ count \in Nat /\ count % 64 = 0
          /\ m + size + fill + (64 * whole) = count + from
          /\ count + from + kept = m + size + l
      BY <3>1, CountersAfterAdd
    <3>3. from \in Nat
      BY <1>1, <1>5, <2>1
    <3> QED
      BY <1>0, <1>1, <1>4, <1>5, <1>6, <3>2, <3>3
  <2>3. CASE size = 0 /\ fill = 0
    <3>1. from = 0
      BY <2>1, <2>3
    <3>2. from \in Nat /\ from + kept \in 0..63
      BY <1>6, <3>1
    <3>3. PieceAt(filled, from, count)
      BY <3>1 DEF PieceAt
    <3>9. Added(result, count, from, kept, filled, data, n, first, l)
      BY <1>2, <1>4, <1>7, <2>2, <3>2, <3>3 DEF Added
    <3> QED
      BY <3>9, TailAfterAdd
  <2>4. CASE size + fill < 64 /\ fill = l
    <3>1. kept = 0 /\ whole = 0
      BY <1>4, <1>6, <2>4
    <3>2. from \in Nat /\ from + kept \in 0..63
      BY <1>1, <1>5, <2>1, <2>4, <3>1
    <3>3. count = m
      BY <1>1, <2>1, <3>1
    <3>4. /\ PieceAt(data, 0 + fill, n) /\ size \in Nat
          /\ size + fill <= 64 /\ n + 0 = m + size
      BY <1>1, <1>4, <1>5, <2>4
    <3>5. PieceAt(filled, size + fill, m)
      BY <1>1, <1>5, <3>4, WrittenPiece DEF filled, size
    <3>6. PieceAt(filled, from, count)
      BY <2>1, <3>3, <3>5
    <3>9. Added(result, count, from, kept, filled, data, n, first, l)
      BY <1>2, <1>4, <1>7, <2>2, <3>2, <3>6 DEF Added
    <3> QED
      BY <3>9, TailAfterAdd
  <2> QED
    BY <1>3, <1>9, <2>3, <2>4
<1> QED
  BY <1>8, <1>9

(* The padding is written behind the bytes that wait.                      *)
LEMMA GetHashKeepsTail ==
  ASSUME NEW s, NEW n, Tail64(s, n)
  PROVE  Tail64(AfterGetHash(s), n)
<1> DEFINE r == AfterGetHash(s)
<1>1. /\ IsObject(s) /\ s.bufferSize \in 0..63 /\ s.numBytes \in Nat
      /\ s.numBytes % 64 = 0 /\ s.numBytes + s.bufferSize = n
      /\ PieceAt(s.buffer, s.bufferSize, s.numBytes)
  BY DEF Tail64
<1>2. r = [numBytes |-> s.numBytes, bufferSize |-> s.bufferSize,
           buffer |-> PaddedBuffer(s), hash |-> s.hash]
  <2>1. ASSUME NEW a, NEW b, NEW c, NEW d, NEW e,
               s = [numBytes |-> a, bufferSize |-> b, buffer |-> c, hash |-> d]
        PROVE  [s EXCEPT !.buffer = e]
               = [numBytes |-> a, bufferSize |-> b, buffer |-> e, hash |-> d]
    BY <2>1
  <2> QED
    BY <1>1, <2>1 DEF AfterGetHash, IsObject
<1>3. PieceAt(PaddedBuffer(s), s.bufferSize, s.numBytes)
  <2>1. ASSUME NEW i \in 1..s.bufferSize PROVE PaddedBuffer(s)[i] = s.buffer[i]
    <3>1. i \in 1..64 /\ i <= s.bufferSize
      BY <1>1
    <3> QED
      BY <3>1 DEF PaddedBuffer, BlockSize
  <2> QED
    BY <1>1, <2>1 DEF PieceAt
<1>4. /\ r.numBytes = s.numBytes /\ r.bufferSize = s.bufferSize
      /\ r.buffer = PaddedBuffer(s) /\ IsObject(r)
  BY <1>2 DEF IsObject
<1> HIDE DEF r
<1>5. Tail64(r, n)
  BY <1>1, <1>3, <1>4 DEF Tail64
<1> QED
  BY <1>5 DEF r

LEMMA ResetKeepsTail ==
  ASSUME NEW s, IsObject(s)
  PROVE  Tail64(reset(s), 0)
<1> DEFINE r == reset(s)
<1> DEFINE s1 == [s EXCEPT !.numBytes = 0]
           s2 == [s1 EXCEPT !.bufferSize = 0]
           s3 == [s2 EXCEPT !.hash = InitialHash]
<1>1. r = s3
  BY DEF reset
<1>2. r = [numBytes |-> 0, bufferSize |-> 0, buffer |-> s.buffer, hash |-> InitialHash]
  <2>1. s1 = [numBytes |-> 0, bufferSize |-> s.bufferSize, buffer |-> s.buffer,
              hash |-> s.hash]
    BY DEF IsObject
  <2> HIDE DEF s1
  <2>2. s2 = [numBytes |-> 0, bufferSize |-> 0, buffer |-> s.buffer, hash |-> s.hash]
    BY <2>1
  <2> HIDE DEF s2
  <2>3. s3 = [numBytes |-> 0, bufferSize |-> 0, buffer |-> s.buffer, hash |-> InitialHash]
    BY <2>2
  <2> QED
    BY <1>1, <2>3
<1> HIDE DEF r
<1>3. r.numBytes = 0 /\ r.bufferSize = 0 /\ IsObject(r)
  BY <1>2 DEF IsObject
<1>4. PieceAt(r.buffer, 0, 0)
  BY DEF PieceAt
<1>5. 0 % 64 = 0 /\ 0 \in 0..63
  OBVIOUS
<1>6. Tail64(r, 0)
  BY <1>3, <1>4, <1>5 DEF Tail64
<1> QED
  BY <1>6 DEF r

-----------------------------------------------------------------------------
LEMMA StreamInit == Init => StreamInv
<1> SUFFICES ASSUME Init PROVE StreamInv
  OBVIOUS
<1>1. length = 0 /\ Len(Text) \in Nat
  BY TextType DEF Init
<1>2. sha.numBytes = 0 /\ sha.bufferSize = 0 /\ IsObject(sha)
  BY DEF Init, IsObject
<1> QED
  BY <1>1, <1>2 DEF StreamInv, Tail64, PieceAt

LEMMA StreamStep ==
  ASSUME StreamInv, [Next]_vars
  PROVE  StreamInv'
<1>0. /\ length \in Nat /\ length <= Len(Text) /\ Len(Text) \in Nat
      /\ Tail64(sha, length) /\ IsObject(sha)
  BY TextType DEF StreamInv, Tail64
<1>1. CASE Reset
  BY <1>0, <1>1, ResetKeepsTail DEF Reset, StreamInv
<1>2. CASE GetHash
  BY <1>0, <1>2, GetHashKeepsTail DEF GetHash, StreamInv
<1>3. ASSUME NEW size \in PieceSizes, Add(size) PROVE StreamInv'
  <2> DEFINE data == SubSeq(Text, length + 1, length + size)
  <2>1. /\ length + size <= Len(Text) /\ size \in Nat
        /\ sha' = add(sha, data) /\ length' = length + size
    BY <1>3, TextType DEF Add
  <2>2. HasLength(data, size) /\ PieceAt(data, size, length)
    BY <1>0, <2>1, PieceOfText
  <2> HIDE DEF data
  <2>3. Tail64(add(sha, data), length + size)
    BY <1>0, <2>1, <2>2, AddKeepsTail
  <2> QED
    BY <1>0, <2>1, <2>3 DEF StreamInv
<1>4. ASSUME NEW size \in PieceSizes, Digest(size) PROVE StreamInv'
  <2> DEFINE data == SubSeq(Text, 0 + 1, 0 + size)
  <2>1. /\ size <= Len(Text) /\ size \in Nat /\ length' = size
        /\ sha' = AfterGetHash(add(reset(sha), data))
    BY <1>4, TextType DEF Digest
  <2>2. HasLength(data, size) /\ PieceAt(data, size, 0)
    BY <2>1, PieceOfText
  <2> HIDE DEF data
  <2>3. Tail64(add(reset(sha), data), size)
    BY <1>0, <2>1, <2>2, ResetKeepsTail, AddKeepsTail
  <2> QED
    BY <1>0, <2>1, <2>3, GetHashKeepsTail DEF StreamInv
<1>5. CASE UNCHANGED vars
  BY <1>5 DEF vars, StreamInv, Tail64, IsObject
<1> QED
  BY <1>1, <1>2, <1>3, <1>4, <1>5 DEF Next

(* After any sequence of calls, with pieces of any sizes, the buffer of    *)
(* class SHA256 begins with the bytes that follow the whole blocks counted *)
(* in m_numBytes and has room for one more: no byte is lost or compressed  *)
(* twice at the end of a block, and no loop of add leaves m_buffer.        *)
THEOREM BufferHoldsTail == Spec => []BufferIsTail
<1>1. Init => StreamInv
  BY StreamInit
<1>2. StreamInv /\ [Next]_vars => StreamInv'
  BY StreamStep
<1>3. StreamInv => BufferIsTail
  BY DEF StreamInv, Tail64, PieceAt, BufferIsTail, BlockSize
<1> QED
  BY <1>1, <1>2, <1>3, PTL DEF Spec

-----------------------------------------------------------------------------
(* ProcessBlocks, block by block.                                          *)

(* A sequence of hashes, each made of the one before and the next block.   *)
IsChain(g, hash, data, first, count) ==
  g = [k \in 0..count |->
         IF k = 0 THEN hash ELSE processBlock(g[k - 1], Block(data, first, k))]

LEMMA ChainExists ==
  ASSUME NEW hash, NEW data, NEW first
  PROVE  \A n \in Nat : \E g : IsChain(g, hash, data, first, n)
<1> DEFINE T == {n \in Nat : \E g : IsChain(g, hash, data, first, n)}
<1>1. 0 \in T
  <2> DEFINE g == [k \in 0..0 |-> hash]
  <2>1. IsChain(g, hash, data, first, 0)
    BY DEF IsChain
  <2> QED
    BY <2>1
<1>2. ASSUME NEW n \in Nat, n \in T PROVE n + 1 \in T
  <2>1. PICK g : IsChain(g, hash, data, first, n)
    BY <1>2
  <2> DEFINE last == processBlock(g[n], Block(data, first, n + 1))
             h == [k \in 0..(n + 1) |-> IF k <= n THEN g[k] ELSE last]
             next(k) == IF k = 0 THEN hash ELSE processBlock(h[k - 1], Block(data, first, k))
  <2>2. ASSUME NEW k \in 0..(n + 1) PROVE h[k] = next(k)
    <3>1. CASE k <= n
      <4>1. h[k] = g[k] /\ k \in 0..n
        BY <3>1
      <4>2. g[k] = IF k = 0 THEN hash ELSE processBlock(g[k - 1], Block(data, first, k))
        BY <2>1, <4>1 DEF IsChain
      <4>3. k # 0 => h[k - 1] = g[k - 1]
        BY <3>1
      <4> QED
        BY <4>1, <4>2, <4>3
    <3>2. CASE k = n + 1
      BY <3>2
    <3> QED
      BY <3>1, <3>2
  <2>3. h = [k \in 0..(n + 1) |-> next(k)]
    BY <2>2
  <2>4. IsChain(h, hash, data, first, n + 1)
    BY <2>3 DEF IsChain
  <2> QED
    BY <2>4
<1> HIDE DEF T
<1>3. \A n \in Nat : n \in T
  BY <1>1, <1>2, AllNumbers
<1> QED
  BY <1>3 DEF T

(* Two of them that begin alike agree.                                     *)
LEMMA ChainsAgree ==
  ASSUME NEW hash, NEW data, NEW first, NEW m \in Nat, NEW n \in Nat, m <= n,
         NEW g, IsChain(g, hash, data, first, m),
         NEW h, IsChain(h, hash, data, first, n)
  PROVE  \A k \in 0..m : g[k] = h[k]
<1> DEFINE T == {k \in Nat : k <= m => g[k] = h[k]}
<1>1. 0 \in T
  <2>1. g[0] = hash /\ h[0] = hash
    BY DEF IsChain
  <2> QED
    BY <2>1
<1>2. ASSUME NEW k \in Nat, k \in T PROVE k + 1 \in T
  <2>1. CASE k + 1 <= m
    <3>1. g[k] = h[k]
      BY <1>2, <2>1
    <3>2. k + 1 \in 0..m /\ k + 1 \in 0..n /\ k + 1 # 0 /\ (k + 1) - 1 = k
      BY <2>1
    <3>3. g[k + 1] = processBlock(g[k], Block(data, first, k + 1))
      BY <3>2 DEF IsChain
    <3>4. h[k + 1] = processBlock(h[k], Block(data, first, k + 1))
      BY <3>2 DEF IsChain
    <3> QED
      BY <3>1, <3>3, <3>4
  <2> QED
    BY <2>1
<1> HIDE DEF T
<1>3. \A k \in Nat : k \in T
  BY <1>1, <1>2, AllNumbers
<1> QED
  BY <1>3 DEF T

LEMMA ProcessChain ==
  ASSUME NEW hash, NEW data, NEW first, NEW n \in Nat
  PROVE  \E g : IsChain(g, hash, data, first, n)
                /\ ProcessBlocks(hash, data, first, n) = g[n]
<1> DEFINE g == CHOOSE g : IsChain(g, hash, data, first, n)
<1>1. IsChain(g, hash, data, first, n)
  BY ChainExists
<1>2. ProcessBlocks(hash, data, first, n) = g[n]
  BY DEF ProcessBlocks, IsChain
<1> QED
  BY <1>1, <1>2

(* What processing no block, and one more block, does.                     *)
LEMMA ProcessNone ==
  ASSUME NEW hash, NEW data, NEW first
  PROVE  ProcessBlocks(hash, data, first, 0) = hash
BY ProcessChain DEF IsChain

LEMMA ProcessNext ==
  ASSUME NEW hash, NEW data, NEW first, NEW n \in Nat
  PROVE  ProcessBlocks(hash, data, first, n + 1)
           = processBlock(ProcessBlocks(hash, data, first, n), Block(data, first, n + 1))
<1>1. PICK g : IsChain(g, hash, data, first, n)
               /\ ProcessBlocks(hash, data, first, n) = g[n]
  BY ProcessChain
<1>2. PICK h : IsChain(h, hash, data, first, n + 1)
               /\ ProcessBlocks(hash, data, first, n + 1) = h[n + 1]
  BY ProcessChain
<1>3. g[n] = h[n]
  BY <1>1, <1>2, ChainsAgree
<1>4. n + 1 \in 0..(n + 1) /\ n + 1 # 0 /\ (n + 1) - 1 = n
  OBVIOUS
<1>5. h[n + 1] = processBlock(h[n], Block(data, first, n + 1))
  BY <1>2, <1>4 DEF IsChain
<1> QED
  BY <1>1, <1>2, <1>3, <1>5

(* The first 64 elements of data behind its first m, as a block.           *)
BlockAt(data, m) == [i \in 1..64 |-> data[m + i]]

LEMMA SubSeqAt ==
  ASSUME NEW S, NEW data \in Seq(S), NEW m \in Nat, m + 64 <= Len(data)
  PROVE  SubSeq(data, m + 1, m + 64) = BlockAt(data, m)
<1> DEFINE b == SubSeq(data, m + 1, m + 64)
<1>1. /\ m + 1 \in Int /\ m + 64 \in Int /\ m + 1 <= m + 64
      /\ (m + 64) - (m + 1) + 1 = 64
      /\ \A i \in (m + 1)..(m + 64) : data[i] \in S
  OBVIOUS
<1>2. /\ b \in Seq(S) /\ Len(b) = 64
      /\ \A i \in 1..64 : b[i] = data[(m + 1) + i - 1]
  BY <1>1, SubSeqProperties
<1> HIDE DEF b
<1>3. ASSUME NEW i \in 1..64 PROVE b[i] = data[m + i]
  <2>1. (m + 1) + i - 1 = m + i
    OBVIOUS
  <2>2. b[i] = data[(m + 1) + i - 1]
    BY <1>2
  <2> QED
    BY <2>1, <2>2
<1>4. b = [i \in 1..64 |-> b[i]]
  BY <1>2
<1>5. b = BlockAt(data, m)
  BY <1>3, <1>4 DEF BlockAt
<1> QED
  BY <1>5 DEF b

LEMMA BlockIs ==
  ASSUME NEW S, NEW data \in Seq(S), NEW first \in Nat, NEW n \in Nat,
         first + (64 * (n + 1)) <= Len(data)
  PROVE  Block(data, first, n + 1) = BlockAt(data, first + (64 * n))
<1> DEFINE m == first + (64 * n)
<1>1. m \in Nat /\ first + (64 * (n + 1)) = m + 64 /\ first + (64 * ((n + 1) - 1)) = m
  OBVIOUS
<1>2. Block(data, first, n + 1) = SubSeq(data, m + 1, m + 64)
  BY <1>1 DEF Block, BlockSize
<1> HIDE DEF m
<1>3. m + 64 <= Len(data)
  BY <1>1
<1>4. Block(data, first, n + 1) = BlockAt(data, m)
  BY <1>1, <1>2, <1>3, SubSeqAt
<1> QED
  BY <1>4 DEF m

-----------------------------------------------------------------------------
(* The hash after the first k blocks of the text.                          *)
TextHash(k) == ProcessBlocks(InitialHash, Text, 0, k)

LEMMA TextHashNext ==
  ASSUME NEW k \in Nat, (64 * (k + 1)) <= Len(Text)
  PROVE  TextHash(k + 1) = processBlock(TextHash(k), BlockAt(Text, 64 * k))
<1>1. Text \in Seq(Byte) /\ Len(Text) \in Nat
  BY TextType
<1>2. 0 + (64 * (k + 1)) <= Len(Text) /\ 0 + (64 * k) = 64 * k
  OBVIOUS
<1>3. Block(Text, 0, k + 1) = BlockAt(Text, 64 * k)
  BY <1>1, <1>2, BlockIs
<1> QED
  BY <1>3, ProcessNext DEF TextHash

(* data holds the l bytes of the text that follow the first n; a block of  *)
(* the text begins in it behind its first bytes.                           *)
Aligned(data, l, n, first, a) ==
  /\ l \in Nat /\ n \in Nat /\ first \in Nat /\ a \in Nat
  /\ l <= Len(data) /\ n + l <= Len(Text) /\ PieceAt(data, l, n)
  /\ n + first = 64 * a

LEMMA AlignedBlock ==
  ASSUME NEW data, NEW l, NEW n, NEW first, NEW a, Aligned(data, l, n, first, a),
         NEW w \in Nat, first + (64 * (w + 1)) <= l
  PROVE  BlockAt(data, first + (64 * w)) = BlockAt(Text, 64 * (a + w))
<1>1. /\ l \in Nat /\ n \in Nat /\ first \in Nat /\ a \in Nat /\ n + first = 64 * a
      /\ PieceAt(data, l, n)
  BY DEF Aligned
<1>2. ASSUME NEW i \in 1..64
      PROVE  data[(first + (64 * w)) + i] = Text[(64 * (a + w)) + i]
  <2>1. (first + (64 * w)) + i \in 1..l
    BY <1>1
  <2>2. n + ((first + (64 * w)) + i) = (64 * (a + w)) + i
    BY <1>1
  <2> QED
    BY <1>1, <2>1, <2>2 DEF PieceAt
<1> QED
  BY <1>2 DEF BlockAt

(* Processing the blocks of data continues with those of the text.         *)
LEMMA ProcessPiece ==
  ASSUME NEW S, NEW data \in Seq(S), NEW l, NEW n, NEW first, NEW a,
         Aligned(data, l, n, first, a)
  PROVE  \A w \in Nat : first + (64 * w) <= l =>
           ProcessBlocks(TextHash(a), data, first, w) = TextHash(a + w)
<1> DEFINE T == {w \in Nat : first + (64 * w) <= l =>
                   ProcessBlocks(TextHash(a), data, first, w) = TextHash(a + w)}
<1>0. /\ l \in Nat /\ n \in Nat /\ first \in Nat /\ a \in Nat /\ n + first = 64 * a
      /\ l <= Len(data) /\ n + l <= Len(Text)
  BY DEF Aligned
<1>1. 0 \in T
  <2>1. a + 0 = a
    BY <1>0
  <2> QED
    BY <2>1, ProcessNone
<1>2. ASSUME NEW w \in Nat, w \in T PROVE w + 1 \in T
  <2> SUFFICES ASSUME first + (64 * (w + 1)) <= l
               PROVE  ProcessBlocks(TextHash(a), data, first, w + 1)
                        = TextHash(a + (w + 1))
    OBVIOUS
  <2>1. first + (64 * w) <= l
    BY <1>0
  <2>2. ProcessBlocks(TextHash(a), data, first, w) = TextHash(a + w)
    BY <1>2, <2>1
  <2> HIDE DEF T
  <2>3. Block(data, first, w + 1) = BlockAt(data, first + (64 * w))
    <3>1. first + (64 * (w + 1)) <= Len(data)
      BY <1>0
    <3> QED
      BY <1>0, <3>1, BlockIs
  <2>4. BlockAt(data, first + (64 * w)) = BlockAt(Text, 64 * (a + w))
    BY AlignedBlock
  <2>5. TextHash((a + w) + 1) = processBlock(TextHash(a + w), BlockAt(Text, 64 * (a + w)))
    <3>1. a + w \in Nat /\ (64 * ((a + w) + 1)) <= Len(Text)
      <4>1. 64 * ((a + w) + 1) = n + (first + (64 * (w + 1)))
        BY <1>0
      <4> QED
        BY <1>0, <4>1, TextType
    <3> QED
      BY <3>1, TextHashNext
  <2>6. (a + w) + 1 = a + (w + 1)
    BY <1>0
  <2> QED
    BY <2>2, <2>3, <2>4, <2>5, <2>6, ProcessNext
<1> HIDE DEF T
<1>3. \A w \in Nat : w \in T
  BY <1>1, <1>2, AllNumbers
<1> QED
  BY <1>3 DEF T

(* The hash of the object is that of the blocks it has counted.            *)
Hashed(s) == \E a \in Nat : s.numBytes = 64 * a /\ s.hash = TextHash(a)

LEMMA AddKeepsHash ==
  ASSUME NEW s, NEW n \in Nat, Tail64(s, n), Hashed(s),
         NEW S, NEW data \in Seq(S), NEW l \in Nat,
         HasLength(data, l), PieceAt(data, l, n), n + l <= Len(Text)
  PROVE  Hashed(add(s, data))
<1> DEFINE size   == s.bufferSize
           fill   == Filling(s, data)
           whole  == (l - fill) \div 64
           filled == Written(s.buffer, size, data, 0, fill)
           start  == IF size + fill = 64 THEN processBlock(s.hash, filled) ELSE s.hash
           result == add(s, data)
<1>1. PICK a \in Nat : s.numBytes = 64 * a /\ s.hash = TextHash(a)
  BY DEF Hashed
<1>2. /\ result.numBytes = (64 * a) + (IF size + fill = 64 THEN 64 ELSE 0) + (64 * whole)
      /\ result.hash = ProcessBlocks(start, data, fill, whole)
  BY <1>1, AddResult
<1>3. /\ size \in 0..63 /\ (64 * a) + size = n
      /\ PieceAt(s.buffer, size, 64 * a)
  BY <1>1 DEF Tail64
<1>4. /\ fill \in 0..l
      /\ \/ size = 0 /\ fill = 0
         \/ size + fill = 64
         \/ size + fill < 64 /\ fill = l
  <2>1. fill = IF size = 0 THEN 0 ELSE IF l < 64 - size THEN l ELSE 64 - size
    BY DEF Filling, HasLength, BlockSize
  <2> HIDE DEF fill, size
  <2> QED
    BY <1>3, <2>1, FillingCases
<1>5. /\ start = IF size + fill = 64 THEN processBlock(s.hash, filled) ELSE s.hash
      /\ filled = Written(s.buffer, size, data, 0, fill)
      /\ whole = (l - fill) \div 64
  OBVIOUS
<1> HIDE DEF size, fill, whole, filled, start, result
<1>6. whole \in Nat /\ fill + (64 * whole) <= l /\ fill \in Nat
  <2>1. l - fill \in Nat /\ fill \in Nat
    BY <1>4
  <2>2. /\ whole \in Nat /\ (l - fill) % 64 \in 0..63
        /\ l - fill = (64 * whole) + ((l - fill) % 64)
    BY <1>5, <2>1, BlocksAndRest
  <2> QED
    BY <2>1, <2>2
<1>7. l <= Len(data) /\ PieceAt(data, l, n)
  BY DEF HasLength
<1>8. Len(Text) \in Nat
  BY TextType
<1>9. CASE size + fill = 64
  <2>1. n + fill = 64 * (a + 1)
    BY <1>3, <1>6, <1>9
  <2>2. PieceAt(filled, 64, 64 * a)
    <3>1. PieceAt(data, 0 + fill, n)
      BY <1>4, <1>7 DEF PieceAt
    <3>2. 64 * a \in Nat /\ size \in Nat /\ size + fill <= 64 /\ n + 0 = (64 * a) + size
      BY <1>3, <1>9
    <3>3. PieceAt(filled, size + fill, 64 * a)
      BY <1>3, <1>5, <1>6, <3>1, <3>2, WrittenPiece
    <3> QED
      BY <1>9, <3>3
  <2>3. filled = BlockAt(Text, 64 * a)
    <3>1. filled = [i \in 1..64 |-> filled[i]]
      BY <1>5 DEF Written, BlockSize
    <3> QED
      BY <2>2, <3>1 DEF BlockAt, PieceAt
  <2>4. start = TextHash(a + 1)
    <3>1. (64 * (a + 1)) <= Len(Text)
      BY <1>4, <1>8, <2>1
    <3> QED
      BY <1>1, <1>5, <1>9, <2>3, <3>1, TextHashNext
  <2>b. PICK b \in Nat : b = a + 1
    OBVIOUS
  <2>5. Aligned(data, l, n, fill, b)
    BY <1>6, <1>7, <2>1, <2>b DEF Aligned
  <2>6. result.hash = TextHash(b + whole)
    <3>0. \A w \in Nat : fill + (64 * w) <= l =>
            ProcessBlocks(TextHash(b), data, fill, w) = TextHash(b + w)
      BY <2>5, ProcessPiece
    <3>1. ProcessBlocks(TextHash(b), data, fill, whole) = TextHash(b + whole)
      BY <1>6, <3>0
    <3> QED
      BY <1>2, <2>4, <2>b, <3>1
  <2>7. result.numBytes = 64 * (b + whole) /\ b + whole \in Nat
    BY <1>2, <1>6, <1>9, <2>b
  <2>8. Hashed(result)
    BY <2>6, <2>7 DEF Hashed
  <2> QED
    BY <2>8 DEF result
<1>10. CASE size = 0 /\ fill = 0
  <2>1. n + fill = 64 * a /\ start = TextHash(a)
    BY <1>1, <1>3, <1>5, <1>10
  <2>2. Aligned(data, l, n, fill, a)
    BY <1>6, <1>7, <2>1 DEF Aligned
  <2>3. result.hash = TextHash(a + whole)
    BY <1>2, <1>6, <2>1, <2>2, ProcessPiece
  <2>4. result.numBytes = 64 * (a + whole) /\ a + whole \in Nat
    BY <1>2, <1>6, <1>10
  <2>5. Hashed(result)
    BY <2>3, <2>4 DEF Hashed
  <2> QED
    BY <2>5 DEF result
<1>11. CASE size + fill < 64 /\ fill = l
  <2>1. whole = 0
    BY <1>6, <1>11
  <2>2. size + fill # 64
    BY <1>3, <1>6, <1>11
  <2>3. result.hash = TextHash(a)
    BY <1>1, <1>2, <1>5, <2>1, <2>2, ProcessNone
  <2>4. result.numBytes = 64 * a
    BY <1>2, <2>1, <2>2
  <2>5. Hashed(result)
    BY <2>3, <2>4 DEF Hashed
  <2> QED
    BY <2>5 DEF result
<1> QED
  BY <1>4, <1>9, <1>10, <1>11

-----------------------------------------------------------------------------
(* Where processBuffer puts the length, and how long a message becomes.    *)
LEMMA PaddedLengthIs ==
  ASSUME NEW r \in 0..63
  PROVE  paddedLength(r) = IF r <= 55 THEN 56 ELSE 120
<1>1. (8 * r + 1) % 512 = 8 * r + 1
  OBVIOUS
<1>2. paddedLength(r) = FieldAfter(8 * r + 1, 8 * r + 1, 448)
  BY <1>1 DEF paddedLength, BlockSize, LengthBytes
<1>3. CASE r <= 55
  <2>1. FieldAfter(8 * r + 1, 8 * r + 1, 448) = ((8 * r + 1) + (448 - (8 * r + 1))) \div 8
    BY <1>3 DEF FieldAfter
  <2> QED
    BY <1>2, <1>3, <2>1
<1>4. CASE r > 55
  <2>1. FieldAfter(8 * r + 1, 8 * r + 1, 448)
          = ((8 * r + 1) + (512 + 448 - (8 * r + 1))) \div 8
    BY <1>4 DEF FieldAfter, BlockSize
  <2> QED
    BY <1>2, <1>4, <2>1
<1> QED
  BY <1>3, <1>4

LEMMA PaddedSizeIs ==
  ASSUME NEW k \in Nat, NEW r \in 0..63
  PROVE  /\ PaddedSize((64 * k) + r) = 64 * (k + (IF r <= 55 THEN 1 ELSE 2))
         /\ PaddedSize((64 * k) + r) \div BlockSize = k + (IF r <= 55 THEN 1 ELSE 2)
<1> DEFINE c == IF r <= 55 THEN 1 ELSE 2
<1>1. (((64 * k) + r) + 72) \div 64 = k + c
  OBVIOUS
<1>2. PaddedSize((64 * k) + r) = 64 * (k + c)
  <2>1. ((64 * k) + r) + 1 + 8 + 64 - 1 = ((64 * k) + r) + 72
    OBVIOUS
  <2> QED
    BY <1>1, <2>1 DEF PaddedSize, BlockSize, LengthBytes
<1>3. (64 * (k + c)) \div 64 = k + c
  OBVIOUS
<1> QED
  BY <1>2, <1>3 DEF BlockSize

(* The bytes of a length that are above its 16 bits.                       *)
LEMMA HighByteIsZero ==
  ASSUME NEW n \in Nat, NEW m \in Int, m >= 8
  PROVE  Cast(ShiftRight(Bits(n), 8 * m), 8) = {}
<1>1. \A j \in Bits(n) : j \in 0..15
  BY DEF Bits
<1>2. \A j \in Bits(n) : ~(j >= 8 * m)
  BY <1>1
<1>3. ShiftRight(Bits(n), 8 * m) = {}
  BY <1>2 DEF ShiftRight
<1> QED
  BY <1>3 DEF Cast

LEMMA LengthByteIs ==
  ASSUME NEW n \in Nat, NEW i \in 57..64
  PROVE  LengthByte(n, i - 1 - 56) = Cast(ShiftRight(Bits(8 * n), 8 * (64 - i)), 8)
<1>1. 8 - 1 - (i - 1 - 56) = 64 - i
  OBVIOUS
<1> QED
  BY <1>1 DEF LengthByte, LengthBytes

(* The object after the first n = 64 k + r bytes, k blocks of them hashed. *)
Waiting(s, k, r) ==
  /\ k \in Nat /\ r \in 0..63 /\ (64 * k) + r <= Len(Text)
  /\ s.numBytes = 64 * k /\ s.bufferSize = r /\ s.hash = TextHash(k)
  /\ PieceAt(s.buffer, r, 64 * k)

LEMMA PaddedAt ==
  ASSUME NEW n \in Nat, NEW i \in 1..PaddedSize(n)
  PROVE  PaddedMessage(n)[i] =
           IF i <= n THEN Text[i] ELSE IF i = n + 1 THEN {7}
           ELSE Cast(ShiftRight(Bits(8 * n), 8 * (PaddedSize(n) - i)), 8)
BY DEF PaddedMessage

LEMMA PaddedType ==
  ASSUME NEW k \in Nat, NEW r \in 0..63, (64 * k) + r <= Len(Text)
  PROVE  LET n == (64 * k) + r
         IN /\ PaddedMessage(n) \in Seq(SUBSET Int)
            /\ Len(PaddedMessage(n)) = PaddedSize(n)
            /\ PaddedSize(n) \in Nat /\ n <= PaddedSize(n)
            /\ PieceAt(PaddedMessage(n), n, 0)
<1>n. PICK n \in Nat : n = (64 * k) + r
  OBVIOUS
<1>1. PaddedSize(n) \in Nat /\ n <= PaddedSize(n)
  <2>1. PaddedSize(n) = 64 * (k + (IF r <= 55 THEN 1 ELSE 2))
    BY <1>n, PaddedSizeIs
  <2>2. CASE r <= 55
    BY <1>n, <2>1, <2>2
  <2>3. CASE r > 55
    BY <1>n, <2>1, <2>3
  <2> QED
    BY <2>2, <2>3
<1> DEFINE at(i) == IF i <= n THEN Text[i] ELSE IF i = n + 1 THEN {7}
                    ELSE Cast(ShiftRight(Bits(8 * n), 8 * (PaddedSize(n) - i)), 8)
<1>2. ASSUME NEW i \in 1..PaddedSize(n) PROVE at(i) \in SUBSET Int
  <2>1. CASE i <= n
    <3>1. i \in 1..Len(Text) /\ Text \in Seq(Byte)
      BY <1>n, <2>1, TextType
    <3>2. Text[i] \in Byte
      BY <3>1
    <3> QED
      BY <2>1, <3>2 DEF Byte
  <2>2. CASE i = n + 1
    BY <2>2
  <2>3. CASE i > n /\ i # n + 1
    <3> DEFINE m == 8 * (PaddedSize(n) - i)
               w == Bits(8 * n)
    <3>1. m \in Int
      BY <1>1
    <3>2. w \subseteq Int
      BY DEF Bits
    <3> HIDE DEF m, w
    <3>3. Cast(ShiftRight(w, m), 8) \subseteq Int
      BY <3>1, <3>2 DEF Cast, ShiftRight
    <3> QED
      BY <2>3, <3>3 DEF m, w
  <2> QED
    BY <2>1, <2>2, <2>3
<1>3. PaddedMessage(n) = [i \in 1..PaddedSize(n) |-> at(i)]
  BY DEF PaddedMessage
<1> HIDE DEF at
<1>4. PaddedMessage(n) \in [1..PaddedSize(n) -> SUBSET Int]
  BY <1>2, <1>3
<1>5. PaddedMessage(n) \in Seq(SUBSET Int) /\ Len(PaddedMessage(n)) = PaddedSize(n)
  BY <1>1, <1>4
<1>6. PieceAt(PaddedMessage(n), n, 0)
  BY <1>1, PaddedAt DEF PieceAt
<1> QED
  BY <1>1, <1>5, <1>6, <1>n

(* The last blocks of the padded message are what processBuffer makes of   *)
(* the buffer.                                                             *)
LEMMA LastBlock ==
  ASSUME NEW s, NEW k, NEW r, Waiting(s, k, r)
  PROVE  BlockAt(PaddedMessage((64 * k) + r), 64 * k) = PaddedBuffer(s)
<1>0. /\ k \in Nat /\ r \in 0..63
      /\ s.numBytes = 64 * k /\ s.bufferSize = r /\ PieceAt(s.buffer, r, 64 * k)
  BY DEF Waiting
<1>n. PICK n \in Nat : n = (64 * k) + r
  BY <1>0
<1>f. PICK field \in {56, 120} : /\ field = paddedLength(r)
                                 /\ field = IF r <= 55 THEN 56 ELSE 120
  BY <1>0, PaddedLengthIs
<1>p. PICK size \in Nat :
        size = PaddedSize(n) /\ size = (64 * k) + (IF r <= 55 THEN 64 ELSE 128)
  <2>1. PaddedSize(n) = 64 * (k + (IF r <= 55 THEN 1 ELSE 2))
    BY <1>0, <1>n, PaddedSizeIs
  <2>2. CASE r <= 55
    BY <1>0, <2>1, <2>2
  <2>3. CASE r > 55
    BY <1>0, <2>1, <2>3
  <2> QED
    BY <1>0, <2>2, <2>3
<1>1. ASSUME NEW i \in 1..64
      PROVE  PaddedMessage(n)[(64 * k) + i]
             = IF i <= r THEN s.buffer[i]
               ELSE IF i > field THEN LengthByte(n, i - 1 - field)
               ELSE IF i = r + 1 THEN {7} ELSE {}
  <2> DEFINE j    == (64 * k) + i
             byte == Cast(ShiftRight(Bits(8 * n), 8 * (size - j)), 8)
  <2>1. PaddedMessage(n)[j] = IF j <= n THEN Text[j] ELSE IF j = n + 1 THEN {7} ELSE byte
    <3>1. j \in 1..PaddedSize(n)
      BY <1>0, <1>p
    <3> QED
      BY <1>n, <1>p, <3>1, PaddedAt
  <2>2. j <= n <=> i <= r
    BY <1>0, <1>n
  <2>3. j = n + 1 <=> i = r + 1
    BY <1>0, <1>n
  <2>4. size - j = IF r <= 55 THEN 64 - i ELSE 128 - i
    BY <1>0, <1>p
  <2>5. i <= r => Text[j] = s.buffer[i]
    BY <1>0 DEF PieceAt
  <2>6. i > field => /\ byte = LengthByte(n, i - 1 - field)
                     /\ i > r + 1
    <3> SUFFICES ASSUME i > field
                 PROVE  byte = LengthByte(n, i - 1 - field) /\ i > r + 1
      OBVIOUS
    <3>1. r <= 55 /\ field = 56 /\ i \in 57..64
      BY <1>0, <1>f
    <3>2. size - j = 64 - i
      BY <2>4, <3>1
    <3>3. LengthByte(n, i - 1 - 56) = Cast(ShiftRight(Bits(8 * n), 8 * (64 - i)), 8)
      BY <3>1, LengthByteIs
    <3> QED
      BY <1>0, <3>1, <3>2, <3>3
  <2>7. i > r + 1 /\ ~(i > field) => byte = {}
    <3> SUFFICES ASSUME i > r + 1, ~(i > field) PROVE byte = {}
      OBVIOUS
    <3>1. size - j \in Int /\ size - j >= 8
      BY <1>0, <1>f, <2>4
    <3>2. 8 * n \in Nat
      BY <1>n
    <3> QED
      BY <3>1, <3>2, HighByteIsZero
  <2> HIDE DEF j, byte
  <2>8. CASE i <= r
    BY <1>0, <2>1, <2>2, <2>5, <2>8 DEF j
  <2>9. CASE i = r + 1
    <3>1. ~(i > field) /\ ~(i <= r)
      BY <1>0, <2>6, <2>9
    <3> QED
      BY <2>1, <2>2, <2>3, <2>9, <3>1 DEF j
  <2>10. CASE i > r + 1
    <3>1. ~(i <= r) /\ i # r + 1
      BY <1>0, <2>10
    <3> QED
      BY <2>1, <2>2, <2>3, <2>6, <2>7, <2>10, <3>1 DEF j
  <2> QED
    BY <1>0, <2>8, <2>9, <2>10 DEF j
<1>2. PaddedBuffer(s) = [i \in 1..64 |->
        IF i <= r THEN s.buffer[i]
        ELSE IF i > field THEN LengthByte(n, i - 1 - field)
        ELSE IF i = r + 1 THEN {7} ELSE {}]
  BY <1>0, <1>f, <1>n DEF PaddedBuffer, BlockSize
<1>3. BlockAt(PaddedMessage(n), 64 * k) = [i \in 1..64 |-> PaddedMessage(n)[(64 * k) + i]]
  BY DEF BlockAt
<1>4. BlockAt(PaddedMessage(n), 64 * k) = PaddedBuffer(s)
  <2> DEFINE at(i)    == PaddedMessage(n)[(64 * k) + i]
             value(i) == IF i <= r THEN s.buffer[i]
                         ELSE IF i > field THEN LengthByte(n, i - 1 - field)
                         ELSE IF i = r + 1 THEN {7} ELSE {}
  <2>1. \A i \in 1..64 : at(i) = value(i)
    BY <1>1
  <2> HIDE DEF at, value
  <2>2. [i \in 1..64 |-> at(i)] = [i \in 1..64 |-> value(i)]
    BY <2>1
  <2> QED
    BY <1>2, <1>3, <2>2 DEF at, value
<1> QED
  BY <1>n, <1>4

LEMMA OneMoreBlock ==
  ASSUME NEW s, NEW k, NEW r, Waiting(s, k, r), r > 55
  PROVE  BlockAt(PaddedMessage((64 * k) + r), 64 * (k + 1)) = ExtraBlock(s)
<1>0. k \in Nat /\ r \in 56..63 /\ s.numBytes = 64 * k /\ s.bufferSize = r
  BY DEF Waiting
<1>n. PICK n \in Nat : n = (64 * k) + r
  BY <1>0
<1>f. paddedLength(r) - 64 = 56
  BY <1>0, PaddedLengthIs
<1>p. PICK size \in Nat : size = PaddedSize(n) /\ size = (64 * k) + 128
  <2>1. PaddedSize(n) = 64 * (k + (IF r <= 55 THEN 1 ELSE 2))
    BY <1>0, <1>n, PaddedSizeIs
  <2> QED
    BY <1>0, <2>1
<1>1. ASSUME NEW i \in 1..64
      PROVE  PaddedMessage(n)[(64 * (k + 1)) + i]
             = IF i > 56 THEN LengthByte(n, i - 1 - 56) ELSE {}
  <2> DEFINE j    == (64 * (k + 1)) + i
             byte == Cast(ShiftRight(Bits(8 * n), 8 * (size - j)), 8)
  <2>1. j > n + 1 /\ j \in 1..size /\ size - j = 64 - i
    BY <1>0, <1>n, <1>p
  <2>2. PaddedMessage(n)[j] = byte
    BY <1>n, <1>p, <2>1, PaddedAt
  <2>3. CASE i > 56
    <3>1. i \in 57..64
      BY <2>3
    <3>2. LengthByte(n, i - 1 - 56) = Cast(ShiftRight(Bits(8 * n), 8 * (64 - i)), 8)
      BY <3>1, LengthByteIs
    <3> QED
      BY <2>1, <2>2, <2>3, <3>2
  <2>4. CASE ~(i > 56)
    <3>1. size - j \in Int /\ size - j >= 8 /\ 8 * n \in Nat
      BY <1>n, <2>1, <2>4
    <3>2. byte = {}
      BY <3>1, HighByteIsZero
    <3> QED
      BY <2>2, <2>4, <3>2
  <2> QED
    BY <2>3, <2>4
<1>2. ExtraBlock(s) = [i \in 1..64 |-> IF i > 56 THEN LengthByte(n, i - 1 - 56) ELSE {}]
  BY <1>0, <1>f, <1>n DEF ExtraBlock, BlockSize
<1>3. BlockAt(PaddedMessage(n), 64 * (k + 1))
        = [i \in 1..64 |-> PaddedMessage(n)[(64 * (k + 1)) + i]]
  BY DEF BlockAt
<1>4. BlockAt(PaddedMessage(n), 64 * (k + 1)) = ExtraBlock(s)
  <2> DEFINE at(i)    == PaddedMessage(n)[(64 * (k + 1)) + i]
             value(i) == IF i > 56 THEN LengthByte(n, i - 1 - 56) ELSE {}
  <2>1. \A i \in 1..64 : at(i) = value(i)
    BY <1>1
  <2> HIDE DEF at, value
  <2>2. [i \in 1..64 |-> at(i)] = [i \in 1..64 |-> value(i)]
    BY <2>1
  <2> QED
    BY <1>2, <1>3, <2>2 DEF at, value
<1> QED
  BY <1>n, <1>4

LEMMA LengthOfText == Len(Text) \in Nat
BY TextType

(* What processBuffer makes of the hash is the hash of the padded message. *)
LEMMA FinalHash ==
  ASSUME NEW s, IsObject(s), NEW k, NEW r, Waiting(s, k, r)
  PROVE  LET n == (64 * k) + r
         IN processBuffer(s).hash =
              ProcessBlocks(InitialHash, PaddedMessage(n), 0,
                            PaddedSize(n) \div BlockSize)
<1>0. /\ k \in Nat /\ r \in 0..63 /\ (64 * k) + r <= Len(Text)
      /\ s.numBytes = 64 * k /\ s.bufferSize = r /\ s.hash = TextHash(k)
  BY DEF Waiting
<1>n. PICK n \in Nat : n = (64 * k) + r
  BY <1>0
<1>d. PICK data : data = PaddedMessage(n)
  OBVIOUS
<1>1. /\ data \in Seq(SUBSET Int) /\ Len(data) = PaddedSize(n)
      /\ PaddedSize(n) \in Nat /\ n <= PaddedSize(n) /\ PieceAt(data, n, 0)
  BY <1>0, <1>n, <1>d, PaddedType
<1>2. /\ PaddedSize(n) = 64 * (k + (IF r <= 55 THEN 1 ELSE 2))
      /\ PaddedSize(n) \div BlockSize = k + (IF r <= 55 THEN 1 ELSE 2)
  BY <1>0, <1>n, PaddedSizeIs
<1>3. ProcessBlocks(InitialHash, data, 0, k) = TextHash(k)
  <2>1. TextHash(0) = InitialHash
    BY ProcessNone DEF TextHash
  <2>2. Aligned(data, n, 0, 0, 0)
    BY <1>0, <1>1, <1>n, LengthOfText DEF Aligned
  <2>3. \A w \in Nat : 0 + (64 * w) <= n =>
          ProcessBlocks(TextHash(0), data, 0, w) = TextHash(0 + w)
    BY <1>1, <2>2, ProcessPiece
  <2>4. 0 + (64 * k) <= n /\ 0 + k = k
    BY <1>0, <1>n
  <2>5. ProcessBlocks(TextHash(0), data, 0, k) = TextHash(0 + k)
    BY <1>0, <2>3, <2>4
  <2> QED
    BY <2>1, <2>4, <2>5
<1>4. ProcessBlocks(InitialHash, data, 0, k + 1)
        = processBlock(TextHash(k), PaddedBuffer(s))
  <2>1. BlockAt(data, 64 * k) = PaddedBuffer(s)
    BY <1>d, <1>n, LastBlock
  <2>2. 0 + (64 * (k + 1)) <= Len(data) /\ 0 + (64 * k) = 64 * k /\ 0 \in Nat
    BY <1>0, <1>1, <1>2
  <2>3. Block(data, 0, k + 1) = BlockAt(data, 0 + (64 * k))
    BY <1>0, <1>1, <2>2, BlockIs
  <2>4. ProcessBlocks(InitialHash, data, 0, k + 1)
          = processBlock(ProcessBlocks(InitialHash, data, 0, k), Block(data, 0, k + 1))
    BY <1>0, ProcessNext
  <2> QED
    BY <1>3, <2>1, <2>2, <2>3, <2>4
<1>5. processBuffer(s).hash =
        IF paddedLength(r) > 64
        THEN processBlock(processBlock(TextHash(k), PaddedBuffer(s)), ExtraBlock(s))
        ELSE processBlock(TextHash(k), PaddedBuffer(s))
  <2> DEFINE padded == PaddedBuffer(s)
             final  == IF paddedLength(r) > 64
                       THEN processBlock(processBlock(TextHash(k), padded), ExtraBlock(s))
                       ELSE processBlock(TextHash(k), padded)
             s1 == [s EXCEPT !.buffer = padded]
             s2 == [s1 EXCEPT !.hash = final]
  <2>1. processBuffer(s) = s2
    BY <1>0 DEF processBuffer, BlockSize
  <2> HIDE DEF padded, final
  <2>2. s1 = [numBytes |-> s.numBytes, bufferSize |-> s.bufferSize, buffer |-> padded,
              hash |-> s.hash]
    BY DEF IsObject
  <2> HIDE DEF s1
  <2>3. s2.hash = final
    BY <2>2
  <2> QED
    BY <2>1, <2>3 DEF final, padded
<1>6. CASE r <= 55
  <2>1. ~(paddedLength(r) > 64)
    <3>1. paddedLength(r) = IF r <= 55 THEN 56 ELSE 120
      BY <1>0, PaddedLengthIs
    <3> QED
      BY <1>6, <3>1
  <2>2. PaddedSize(n) \div BlockSize = k + 1
    BY <1>2, <1>6
  <2> QED
    BY <1>d, <1>n, <1>4, <1>5, <2>1, <2>2
<1>7. CASE r > 55
  <2>1. paddedLength(r) > 64
    <3>1. paddedLength(r) = IF r <= 55 THEN 56 ELSE 120
      BY <1>0, PaddedLengthIs
    <3> QED
      BY <1>0, <1>7, <3>1
  <2>2. PaddedSize(n) \div BlockSize = (k + 1) + 1 /\ PaddedSize(n) = 64 * ((k + 1) + 1)
    BY <1>0, <1>2, <1>7
  <2>k. PICK j \in Nat : j = k + 1
    BY <1>0
  <2>3. BlockAt(data, 64 * j) = ExtraBlock(s)
    BY <1>7, <1>d, <1>n, <2>k, OneMoreBlock
  <2>4. 0 + (64 * (j + 1)) <= Len(data) /\ 0 + (64 * j) = 64 * j /\ 0 \in Nat
    BY <1>1, <2>2, <2>k
  <2>5. Block(data, 0, j + 1) = BlockAt(data, 0 + (64 * j))
    BY <1>1, <2>4, BlockIs
  <2>6. ProcessBlocks(InitialHash, data, 0, j + 1)
          = processBlock(ProcessBlocks(InitialHash, data, 0, j), Block(data, 0, j + 1))
    BY ProcessNext
  <2>7. ProcessBlocks(InitialHash, data, 0, j)
          = processBlock(TextHash(k), PaddedBuffer(s))
    BY <1>4, <2>k
  <2> QED
    BY <1>d, <1>n, <1>5, <2>1, <2>2, <2>3, <2>4, <2>5, <2>6, <2>7, <2>k
<1> QED
  BY <1>0, <1>6, <1>7

-----------------------------------------------------------------------------
(* Two hexadecimal digits of a byte of a word are two of the word.         *)
LEMMA DigitOfByte ==
  ASSUME NEW w \in SUBSET Int, NEW a \in Int, NEW b \in {0, 4}
  PROVE  Cast(ShiftRight(Cast(ShiftRight(w, a), 8), b), 4) = Cast(ShiftRight(w, a + b), 4)
<1>1. ASSUME NEW i
      PROVE  i \in Cast(ShiftRight(w, a + b), 4)
               <=> i \in Int /\ i + (a + b) \in w /\ i >= 0 /\ i < 4
  BY DEF Cast, ShiftRight
<1>2. ASSUME NEW i
      PROVE  i \in Cast(ShiftRight(w, a), 8)
               <=> i \in Int /\ i + a \in w /\ i >= 0 /\ i < 8
  BY DEF Cast, ShiftRight
<1> DEFINE byte == Cast(ShiftRight(w, a), 8)
<1>3. \A i \in byte : i \in Int
  BY <1>2
<1>4. \A i : i \in byte <=> i \in Int /\ i + a \in w /\ i >= 0 /\ i < 8
  BY <1>2
<1> HIDE DEF byte
<1>5. ASSUME NEW i
      PROVE  i \in Cast(ShiftRight(byte, b), 4) <=> i \in Int /\ i + b \in byte /\ i >= 0 /\ i < 4
  BY <1>3 DEF Cast, ShiftRight
<1>6. ASSUME NEW i
      PROVE  i \in Cast(ShiftRight(byte, b), 4) <=> i \in Cast(ShiftRight(w, a + b), 4)
  <2>1. CASE i \in Int /\ i >= 0 /\ i < 4
    <3>1. i + b \in Int /\ i + b >= 0 /\ i + b < 8 /\ (i + b) + a = i + (a + b)
      BY <2>1
    <3>2. i + b \in byte <=> i + (a + b) \in w
      BY <1>4, <3>1
    <3> QED
      BY <1>1, <1>5, <2>1, <3>2
  <2>2. CASE ~(i \in Int /\ i >= 0 /\ i < 4)
    BY <1>1, <1>5, <2>2
  <2> QED
    BY <2>1, <2>2
<1>7. Cast(ShiftRight(byte, b), 4) = Cast(ShiftRight(w, a + b), 4)
  BY <1>6
<1> QED
  BY <1>7 DEF byte

LEMMA HexDigits ==
  ASSUME NEW h, \A j \in 0..7 : h[j] \in SUBSET Int
  PROVE  HexText(RawHash(h))
           = [k \in 1..64 |-> Cast(ShiftRight(h[(k - 1) \div 8], 28 - 4 * ((k - 1) % 8)), 4)]
<1>1. ASSUME NEW k \in 1..64
      PROVE  Cast(ShiftRight(RawHash(h)[(k - 1) \div 2], IF k % 2 = 1 THEN 4 ELSE 0), 4)
             = Cast(ShiftRight(h[(k - 1) \div 8], 28 - 4 * ((k - 1) % 8)), 4)
  <2>i. PICK i \in 0..31 : i = (k - 1) \div 2
    OBVIOUS
  <2>j. PICK j \in 0..7 : j = (k - 1) \div 8
    OBVIOUS
  <2>b. PICK b \in {0, 4} : b = IF k % 2 = 1 THEN 4 ELSE 0
    OBVIOUS
  <2>a. PICK a \in Int : a = 24 - 8 * (i % 4)
    OBVIOUS
  <2>1. i \div 4 = j
    BY <2>i, <2>j
  <2>2. a + b = 28 - 4 * ((k - 1) % 8)
    BY <2>i, <2>a, <2>b
  <2>3. RawHash(h)[i] = Cast(ShiftRight(h[j], a), 8)
    BY <2>1, <2>a DEF RawHash
  <2>4. h[j] \in SUBSET Int
    OBVIOUS
  <2>w. PICK w \in SUBSET Int : w = h[j]
    BY <2>4
  <2>5. Cast(ShiftRight(Cast(ShiftRight(w, a), 8), b), 4) = Cast(ShiftRight(w, a + b), 4)
    BY DigitOfByte
  <2> QED
    BY <2>i, <2>j, <2>b, <2>w, <2>2, <2>3, <2>5
<1> DEFINE left(k)  == Cast(ShiftRight(RawHash(h)[(k - 1) \div 2], IF k % 2 = 1 THEN 4 ELSE 0), 4)
           right(k) == Cast(ShiftRight(h[(k - 1) \div 8], 28 - 4 * ((k - 1) % 8)), 4)
<1>2. \A k \in 1..64 : left(k) = right(k)
  BY <1>1
<1>3. HexText(RawHash(h)) = [k \in 1..64 |-> left(k)]
  BY DEF HexText
<1> HIDE DEF left, right
<1>4. HexText(RawHash(h)) = [k \in 1..64 |-> right(k)]
  BY <1>2, <1>3
<1> QED
  BY <1>4 DEF right

LEMMA HashEntries ==
  ASSUME NEW hash, NEW data, NEW j \in 0..7
  PROVE  processBlock(hash, data)[j] \in SUBSET Int
<1>1. ASSUME NEW x, NEW y PROVE Plus(x, y) \in SUBSET Int
  <2> DEFINE p == Plus(x, y)
  <2>1. p \subseteq 0..31
    BY DEF Plus
  <2> HIDE DEF p
  <2>2. p \in SUBSET Int
    BY <2>1
  <2> QED
    BY <2>2 DEF p
<1>2. ASSUME NEW last PROVE [k \in 0..7 |-> Plus(hash[k], last[k])][j] \in SUBSET Int
  BY <1>1
<1> QED
  BY <1>2 DEF processBlock

(* getHash returns the digest of the bytes added.                          *)
LEMMA GetHashIsDigest ==
  ASSUME NEW s, NEW n \in Nat, n <= Len(Text), Tail64(s, n), Hashed(s)
  PROVE  getHash(s) = DigestOf(n)
<1>k. PICK k \in Nat : s.numBytes = 64 * k /\ s.hash = TextHash(k)
  BY DEF Hashed
<1>r. PICK r \in 0..63 : r = s.bufferSize
  BY DEF Tail64
<1>1. (64 * k) + r = n /\ IsObject(s) /\ PieceAt(s.buffer, r, 64 * k)
  BY <1>k, <1>r DEF Tail64
<1>2. Waiting(s, k, r)
  BY <1>k, <1>r, <1>1 DEF Waiting
<1> DEFINE h == processBuffer(s).hash
           final == ProcessBlocks(InitialHash, PaddedMessage(n), 0, PaddedSize(n) \div BlockSize)
<1>3. h = final
  BY <1>1, <1>2, FinalHash
<1>4. \A j \in 0..7 : h[j] \in SUBSET Int
  <2> DEFINE blocks == PaddedSize(n) \div BlockSize
  <2>1. \E c \in {1, 2} : blocks = k + c
    <3>1. blocks = k + (IF r <= 55 THEN 1 ELSE 2)
      BY <1>1, PaddedSizeIs
    <3> QED
      BY <3>1
  <2> HIDE DEF blocks
  <2>2. PICK b \in Nat : blocks = b + 1
    <3>1. PICK c \in {1, 2} : blocks = k + c
      BY <2>1
    <3>2. k + (c - 1) \in Nat /\ blocks = (k + (c - 1)) + 1
      BY <3>1
    <3> QED
      BY <3>2
  <2>3. final = ProcessBlocks(InitialHash, PaddedMessage(n), 0, blocks)
    BY DEF blocks
  <2> HIDE DEF final, h
  <2>4. final = processBlock(ProcessBlocks(InitialHash, PaddedMessage(n), 0, b),
                             Block(PaddedMessage(n), 0, b + 1))
    BY <2>2, <2>3, ProcessNext
  <2> QED
    BY <1>3, <2>4, HashEntries
<1>5. getHash(s) = HexText(RawHash(h))
  BY DEF getHash
<1>6. DigestOf(n) = [k_1 \in 1..64 |->
                       Cast(ShiftRight(final[(k_1 - 1) \div 8], 28 - 4 * ((k_1 - 1) % 8)), 4)]
  BY DEF DigestOf
<1> HIDE DEF h, final
<1> QED
  BY <1>3, <1>4, <1>5, <1>6, HexDigits

LEMMA GetHashKeepsHash ==
  ASSUME NEW s, IsObject(s), Hashed(s)
  PROVE  Hashed(AfterGetHash(s))
<1>1. ASSUME NEW a, NEW b, NEW c, NEW d, NEW e,
             s = [numBytes |-> a, bufferSize |-> b, buffer |-> c, hash |-> d]
      PROVE  /\ [s EXCEPT !.buffer = e].numBytes = a
             /\ [s EXCEPT !.buffer = e].hash = d
  BY <1>1
<1>2. AfterGetHash(s).numBytes = s.numBytes /\ AfterGetHash(s).hash = s.hash
  BY <1>1 DEF AfterGetHash, IsObject
<1> QED
  BY <1>2 DEF Hashed

LEMMA ResetKeepsHash ==
  ASSUME NEW s, s.numBytes = 0, s.hash = InitialHash
  PROVE  Hashed(s)
<1>1. TextHash(0) = InitialHash
  BY ProcessNone DEF TextHash
<1>2. 0 \in Nat /\ 0 = 64 * 0
  OBVIOUS
<1> QED
  BY <1>1, <1>2 DEF Hashed

LEMMA AfterReset ==
  ASSUME NEW s, IsObject(s)
  PROVE  Hashed(reset(s))
<1> DEFINE r == reset(s)
           s1 == [s EXCEPT !.numBytes = 0]
           s2 == [s1 EXCEPT !.bufferSize = 0]
           s3 == [s2 EXCEPT !.hash = InitialHash]
<1>1. r = s3
  BY DEF reset
<1>2. s1 = [numBytes |-> 0, bufferSize |-> s.bufferSize, buffer |-> s.buffer,
            hash |-> s.hash]
  BY DEF IsObject
<1> HIDE DEF s1
<1>3. s2 = [numBytes |-> 0, bufferSize |-> 0, buffer |-> s.buffer, hash |-> s.hash]
  BY <1>2
<1> HIDE DEF s2
<1>4. r.numBytes = 0 /\ r.hash = InitialHash
  BY <1>1, <1>3
<1> HIDE DEF r
<1>5. Hashed(r)
  BY <1>4, ResetKeepsHash
<1> QED
  BY <1>5 DEF r

-----------------------------------------------------------------------------
(* The hash is that of the whole blocks counted, and a digest that was     *)
(* returned is the one of the message.                                     *)
DigestInv ==
  /\ StreamInv
  /\ Hashed(sha)
  /\ digest # NoDigest => digest = DigestOf(length)

LEMMA DigestInit == Init => DigestInv
<1> SUFFICES ASSUME Init PROVE DigestInv
  OBVIOUS
<1>1. StreamInv
  BY StreamInit
<1>2. sha.numBytes = 0 /\ sha.hash = InitialHash
  BY DEF Init
<1>3. Hashed(sha)
  BY <1>2, ResetKeepsHash
<1> QED
  BY <1>1, <1>3 DEF DigestInv, Init

LEMMA DigestStep ==
  ASSUME DigestInv, [Next]_vars
  PROVE  DigestInv'
<1>0. /\ length \in Nat /\ length <= Len(Text) /\ Len(Text) \in Nat
      /\ Tail64(sha, length) /\ IsObject(sha) /\ Hashed(sha) /\ StreamInv
  BY TextType DEF DigestInv, StreamInv, Tail64
<1>i. StreamInv'
  BY <1>0, StreamStep
<1>t. Text \in Seq(Byte) /\ PieceSizes \subseteq Nat
  BY TextType
<1>1. CASE Reset
  <2>1. sha' = reset(sha) /\ digest' = NoDigest
    BY <1>1 DEF Reset
  <2>2. Hashed(reset(sha))
    BY <1>0, AfterReset
  <2> QED
    BY <1>i, <2>1, <2>2 DEF DigestInv
<1>2. CASE GetHash
  <2>1. sha' = AfterGetHash(sha) /\ digest' = getHash(sha) /\ length' = length
    BY <1>2 DEF GetHash
  <2>2. Hashed(AfterGetHash(sha))
    BY <1>0, GetHashKeepsHash
  <2>3. getHash(sha) = DigestOf(length)
    BY <1>0, GetHashIsDigest
  <2> QED
    BY <1>i, <2>1, <2>2, <2>3 DEF DigestInv
<1>3. ASSUME NEW size \in PieceSizes, Add(size) PROVE DigestInv'
  <2> DEFINE data == SubSeq(Text, length + 1, length + size)
  <2>1. /\ length + size <= Len(Text) /\ size \in Nat
        /\ sha' = add(sha, data) /\ digest' = NoDigest
    BY <1>3, <1>t DEF Add
  <2>2. HasLength(data, size) /\ PieceAt(data, size, length)
    BY <1>0, <2>1, PieceOfText
  <2>3. data \in Seq(Byte)
    BY <1>0, <1>t, <2>1
  <2> HIDE DEF data
  <2>4. Hashed(add(sha, data))
    BY <1>0, <2>1, <2>2, <2>3, AddKeepsHash
  <2> QED
    BY <1>i, <2>1, <2>4 DEF DigestInv
<1>4. ASSUME NEW size \in PieceSizes, Digest(size) PROVE DigestInv'
  <2> DEFINE data == SubSeq(Text, 0 + 1, 0 + size)
             fed  == add(reset(sha), data)
  <2>1. /\ size <= Len(Text) /\ size \in Nat /\ length' = size
        /\ sha' = AfterGetHash(fed) /\ digest' = getHash(fed)
    BY <1>4, <1>t DEF Digest
  <2>2. HasLength(data, size) /\ PieceAt(data, size, 0)
    BY <2>1, PieceOfText
  <2>3. data \in Seq(Byte)
    BY <1>t, <2>1
  <2> HIDE DEF data
  <2>4. Tail64(reset(sha), 0) /\ Hashed(reset(sha))
    BY <1>0, ResetKeepsTail, AfterReset
  <2>5. 0 \in Nat /\ 0 + size <= Len(Text) /\ 0 + size = size
    BY <2>1
  <2>6. Tail64(fed, size)
    BY <2>1, <2>2, <2>4, <2>5, AddKeepsTail
  <2>7. Hashed(fed)
    BY <2>1, <2>2, <2>3, <2>4, <2>5, AddKeepsHash
  <2> HIDE DEF fed
  <2>8. getHash(fed) = DigestOf(size) /\ Hashed(AfterGetHash(fed))
    BY <2>1, <2>6, <2>7, GetHashIsDigest, GetHashKeepsHash DEF Tail64
  <2> QED
    BY <1>i, <2>1, <2>8 DEF DigestInv
<1>5. CASE UNCHANGED vars
  BY <1>5, <1>i DEF vars, DigestInv
<1> QED
  BY <1>1, <1>2, <1>3, <1>4, <1>5 DEF Next

(* "in a streaming fashion" (sha256.h), for every text, all sizes of the   *)
(* pieces it is added in and whatever was in the uninitialised buffer: a   *)
(* digest that getHash or operator() returns is the digest of the bytes    *)
(* added since the last reset, although earlier calls of getHash left      *)
(* their padding in the buffer.                                            *)
THEOREM DigestIsOfMessage == Spec => []DigestOfMessage
<1>1. Init => DigestInv
  BY DigestInit
<1>2. DigestInv /\ [Next]_vars => DigestInv'
  BY DigestStep
<1>3. DigestInv => DigestOfMessage
  BY DEF DigestInv, StreamInv, DigestOfMessage, Digests
<1> QED
  BY <1>1, <1>2, <1>3, PTL DEF Spec
=============================================================================
