-------------------------------- MODULE Sha256 --------------------------------
(***************************************************************************)
(* Class SHA256 (sha256.h, sha256.cpp): a digest computed in a streaming   *)
(* fashion.  Sender.cpp and Receiver.cpp feed it the file in pieces as     *)
(* fread returns them; the two digests agree only if the pieces do not     *)
(* matter.                                                                 *)
(***************************************************************************)
EXTENDS Sha256Block

CONSTANTS
  Text,        \* the data, a sequence of bytes
  PieceSizes,  \* bound of the model: numbers of bytes passed to add
  Leftovers    \* bound of the model: what an uninitialised m_buffer is full of

ASSUME Sha256Assumption ==
  /\ Text \in Seq(Byte) /\ 8 * Len(Text) < 2^16
  /\ PieceSizes \subseteq Nat
  /\ Leftovers \subseteq Byte

BlockSize   == 64
LengthBytes == 8      \* of the field at the end of the last block

VARIABLES
  sha,     \* the object: m_numBytes, m_bufferSize, m_buffer, m_hash
  length,  \* history: number of bytes of the text added since the last reset
  digest   \* what the last call returned: a hash value as text, or NoDigest

vars == <<sha, length, digest>>

NoDigest == <<>>

reset(s) == [s EXCEPT !.numBytes = 0, !.bufferSize = 0, !.hash = InitialHash]

(* add: bytes that go to a partly filled buffer; the size of the buffer    *)
(* after a full one was processed.                                         *)
Filling(s, data) ==
  IF s.bufferSize = 0 THEN 0
  ELSE IF Len(data) < BlockSize - s.bufferSize THEN Len(data) ELSE BlockSize - s.bufferSize

(* Mutation of Flushed: a processed buffer is not emptied.                 *)
Flushed_NotEmptied(size) == size

Flushed(size) == IF size = BlockSize THEN 0 ELSE size

(* The k-th block of data behind its first bytes, and what count of them   *)
(* make of the hash.                                                       *)
Block(data, first, k) ==
  SubSeq(data, first + BlockSize * (k - 1) + 1, first + BlockSize * k)

ProcessBlocks(hash, data, first, count) ==
  LET hashes[k \in 0..count] ==
        IF k = 0 THEN hash ELSE processBlock(hashes[k - 1], Block(data, first, k))
  IN hashes[count]

Written(buffer, from, data, first, count) ==
  [i \in 1..BlockSize |-> IF i \in (from + 1)..(from + count)
                          THEN data[first + i - from] ELSE buffer[i]]

add(s, data) ==
  LET fill   == Filling(s, data)
      filled == Written(s.buffer, s.bufferSize, data, 0, fill)
      full   == s.bufferSize + fill = BlockSize
      size   == Flushed(s.bufferSize + fill)
      whole  == (Len(data) - fill) \div BlockSize
      kept   == (Len(data) - fill) % BlockSize
      first  == fill + BlockSize * whole
  IN [numBytes   |-> s.numBytes + (IF full THEN BlockSize ELSE 0) + BlockSize * whole,
      bufferSize |-> size + kept,
      buffer     |-> Written(filled, size, data, first, kept),
      hash       |-> ProcessBlocks(IF full THEN processBlock(s.hash, filled) ELSE s.hash,
                                   data, fill, whole)]

(* Where the length field begins, counted from the start of the buffer: in *)
(* it or in the block that follows it.                                     *)
FieldAfter(bits, low, last) ==
  (bits + (IF low <= last THEN last - low ELSE 8 * BlockSize + last - low)) \div 8

(* Mutation of paddedLength: the 1 bit is not counted.                     *)
paddedLength_NoOneBit(size) ==
  FieldAfter(8 * size, (8 * size) % (8 * BlockSize), 8 * (BlockSize - LengthBytes))

paddedLength(size) ==
  FieldAfter(8 * size + 1, (8 * size + 1) % (8 * BlockSize), 8 * (BlockSize - LengthBytes))

(* Byte k = 0 .. 7 of the length in bits, the highest first.               *)
LengthByte(numBytes, k) ==
  Cast(ShiftRight(Bits(8 * numBytes), 8 * (LengthBytes - 1 - k)), 8)

(* processBuffer: the padding is written over the rest of the buffer.      *)
PaddedBuffer(s) ==
  LET field == paddedLength(s.bufferSize)
  IN [i \in 1..BlockSize |->
        IF i <= s.bufferSize THEN s.buffer[i]
        ELSE IF i > field THEN LengthByte(s.numBytes + s.bufferSize, i - 1 - field)
        ELSE IF i = s.bufferSize + 1 THEN {7} ELSE {}]

(* The local array extra.                                                  *)
ExtraBlock(s) ==
  LET field == paddedLength(s.bufferSize) - BlockSize
  IN [i \in 1..BlockSize |->
        IF i > field THEN LengthByte(s.numBytes + s.bufferSize, i - 1 - field) ELSE {}]

processBuffer(s) ==
  LET padded == PaddedBuffer(s)
      first  == processBlock(s.hash, padded)
  IN [s EXCEPT !.buffer = padded,
               !.hash = IF paddedLength(s.bufferSize) > BlockSize
                        THEN processBlock(first, ExtraBlock(s)) ELSE first]

(* getHash: the bytes of the hash, as two hexadecimal digits each.  It     *)
(* puts the old hash back, but not the rest of the buffer.                 *)
RawHash(hash)     == [i \in 0..31 |-> Cast(ShiftRight(hash[i \div 4], 24 - 8 * (i % 4)), 8)]
HexText(rawHash)  ==
  [k \in 1..64 |-> Cast(ShiftRight(rawHash[(k - 1) \div 2], IF k % 2 = 1 THEN 4 ELSE 0), 4)]
getHash(s)        == HexText(RawHash(processBuffer(s).hash))

AfterGetHash(s) == [s EXCEPT !.buffer = PaddedBuffer(s)]

-----------------------------------------------------------------------------
(* The constructor leaves m_buffer uninitialised.                          *)
Init ==
  /\ \E byte \in Leftovers :
       sha = [numBytes |-> 0, bufferSize |-> 0, hash |-> InitialHash,
              buffer |-> [i \in 1..BlockSize |-> byte]]
  /\ length = 0
  /\ digest = NoDigest

Reset ==
  /\ sha' = reset(sha)
  /\ length' = 0
  /\ digest' = NoDigest

(* The next size bytes of the text.                                        *)
Add(size) ==
  /\ length + size <= Len(Text)
  /\ sha' = add(sha, SubSeq(Text, length + 1, length + size))
  /\ length' = length + size
  /\ digest' = NoDigest

GetHash ==
  /\ sha' = AfterGetHash(sha)
  /\ digest' = getHash(sha)
  /\ UNCHANGED length

(* operator(): the digest of a memory block, here the first bytes of text. *)
Digest(size) ==
  /\ size <= Len(Text)
  /\ LET fed == add(reset(sha), SubSeq(Text, 1, size))
     IN /\ sha' = AfterGetHash(fed)
        /\ digest' = getHash(fed)
  /\ length' = size

Next ==
  \/ Reset
  \/ GetHash
  \/ \E size \in PieceSizes : Add(size) \/ Digest(size)

Spec == Init /\ [][Next]_vars

-----------------------------------------------------------------------------
(* The definition of the digest (FIPS 180-4): a message of n bytes, a one  *)
(* bit, zeros and the length, in as few blocks as hold them; the blocks    *)
(* compressed in turn.                                                     *)
PaddedSize(n) ==
  BlockSize * ((n + 1 + LengthBytes + BlockSize - 1) \div BlockSize)
PaddedMessage(n) ==
  [i \in 1..PaddedSize(n) |->
     IF i <= n THEN Text[i]
     ELSE IF i = n + 1 THEN {7}
     ELSE Cast(ShiftRight(Bits(8 * n), 8 * (PaddedSize(n) - i)), 8)]
DigestOf(n) ==
  LET final == ProcessBlocks(InitialHash, PaddedMessage(n), 0, PaddedSize(n) \div BlockSize)
  IN [k \in 1..64 |-> Cast(ShiftRight(final[(k - 1) \div 8], 28 - 4 * ((k - 1) % 8)), 4)]
Digests == [n \in 0..Len(Text) |-> DigestOf(n)]

(* "in a streaming fashion" (sha256.h): whatever the pieces the message    *)
(* came in, whatever was in the buffer before and however often a digest   *)
(* was taken on the way, getHash returns the digest of the bytes added     *)
(* since the last reset.                                                   *)
DigestOfMessage == digest # NoDigest => digest = Digests[length]

(* The counters and the buffer after any calls: m_numBytes counts whole    *)
(* blocks, and the buffer begins with the bytes of the message after them, *)
(* fewer than a block, so that the loops of add stay inside m_buffer and   *)
(* processBuffer has room for its 1 bit.                                   *)
BufferIsTail ==
  /\ sha.numBytes % BlockSize = 0
  /\ sha.bufferSize \in 0..(BlockSize - 1)
  /\ sha.numBytes + sha.bufferSize = length
  /\ \A i \in 1..sha.bufferSize : sha.buffer[i] = Text[sha.numBytes + i]
=============================================================================
