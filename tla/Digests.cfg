\* Class SHA256 over a text in pieces.
SPECIFICATION Spec
CONSTANTS
  Text <- Message
  PieceSizes <- Sizes
  Leftovers <- Bytes
INVARIANTS
  DigestOfMessage
  KnownDigests
  BufferIsTail
