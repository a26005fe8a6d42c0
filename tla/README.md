# A TLA+ model of PSIA_udp_communication

The repository holds one Windows program that sends a file over UDP. It is
compiled as a sender or as a receiver (`UDP_Communication_Framework.cpp`, the
macros `SENDER` and `RECEIVER`). This directory models a transfer between the
two: selective repeat with a window of five packets, acknowledgements, and a
SHA-256 digest that the receiver checks at the end; and, bit for bit, the two
libraries the transfer relies on to notice damage, the CRC templates and the
SHA-256 class.

Paths below are relative to `src/UDP_Communication_Framework/`.

## 1. Inventory

| Component | State | Operations | What makes it hard |
|---|---|---|---|
| Sender, main thread (`Sender.cpp:81-148, 150-335, 374-433`) | `seqNum`, `base`, `nextSeqNum`, `buffer[5]`, `lastSentID`, the tries of `run` and the attempts of `handleACK` | offer the file name and wait for its answer; start the threads; fill the window; wait for the last packet; send FINAL, wait for the verdict; join the threads; try again | waits on a condition variable for two predicates; members survive from one try to the next; reads the socket the listener reads |
| ACK listener (`Sender.cpp:167-195`) | stop flag; the datagram it holds | receive, mark a slot, slide `base`, notify | blocking `recvfrom` between tests of the flag; the window moves between receipt and use |
| Resend thread (`Sender.cpp:197-216`) | done flag | resend what is unacknowledged for 1.5 s | bounds of its loop; slots that are reused |
| Receiver (`Receiver.cpp`) | `lastSeqNum`, `baseSeqNum`, `buffer[5]`, `crc_fail`, `file_out`, `fileName`, `sha256`, `sha256_ok`, `retryCounter` | handle FILESIZE, DATA, FINAL, duplicates and packets beyond the window; answer | order of arrival; the stream, the name and the digest object outlive the transfer they belong to |
| Packets (`utils.h:23-41`, `utils.cpp:9-24`, `Sender.cpp:7-40`) | none | CRC check, "all ones" check, error injection | a tolerance of 100 bytes on answers of 64 |
| Sockets and network (external) | datagrams underway | `sendto`, `recvfrom`, `select` | loss, repetition, reordering, damage, socket errors |
| SHA-256 (`sha256.cpp`, `sha256.h`) | `m_numBytes`, `m_bufferSize`, `m_buffer`, `m_hash` | `add`, `getHash`, `reset`, `operator()` | pieces of any size against blocks of 64 bytes; padding that needs one block or two; `getHash` in the middle of a message writes to the buffer; the member object is never reset between two checks |
| CRC (`CRC.h`) | none but a constant table | `Calculate` and `CalculateBits`, with parameters or a table, from the start or from an earlier CRC | three variants (reflected, plain, narrower than a byte) of three loops that must agree; widths below the width of the type |
| Entry point, file dialog, string helpers | none of the transfer's | | |

The programs interact by datagrams only. Within the sender the three threads
share the window under `ack_mutex`, the flags, and the socket. A sender in its
second try talks to the same receiver, which is still in its first transfer.

What makes each part correct:
the sender never slides over a packet the receiver lacks, never sleeps on a
true condition, repairs losses, and reports success only for a verified file;
the receiver writes blocks once and in order, and its verdict is about the file
it wrote; the two together deliver the file on a network that behaves. A digest
or a CRC must not depend on the pieces it was computed in, must be the standard
one, and a CRC must differ for a damaged payload.
`PROJECT.json`, under "hazards", lists what can go wrong in this code by line.

## 2. Modules

- `Packets`: packets, answers, and the decisions taken on their payload. A
  payload is determined by its type and number, so records carry only whether it
  still matches its CRC (`crcOk`), and for an answer its byte (`result`) and
  whether it is within `TOLERANCE` (`short`).
- `Network` (external): two channels and the faults. Not `Ordered`: a channel is
  a set that is never emptied, so that everything sent can be read any number of
  times, in any order or never. `Ordered`: a queue, which only the fault actions
  disturb, at most `MaxFaults` times.
- `Sender`: `spc` is where the main thread is; `rpc` and `lpc` the other two
  threads. A critical section under `ack_mutex` is one step, and the listener's
  `recvfrom` and the section that uses its datagram are two. Waiting on `ack_cv`
  is a program point that a notification (or a spurious wakeup) leaves, which
  re-evaluates the predicate.

  | Code | Actions |
  |---|---|
  | `run`, `sendFileNamePacket` | `SendFileNamePacket`, `GiveUp` |
  | `handleACK` | `SelectReadable`, `SelectTimeout`, `SelectFailure`, `HandleACK` |
  | `sendDataPackets` | `OpenFile`, `OpenFileFails`, `SendDataPacket`, `WaitForWindow`, `LastAcknowledged`, `SendFinalPacket`, `StopThreads`, `JoinResend`, `JoinListener` |
  | listener | `ListenerCheck`, `ListenerReceive`, `ListenerAcknowledge` |
  | resend thread | `ResendPacket`, `ResendExit` |

- `Receiver`: each iteration of `run` is a step; `HandleFileSizePacket`,
  `HandleDataPacket`, `HandleFinalPacket` and `HandleDuplicatePacket` are the
  handlers, `Crash` the undefined behaviour that ends the program (a null or
  closed stream, a null name, the size of a slot that was never filled).
- `Transfer`: both programs, the network, what the system does with datagrams
  for a program that ended; the specification, the fairness and the properties.
- `FileTransfer`: the abstract specification. Blocks are delivered in order, the
  receiver confirms a complete file, the sender reports success only then.
  `Transfer!Promise` is the refinement mapping (the file, the receiver's verdict
  and the sender's exit).
- `MCTransfer`: the instances for TLC, and what comments and messages of the
  code claim about it.
- `Words`: unsigned integers as the sets of their one bits, which are exact for
  any width: TLC's integers have 32 bits, the CRCs up to 64.
- `Crc`: the templates of `CRC.h`. The code writes each variant out in each loop;
  the model has one loop (`ShiftBits`) and says in `Align`, `Absorb` and
  `ShiftOut` where the variants differ. The overloads that take a `Table` are the
  same operators with `lookup`; those that continue a calculation are `More...`.
- `CrcParameters`: 22 named parameter sets with the check values of their comments.
- `Checksum`: a caller that feeds a text to `Crc` in pieces, in any order of the
  eight overloads, and then damages a copy. Its reference (`Remainder`) is the
  division of polynomials, in no way built like the code: one set of coefficients
  for the whole text, from which multiples of the divisor are subtracted.
- `Sha256Block`: `processBlock`, with the unrolled rounds folded into one.
- `Sha256`: the class as a state machine. `add`, `processBuffer` and `getHash` are
  operators on the object, `Add`, `GetHash`, `Reset` and `Digest` the calls; the
  reference pads the whole message at once.
- `MCChecksum`, `MCSha256`: their instances.
- `NetworkProofs`, `TransferProofs`, `VerdictProofs`, `WindowProofs`,
  `RefinementProofs`, `Sha256Proofs`, `CrcProofs`: theorems and proofs.
  `Induction`: the principle of induction the last two use.

The transfer does not compute with `Crc` and `Sha256`: `Packets` and `Receiver`
keep a CRC that matches or not and a digest that differs for different contents.
`Checksums` and `Digests` are what justifies that abstraction: the same bytes in
any pieces give the same value, `DamageIsDetected` says which damage a CRC
cannot miss. That no two files share a digest is assumed.

Definitions named `X_Something` that follow the comment "Mutation of X" are
plausible bugs in the code `X` models, and no specification uses them: with one
of them in place of `X` the property named in `PROJECT.json` fails.

## 3. Runs

Runs that must pass:

| Run | Network | Bounds | Shows |
|---|---|---|---|
| `Reordering` | unordered | window 4, 3 packets, the 3rd number spoiled, `fopen` may fail | `TypeOK`; `AckedIsHeld`, `FinalAfterLast`, `SuccessAfterVerification`, `VerdictIsRight` |
| `Lossless` | ordered, no packet lost or damaged, at most one other fault | window 5, 6 packets, timers at any time | `KeepsPromise`: the refinement of `FileTransfer`; `NoLostWakeup`, with a slot reused |
| `Progress` | ordered, at most one fault | window 5, 4 packets | `EventuallyConfirmed`, `HandshakeEnds`, `LossIsRepaired`, `JoinEnds` |
| `Checksums` | | "123456789" in pieces of 3, 8, 13 and 40 bits, those that `CalculateBits` appends of 3 and 5, 22 parameter sets, damage to 1 and 2 bytes | `IsRemainder`, `IsDocumented`, `DamageIsDetected` |
| `Digests` | | 156 bytes in pieces of 28, 55 and 100 | `DigestOfMessage`, `KnownDigests`, `BufferIsTail` |

`AckedIsHeld` and `FinalAfterLast` are stated for files with fewer packets than
slots whose last packet is longer than 100 bytes. With slots reused, the slots
hold later packets, so that "held" no longer means "in its slot"; and a short
last packet breaks them: its refusal has the same length, and `TOLERANCE` lets
100 wrong bytes pass, so that it counts as an acknowledgement (`Sender.cpp:174`;
the cause is the one `AcceptedMismatch` shows). They are the safety of the
acknowledgement protocol against every order of delivery.

`Lossless` checks `IntactSpec`: the transitions of `Spec` except the loss of a packet,
as long as every packet underway is intact (`PacketsIntact`). The one fault it
allows is a repeated packet, an answer lost, repeated or damaged, or an error of
either socket; it combines with any number of early timers. Its file stays below
the first number that `packetError` spoils. Without loss or damage of a packet
there is no other way to break the promise; with damage there is (`WrongOrder`).

`EventuallyConfirmed` ends at the receiver. That the sender learns of it cannot be
promised: the listener may take the verdict and drop it (`Sender.cpp:172-192`). Nor does
it wait for space, with a file below the window; that wait is what `FullWindow` is
about.

`JoinEnds` is about the end of a try. `stopAckListener` is tested between two
blocking `recvfrom` calls only, so that a listener that has entered `recvfrom`
when the flag is set ends with the next datagram or never. The property says that
this is the only way to wait: a listener that is elsewhere, or has a datagram
coming that no fault can take, ends.

`IsRemainder` says that a call which continues a calculation appends to it. For
`CalculateBits` with an earlier CRC that is what the comment says (`CRC.h:574, 646`)
and what the code does with less than a byte; from a byte on it starts the whole
bytes from `initialValue` (`CRC.h:594, 668`), and the earlier CRC is lost. `Checksum`
models the code as it is. `AppendSizes` are the sizes it is called with: below a byte
in `Checksums`, where the result is the CRC of all that was given; any in
`AppendedBits`, where it is not. The program does not call these overloads.
`CalculateRemainderBits` does not mask the bits of the last byte beyond those it
was asked for; `Packed` leaves them zero.

Runs that must find a violation, each of a claim the code makes of itself:

| Run | Claim | What happens |
|---|---|---|
| `FullWindow` | `Sender.cpp:230` "Wait for space in the window" | without any loss the sender hangs: packet 5 overwrites the acknowledged slot 0 on which `base` still stands |
| `AppendedBits` | `CRC.h:574, 646` "Appends additional data to a previous CRC calculation" | after 3 bits, a piece of 8: the result is the CRC of those 8 |
| `WrongOrder` | `Receiver.cpp:175` "write all packets in order" | without any loss: `packetError` spoils packet 9, its successors are buffered, and the loop writes the wrong slot |
| `AcceptedMismatch` | `Sender.cpp:308, 406` | packet 3 of 4 is lost; line 277 waits for the packet sent last only (against line 273, "Wait for all packets to be acknowledged"), so FINAL leaves; the negative verdict on the damaged file is 64 zero bytes, tolerance is 100: the sender reports success |
| `LastPacket` | `Sender.h:55` "Next packet to send" | the resend loop never reaches the last packet |
| `StaleBase` | `Sender.h:54` "Oldest unacknowledged packet" | the second try starts with the window of the first |
| `Restart` | `Sender.cpp:317` "SHA mismatch! Restarting whole transfer...", `Receiver.cpp:37` | without any fault of the network: the restart's file name has number 0, below the `baseSeqNum` of the first try, and is discarded as a duplicate; no file is opened |

`NameOpensFile` is the claim of `Restart`: a receiver without an open file opens one for
a name that arrives whole. Two causes break it, and both are the test of line 47
against a `baseSeqNum` that nothing resets. After a mismatch the file is closed and the
restart cannot open it, so none of the tries both sides still have can succeed. And a
name that arrives *damaged* moves `baseSeqNum` as well (`Receiver.cpp:117`), so that its
repetition is acknowledged unseen ("Assume ACK ok for duplicate", `Receiver.cpp:101`) and
the DATA that follow go to a null stream; with `MaxFaults = 1` this is the shorter
counterexample, which is why `Restart` allows no fault. The trace of `Restart` shows one
more thing that no property states: the fifth packet after the window's base is
stored over one that is not acknowledged, whose answer then counts for it, the last
packet included; FINAL leaves before the receiver has it, and late answers to DATA use
up the three attempts of the main thread.

Bounds. `WindowSize`, `NumPackets` and `ErrorPeriod` are parameters. The code's
5 and 10 are used where the state space allows it, and wherever a finding is
shown; the unordered network needs smaller ones, in which a window still holds
several packets. The unordered network needs
no bound on the number of copies. On the ordered one `MaxFaults` bounds the
faults, and `MaxInFlight` the queue into which a timer may still send: without
it a timer that always fires too early would fill the queue without end. Tries,
attempts and digests are bounded by the code. Deadlock is not checked: both
programs end, and a listener blocked in `recvfrom` after the last datagram never
returns.

The pieces of `Checksums` leave the byte boundary (3, 13) and come back to it, are
shorter and longer than a byte, and reach the end of the text, which is that of
the documented check values; damage is placed on every pair of bits within the
width. The parameter sets have widths 4 to 64 with both reflections, with input
and output reflected differently (`CRC_12_UMTS`), narrower than a byte,
exactly a byte, and narrower than their integer type (5, 12, 15, 17, 40).
The pieces of `Digests` end at the last length whose padding fits into a block
(55), at the first that needs another one (28 + 28), at the end of a block
(28 + 100) and beyond it with a whole block behind (55 + 100). The buffer starts
full of ones, so that a byte that is not written shows. `KnownDigests` compares
with the published digests of two messages: without it an error made in both the
code's and the reference's compression would not show. Messages stay below
2^16 bits, so only the low two bytes of the length field vary.

Fairness (`FairSpec`). Weak fairness for the main thread, for the listener and
for the receiver: each is a thread that the system runs, blocked only in a
call whose condition is part of its actions; `ack_mutex` is never held across a
wait other than the 50 ms sleep. Strong fairness for each `ResendPacket(j)`:
a packet that stays unacknowledged is due again every 1.5 s, but other packets
due in the same pass put datagrams in flight that disable it in between.
Nothing is assumed of faults and spurious wakeups. In `Progress` timers are
`Patient`: they fire only when nothing is underway, because 1.5 s is long
against the round trip; without that assumption a third attempt may always be
spent before the first answer.

## 4. Proofs

`ASSUME`s: window and number of packets are positive, `packetError` spoils not
every number, timers are patient only on an ordered network. Nothing is
assumed of the number of packets against the window, of the order of delivery
or of the number of faults.

- `NetworkProofs`: what sending, receiving and each fault do to the set of
  datagrams underway (`PutInFlight`, `TakeInFlight`, `FaultsMakeNothingUp`), for
  both kinds of channel. Everything else uses only these.
- `TransferProofs!TypeCorrect`: `Spec => []TypeOK`. The bounds in `TypeOK` are not
  inductive: an answer carries back the number of a packet, so `NetworkInv` says
  which numbers packets and answers may have; which numbers are sent depends on
  where the main thread is (`SenderInv`: for instance `seqNum = NumPackets + 1`
  once the window is sent, and `nextSeqNum <= base + WindowSize`); a fourth try,
  attempt or digest is excluded by where the program can be. One lemma per
  handler of the receiver and one case per action of the sender.
- `VerdictProofs!SuccessIsVerified`: `Spec => []SuccessAfterVerification`. The
  invariant follows the verdict: every ANSWER_SHA underway, and every
  `verdict` the main thread is about to return, is about a closed file. That
  a closed file stays closed is `KeepsClosed`, by `OpenedOnce`: once a file was opened,
  `baseSeqNum >= 1`, so that FILESIZE, number 0, is a duplicate for good. It is the
  defect `Restart` shows, and the proofs have to use it: a receiver that did reset
  itself would need another argument.
- `VerdictProofs!ConfirmedIsSent`: `Spec => []VerdictIsRight`: once the file is closed,
  the receiver's verdict is positive exactly if the file is the one sent, on any
  network. The direction a reader would doubt is that a right file is never refused:
  `sha256` is a member that nobody resets, so a second FINAL that hashes the file
  again would add it to the first reading. The invariant is `DigestOnce`: until
  the file is closed the object is empty; a file is closed by the check of a FINAL
  alone, and a closed file is never checked again (`KeepsClosed`).

- `WindowProofs!NoWakeupIsLost`: with two slots or more, `Spec => []NoLostWakeup`.
  The listener notifies only when `base` moves. An acknowledgement that does not
  move it leaves `base` on an unacknowledged slot, unless `base` has reached
  `seqNum`; then the number acknowledged is FINAL's, whose slot is not that of the
  last packet (`NeighboursDiffer`). It needs the numbers of the answers, from
  `TypeInv`, and that `lastSentID` is the last packet's slot.

- `WindowProofs!AcknowledgedIsHeld` and `LastIsHeldBeforeFinal`: `Spec => []AckedIsHeld`
  and `Spec => []FinalAfterLast`. The inductive invariant `HeldInv` follows a
  packet's acknowledgement backwards: a number below the receiver's `baseSeqNum`,
  or the one it handled last without refusing it, is in its slot (`BufferHeld`,
  `LastHeld`); so is the packet of every positive answer underway (`AnswersHeld`) and
  of the one the listener has received (`GotHeld`); so what the window
  has marked or passed is held (`WindowHeld`), and the main thread leaves its wait for
  the last packet only when that one is (`WaitHeld`, `FinalHeld`). Duplicates are the
  hard case: they are acknowledged without being looked at, and it takes the
  first two parts to know that they are held. With fewer packets than slots no
  slot is filled twice, which is where `NumPackets < WindowSize` enters.
- `RefinementProofs!IntactKeepsPromise`: `Ordered => (IntactSpec => KeepsPromise)`:
  the two programs implement `FileTransfer`, step by step, for every window, file,
  error period and number of faults, on a network that keeps order, up to the first
  packet that is lost or damaged (a behaviour of `IntactSpec` may stop anywhere,
  so it includes every transfer up to there). Whole windows may be sent again and
  packets be repeated, answers may get lost, repeated or damaged, sockets may fail.
  The inductive invariant `RefinementInv` adds to the verdict's: the
  receiver has written exactly what it has counted (`ReceiverFollows`); the numbers in
  the queue leave no gap that the receiver does not fill first (`Chained`), and
  whatever the sender may send next has a predecessor that was sent (`SenderLeads`).
  From these each packet that arrives is the next one or a duplicate, so that the
  write loop never meets an empty or reused slot. A packet that joins the queue
  with a predecessor already sent keeps the order (`JoinKeepsOrder`), be it sent,
  resent or repeated by the network, which repeats what stands at the head of the
  queue.
- `RefinementProofs!TransferKeepsPromise`: `Orderly => (Spec => KeepsPromise)`: the same
  of the unrestricted specification, where the network has no faults and
  `packetError` spoils no number of the file: then no packet is ever damaged
  (`StepKeepsIntact`). With the code's period of 10 these are files of at most 7
  packets; with the first number that is spoiled the promise is broken without any
  fault of the network, which is what `WrongOrder` shows.
- `Induction!AllNumbers`: induction on the natural numbers over the *set* of the
  numbers a statement holds for, from the least number of its complement. In this
  form it needs no operator as a parameter, and recursive functions can be
  reasoned about: what a loop computes is a function on `0..n` whose existence is
  itself proved by induction (`ShiftingExists`, `TakingExists` and the like).
- `Sha256Proofs!BufferHoldsTail`: `Spec => []BufferIsTail` for every text and all sizes
  of pieces. `add` has three ways (into an empty buffer, up to its end, not so far);
  `Counters` states what the three have in common. That `getHash` keeps the
  bytes that wait, although it pads in place, is `GetHashKeepsTail`.
- `Sha256Proofs!DigestIsOfMessage`: `Spec => []DigestOfMessage`, for every text, every
  sequence of calls and every content of the buffer at the start. `DigestInv` adds
  to the above that `m_hash` is the hash of the whole blocks counted so far (`Hashed`,
  `TextHash`): `processBuffer` and the loop in `add` take up the chain of blocks
  where it stands, whether a block lies in the buffer, in the data or across both.
  For the digest the padding is compared byte by byte with the padded message, in
  its two cases (`LastBlock`, `OneMoreBlock`). The compression itself is the same
  operator in the code and in the reference; only `KnownDigests` is about it.
- `CrcProofs!FinalizeIsUndone`: the assertion in the comment of `UndoFinalize`
  (`CRC.h:731-734`), for every width and parameter set. It is what makes a CRC in
  parts possible.
- `CrcProofs!UnusedBitsCount`: what `CalculateBits` makes of the bits it was not asked
  for. For every width, parameter set, size that is no multiple of 8 and data that
  hold the text, with anything behind it in the last byte: the result is the CRC of
  the text exactly if no bit behind it, up to the width of the CRC, is set
  (`CRC.h:974` adds the whole byte). `Packed` leaves them zero, so no run varies them.
- `CrcProofs!AppendedBitsStartAgain`: for a piece of a byte or more `CalculateBits` returns
  the same with an earlier CRC as without one, for all arguments: what `AppendedBits`
  finds, in general.
- `CrcProofs!CrcIsRemainder`: `Spec => []IsRemainder`, for every width and type
  that can hold it, polynomial, initial and final value, reflections, text and
  pieces, if what `CalculateBits` appends is shorter than a byte (`ShortAppends`). The register of the code is described by one function of position,
  `Reg`, whatever end of the word it is shifted out of; `Runs` is the register that
  takes one bit at a time. Eight shifts with a byte absorbed first are eight steps
  of a run (`ShiftBitsRun`: what was absorbed and has not left yet is still added to
  the register, `Ahead`). A table entry is what eight shifts make of an
  index, which by linearity is what is missing to eight steps of the run
  (`IndexRun`, `LookupByteRun`); the bits after the whole bytes are fewer steps
  (`BitsRun`). On the other side, after `d` reductions of the polynomial its highest
  coefficients are the register after `d` steps, added to the data that follow
  (`Divided`). The four calls `Calculate`, `MoreCalculate`, `CalculateBits` and
  `MoreCalculateBits` then are equal to `Reference`, each by a lemma of its own, and
  `CrcInv` follows from them.
- `CrcProofs!CrcDetectsDamage`: `Spec => []DamageIsDetected`, under `ShortAppends` and if
  every polynomial has its lowest coefficient (`OddPolynomials`), as all those in
  `CRC.h` have. The
  difference of the two registers, together with the flipped bits still to come,
  never is empty and never wider than the CRC (`DifferenceStays`): a coefficient
  that is shifted out comes back as the lowest of the polynomial.

Model-checked only. `IsDocumented` and `KnownDigests` compare with published
values of concrete messages: nothing to prove for every value of the constants.
`EventuallyConfirmed`, `HandshakeEnds`, `LossIsRepaired` and `JoinEnds` are liveness
properties, which need fairness and `ENABLED`; these are beyond the prover.

## 5. Not modelled

The entry point, the file dialog and the string helpers, which run before and
after a transfer and keep none of its state; damage to the header, which no CRC
covers; datagrams from strangers; an empty file; the destructors (which close the
stream and free the name a second time); `sendFinalPacket`, which nothing calls;
the write to `ackReceived`, which nothing reads.

Of `CRC.h`: the other named parameter sets (they differ from the 22 in their
numbers only), the types of 82 and 128 bits, construction and copying of `Table`.
Of `sha256.cpp`: the SHA-224 seeds and the big-endian path, which are not compiled,
and lengths of 2^16 bits and more.

## 6. Plan

Done: the core (window, verdict) and its composition; progress, with the end of
the helper threads; the CRC and SHA-256 libraries; proofs of every safety property
and of the refinement, up to the first packet that is lost or damaged.

What could follow:

1. `isBufferAllNum` over bytes, to show that `Short` is its exact consequence for
   the uniform answers the receiver sends, and the cutting of a file into packets
   (`Sender.cpp:220-271`).
2. The acknowledgement property for files longer than the window, which needs a
   history of the slots instead of the slots themselves.
3. The refinement on a network that loses packets but damages none: the receiver
   then buffers what comes early, and `Chained` has to say which gaps the write
   loop survives.
