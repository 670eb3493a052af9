------------------------------ MODULE BitReader ------------------------------
(***************************************************************************)
(* BitReader (crates/core/src/bits.rs): reads fields of bits, lowest bit   *)
(* first, through a 64-bit buffer that is refilled a word at a time.       *)
(*                                                                         *)
(* A refill ORs the whole next word over the buffer but counts only whole  *)
(* bytes of it, so bits of bytes that are not counted stay above the       *)
(* count, to be ORed over again.  The buffer is a function from bit        *)
(* numbers; `next` is the number of bytes loaded, input.len() - rest.len().*)
(***************************************************************************)
EXTENDS Integers

CONSTANTS Inputs, Widths, Lengths

VARIABLES input, next, buffer, bit_count, result

vars == <<input, next, buffer, bit_count, result>>

\* consumed_bits
Pos == 8 * next - bit_count

Cursor == INSTANCE BitCursor WITH pos <- Pos

ASSUME ReaderAssumption ==
  /\ \A in \in Inputs : in.len \in Nat /\ in.bit \in [0 .. 8 * in.len - 1 -> {0, 1}]
  /\ Widths \subseteq 0 .. 56
  /\ Lengths \subseteq Nat

Lesser(a, b) == IF a < b THEN a ELSE b

Nothing == [i \in 0 .. -1 |-> 0]
Ok(bits) == [ok |-> TRUE, bits |-> bits]
Fails == [ok |-> FALSE, bits |-> Nothing]

Rest == input.len - next
RemainingBits == 8 * Rest + bit_count

Low(b, w) == [i \in 0 .. w - 1 |-> b[i]]
Zero == [i \in 0 .. 63 |-> 0]

\* with_bit_pos
Init ==
  /\ input \in Inputs
  /\ \E p \in 0 .. 8 * input.len :
       /\ next = (p + 7) \div 8
       /\ bit_count = 8 * next - p
       /\ buffer = [i \in 0 .. 63 |-> IF i < bit_count THEN input.bit[p + i] ELSE 0]
  /\ result = Ok(Nothing)

(***************************************************************************)
(* The buffer: b is the buffer, c its count, n the bytes loaded.           *)
(***************************************************************************)
Buffered == [buffer |-> buffer, count |-> bit_count, next |-> next]

\* |= of `width` bits of the rest, shifted by the count.
Or(x, y) == IF x = 1 \/ y = 1 THEN 1 ELSE 0

OrRest(width) ==
  [i \in 0 .. 63 |->
     IF i >= bit_count /\ i - bit_count < width
     THEN Or(buffer[i], input.bit[8 * next + i - bit_count])
     ELSE buffer[i]]

\* Bytes that raise the count above 55.
Room == (63 - bit_count) \div 8

\* mutant: takes bytes that the count does not count
WordRefill_Full ==
  [buffer |-> OrRest(64), count |-> 56 + (bit_count % 8),
   next |-> next + (64 - bit_count) \div 8]

\* bit_count | 0x38 is 56 more than its low three bits.
WordRefill ==
  [buffer |-> OrRest(64), count |-> 56 + (bit_count % 8), next |-> next + Room]

\* refill_tail: byte after byte.
TailRefill ==
  LET taken == Lesser(Rest, Room) IN
  [buffer |-> OrRest(8 * taken), count |-> bit_count + 8 * taken, next |-> next + taken]

Refilled == IF Rest >= 8 THEN WordRefill ELSE TailRefill

Filled(w) == IF bit_count < w THEN Refilled ELSE Buffered

\* consume, on a buffer r.
Consumed(r, w) ==
  [buffer |-> [i \in 0 .. 63 |-> IF i + w <= 63 THEN r.buffer[i + w] ELSE 0],
   count |-> r.count - w, next |-> r.next]

Become(r) == buffer' = r.buffer /\ bit_count' = r.count /\ next' = r.next

(***************************************************************************)
(* Operations.                                                             *)
(***************************************************************************)
\* read_bits, read_bit and read_short_bits
Read(w) ==
  LET r == Filled(w) IN
  /\ IF r.count < w
     THEN Become(r) /\ result' = Fails
     ELSE Become(Consumed(r, w)) /\ result' = Ok(Low(r.buffer, w))
  /\ UNCHANGED input

\* drop_bits
Drop(w) ==
  LET r == Filled(w) IN
  /\ IF r.count < w
     THEN Become(r) /\ result' = Fails
     ELSE Become(Consumed(r, w)) /\ result' = Ok(Nothing)
  /\ UNCHANGED input

\* peek_bits_unbuffered: the bytes that follow, one at a time.
Unbuffered(w) ==
  [i \in 0 .. w - 1 |->
     IF i < bit_count THEN buffer[i] ELSE input.bit[8 * next + i - bit_count]]

\* peek_bits, peek_bits_trusted
Peek(w) ==
  /\ result' = IF RemainingBits < w THEN Fails
               ELSE Ok(IF bit_count >= w THEN Low(buffer, w) ELSE Unbuffered(w))
  /\ UNCHANGED <<input, next, buffer, bit_count>>

\* peek_bits_padded, of which callers use 56 bits
PeekPadded ==
  LET r == Filled(56) IN
  /\ Become(r)
  /\ result' = Ok(Low(r.buffer, 56))
  /\ UNCHANGED input

\* fill
Fill(w) == Become(Filled(w)) /\ UNCHANGED <<input, result>>

\* drop_bits_trusted, after a fill
DropTrusted(w) ==
  /\ bit_count >= w
  /\ Become(Consumed(Buffered, w))
  /\ result' = Ok(Nothing)
  /\ UNCHANGED input

AlignToByte ==
  /\ Become(Consumed(Buffered, bit_count % 8))
  /\ result' = Ok(Nothing)
  /\ UNCHANGED input

ReadZeroPadding ==
  /\ Become(Consumed(Buffered, bit_count % 8))
  /\ result' = IF \A i \in 0 .. (bit_count % 8) - 1 : buffer[i] = 0
               THEN Ok(Nothing) ELSE Fails
  /\ UNCHANGED input

\* mutant: the count says the buffer is empty
Emptied_CountOnly(n) == [buffer |-> buffer, count |-> 0, next |-> n]

Emptied(n) == [buffer |-> Zero, count |-> 0, next |-> n]

\* read_aligned_bytes
ReadAlignedBytes(n) ==
  LET end == Pos \div 8 + n IN
  /\ IF bit_count % 8 = 0 /\ end <= input.len
     THEN Become(Emptied(end)) /\ result' = Ok(Nothing)
     ELSE result' = Fails /\ UNCHANGED <<next, buffer, bit_count>>
  /\ UNCHANGED input

\* remaining_bits_are_zero
RemainingAreZero ==
  /\ result' = IF /\ \A i \in 0 .. bit_count - 1 : buffer[i] = 0
                  /\ \A p \in 8 * next .. 8 * input.len - 1 : input.bit[p] = 0
               THEN Ok(Nothing) ELSE Fails
  /\ UNCHANGED <<input, next, buffer, bit_count>>

Next ==
  \/ \E w \in Widths : Read(w) \/ Drop(w) \/ Peek(w) \/ Fill(w) \/ DropTrusted(w)
  \/ PeekPadded \/ AlignToByte \/ ReadZeroPadding \/ RemainingAreZero
  \/ \E n \in Lengths : ReadAlignedBytes(n)

Spec == Init /\ [][Next]_vars

(***************************************************************************)
(* Properties.                                                             *)
(***************************************************************************)
BitAt(in, p) == IF p < 8 * in.len THEN in.bit[p] ELSE 0

TypeOK ==
  /\ input \in Inputs
  /\ next \in 0 .. input.len
  /\ bit_count \in 0 .. 63
  /\ bit_count <= 8 * next
  /\ buffer \in [0 .. 63 -> {0, 1}]

\* The buffer holds the next bits of the input, and above its count nothing
\* that is not a bit of the input in its place: the OR of a refill over them
\* changes none.
BufferTrue ==
  /\ TypeOK
  /\ \A i \in 0 .. 63 : buffer[i] = 1 => BitAt(input, Pos + i) = 1
  /\ \A i \in 0 .. 63 : i < bit_count => buffer[i] = BitAt(input, Pos + i)

\* Refills never show: whatever operations fill, empty or bypass the buffer,
\* each returns the bits at the position, moves it by what it read, and fails
\* exactly past the end of the input.
ReadsInput == Cursor!Spec
=============================================================================
