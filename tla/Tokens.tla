------------------------------- MODULE Tokens -------------------------------
(***************************************************************************)
(* What the encoder's matchers share: the input they turn into tokens, a   *)
(* run of literals and then a copy each, and what a decoder makes of those *)
(* (crates/decode/src/compressed.rs, crates/decode/src/dictionary).        *)
(*                                                                         *)
(* The decoder here gets distances in full: EncoderRing is about the       *)
(* symbols they are written with.  It copies byte by byte from what it has *)
(* written, and knows nothing of the input but the literals.               *)
(*                                                                         *)
(* Positions count from zero, as in the code.                              *)
(***************************************************************************)
EXTENDS Integers, Sequences

CONSTANTS
  Inputs,       \* inputs, as sequences of bytes
  Bases,        \* bytes of the stream before the input
  Window,       \* max_backward_distance
  Dictionary,   \* the words of each length, a sequence of them
  TableSize,    \* entries of a hash table
  HashOf(_)     \* hash of a short sequence of bytes

ASSUME TokensAssumption ==
  /\ \A bytes \in Inputs : bytes \in Seq(Nat)
  /\ Bases \subseteq Nat /\ Window \in Nat
  /\ Window >= 16 \* the ring a stream starts with
  /\ TableSize \in Nat \ {0}
  /\ DOMAIN Dictionary \subseteq 4 .. 24
  /\ \A len \in DOMAIN Dictionary :
       /\ Dictionary[len] \in Seq([1 .. len -> Nat])
       /\ Dictionary[len] # <<>>

VARIABLES
  input,    \* the bytes to compress
  base,     \* input_base
  engine,   \* the matcher, and its parameters
  phase,    \* what the matcher does next
  pos,      \* pos or ip: where it looks
  start,    \* insert_start or next_emit: end of the last copy
  table,    \* positions by hash, newest first
  output,   \* what the decoder has written of the input
  copying   \* the copy it is at

fixed == <<input, base, engine>>
decoder == <<output, copying>>
shared == <<fixed, phase, pos, start, table, decoder>>

Lesser(a, b) == IF a <= b THEN a ELSE b
Larger(a, b) == IF a <= b THEN b ELSE a

End == Len(input)
Byte(p) == input[p + 1]
Bytes(from, to) == SubSeq(input, from + 1, to)

\* Bytes a position has in common with an earlier one, or with a word.
Longest(lens) == CHOOSE n \in lens : \A m \in lens : m <= n

SameFor(previous, p, n) == \A k \in 0 .. n - 1 : Byte(previous + k) = Byte(p + k)
MatchLen(previous, p, max) == Longest({n \in 0 .. max : SameFor(previous, p, n)})

WordLen(word, p) ==
  Longest({n \in 0 .. Len(word) : \A k \in 1 .. n : word[k] = Byte(p + k - 1)})

Hash(p, len) == HashOf(Bytes(p, p + len))

Reach(at) == Lesser(base + at, Window)

(***************************************************************************)
(* The decoder.  Distances past its window and its output name words of    *)
(* the dictionary, by their length, index and transform; the encoder uses  *)
(* the transforms that leave off the end of a word.                        *)
(***************************************************************************)
OmitLast == [t \in {0, 12, 23, 27, 42, 48, 56, 59, 63, 64} |->
  CASE t = 0 -> 0 [] t = 12 -> 1 [] t = 27 -> 2 [] t = 23 -> 3 [] t = 42 -> 4
    [] t = 63 -> 5 [] t = 56 -> 6 [] t = 48 -> 7 [] t = 59 -> 8 [] t = 64 -> 9]

WordIndex(id, len) == id % Len(Dictionary[len])
Transform(id, len) == id \div Len(Dictionary[len])

IsWord(id, len) ==
  len \in DOMAIN Dictionary /\ Transform(id, len) \in DOMAIN OmitLast

Word(id, len) ==
  SubSeq(Dictionary[len][WordIndex(id, len) + 1], 1,
         Larger(len - OmitLast[Transform(id, len)], 0))

NoCopy == [left |-> 0, distance |-> 0, word |-> <<>>]
BadCopy == [left |-> -1, distance |-> 0, word |-> <<>>]  \* an error

CopyAt(at, distance, len, lenCode) ==
  LET id == distance - Reach(at) - 1
  IN  IF distance <= Reach(at)
      THEN IF distance \in 1 .. at
           THEN [left |-> len, distance |-> distance, word |-> <<>>]
           ELSE BadCopy
      ELSE IF IsWord(id, lenCode)
           THEN [left |-> Len(Word(id, lenCode)), distance |-> 0,
                 word |-> Word(id, lenCode)]
           ELSE BadCopy

\* Literals from `start` up to `to`, which come as they are, then a copy.
TakeToken(to, distance, len, lenCode) ==
  /\ output' = output \o Bytes(start, to)
  /\ copying' = CopyAt(Len(output) + to - start, distance, len, lenCode)

TakeLiterals(from, to) ==
  /\ output' = output \o Bytes(from, to)
  /\ copying' = NoCopy

CopyByte ==
  /\ phase = "read" /\ copying.left > 0
  /\ output' = Append(output,
       IF copying.distance > 0 THEN output[Len(output) + 1 - copying.distance]
       ELSE copying.word[Len(copying.word) + 1 - copying.left])
  /\ copying' = [copying EXCEPT !.left = @ - 1]

\* The tokens decode to the input, however the matcher found its matches:
\* in candidates that only share a hash, past other matches it put off for a
\* better one, with a table it fills in part, across the end of its window,
\* in blocks that it writes, drops for want of room and stores later.
TokensReproduce ==
  /\ copying.left >= 0
  /\ Len(output) <= End
  /\ \A n \in 1 .. Len(output) : output[n] = input[n]
  /\ phase = "done" => Len(output) = End
=============================================================================
