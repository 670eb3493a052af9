---------------------------- MODULE DistanceRing ----------------------------
(***************************************************************************)
(* The last four copy distances, as the decoder keeps them (DistanceRing,  *)
(* crates/decode/src/compressed.rs): oldest first.                         *)
(***************************************************************************)
EXTENDS Integers, Sequences

LAST_DISTANCES == <<16, 15, 11, 4>>

Rings == [1 .. 4 -> Nat \ {0}]

Push(ring, distance) == <<ring[2], ring[3], ring[4], distance>>

\* Symbols 4 to 9 are offsets from the last distance, 10 to 15 from the one
\* before it.
Offset == <<-1, 1, -2, 2, -3, 3>>
Near(symbol) == IF symbol < 10 THEN 4 ELSE 3
OffsetOf(symbol) ==
  IF symbol < 4 THEN 0
  ELSE IF symbol < 10 THEN Offset[symbol - 3] ELSE Offset[symbol - 9]
SlotOf(symbol) == IF symbol < 4 THEN 4 - symbol ELSE Near(symbol)

\* DistanceRing::resolve of the symbols 0 to 15; zero is its error.
Resolve(ring, symbol) ==
  LET distance == ring[SlotOf(symbol)] + OffsetOf(symbol)
  IN  IF distance < 0 THEN 0 ELSE distance

\* A copy of the repeated last distance or of a word leaves the ring alone.
RingAfter(ring, symbol, source, distance) ==
  IF symbol # 0 /\ source # "word" THEN Push(ring, distance) ELSE ring
=============================================================================
