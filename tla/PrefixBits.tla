------------------------------ MODULE PrefixBits ------------------------------
(***************************************************************************)
(* What both sides of a prefix code share: bit strings as sequences of 0   *)
(* and 1, the first bit lowest, and the constants of the format.           *)
(***************************************************************************)
EXTENDS Integers, Sequences

MaxCodeBits == 15
CODE_LENGTH_ORDER ==
  <<1, 2, 3, 4, 0, 5, 17, 6, 16, 7, 8, 9, 10, 11, 12, 13, 14, 15>>

\* `width` bits of `value`, the lowest first.
Bits(width, value) == [i \in 1 .. width |-> (value \div 2 ^ (i - 1)) % 2]

\* The value of the `n` bits after the first `at`; bits past the end are 0.
RECURSIVE Peek(_, _, _)
Peek(bits, at, n) ==
  IF n = 0 \/ at >= Len(bits) THEN 0 ELSE bits[at + 1] + 2 * Peek(bits, at + 1, n - 1)

\* The low `width` bits of `value`, reversed.
RECURSIVE Reverse(_, _)
Reverse(value, width) ==
  IF width = 0 THEN 0
  ELSE (value % 2) * 2 ^ (width - 1) + Reverse(value \div 2, width - 1)

AlphabetBits(size) == CHOOSE n \in 0 .. 24 : 2 ^ n >= size /\ \A m \in 0 .. n - 1 : 2 ^ m < size

Lesser(a, b) == IF a <= b THEN a ELSE b
Greater(a, b) == IF a <= b THEN b ELSE a
=============================================================================
