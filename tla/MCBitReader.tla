----------------------------- MODULE MCBitReader -----------------------------
(***************************************************************************)
(* BitReader for TLC: inputs longer and shorter than a word.               *)
(***************************************************************************)
EXTENDS BitReader

\* A bit string without a short period, all ones, and zeros with a one late.
Mixed(p) == IF (p * p + p \div 3) % 5 < 2 THEN 1 ELSE 0
Bytes(n, Bit(_)) == [len |-> n, bit |-> [p \in 0 .. 8 * n - 1 |-> Bit(p)]]
One(p) == 1
Late(p) == IF p = 19 THEN 1 ELSE 0

MCInputs == {Bytes(10, Mixed), Bytes(17, One), Bytes(3, Late), Bytes(0, One)}
MCWidths == {0, 1, 13, 24, 56}
MCLengths == {0, 1, 2}
=============================================================================
