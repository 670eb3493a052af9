------------------------------ MODULE BitCursor ------------------------------
(***************************************************************************)
(* What a reader of bits is to its callers: a position in the input.  A    *)
(* field is read from the position or, past the end, not at all; nothing   *)
(* of a buffer shows.                                                      *)
(***************************************************************************)
EXTENDS Integers

CONSTANTS
  Inputs,   (* byte strings: their length, and their bits, lowest first    *)
  Widths,   (* widths of fields, up to MAX_BITS_PER_OP                     *)
  Lengths   (* numbers of bytes read at once                               *)

VARIABLES input, pos, result

cursorVars == <<input, pos, result>>

TotalBits(in) == 8 * in.len

\* Past the end the input reads as zeros.
BitAt(in, p) == IF p < TotalBits(in) THEN in.bit[p] ELSE 0

Field(in, p, w) == [i \in 0 .. w - 1 |-> BitAt(in, p + i)]

Nothing == [i \in 0 .. -1 |-> 0]
Ok(bits) == [ok |-> TRUE, bits |-> bits]
Fails == [ok |-> FALSE, bits |-> Nothing]

Has(w) == pos + w <= TotalBits(input)
NextByte(p) == 8 * ((p + 7) \div 8)

Init ==
  /\ input \in Inputs
  /\ pos \in 0 .. TotalBits(input)
  /\ result = Ok(Nothing)

Read(w) ==
  \/ Has(w) /\ pos' = pos + w /\ result' = Ok(Field(input, pos, w))
  \/ ~Has(w) /\ pos' = pos /\ result' = Fails

Peek(w) ==
  /\ pos' = pos
  /\ result' = IF Has(w) THEN Ok(Field(input, pos, w)) ELSE Fails

Drop(w) ==
  \/ Has(w) /\ pos' = pos + w /\ result' = Ok(Nothing)
  \/ ~Has(w) /\ pos' = pos /\ result' = Fails

\* Fifty-six bits, zeros past the end.
PeekPadded == pos' = pos /\ result' = Ok(Field(input, pos, 56))

Align == pos' = NextByte(pos) /\ result' = Ok(Nothing)

\* Bits of padding that are not zero are an error, behind them.
ReadPadding ==
  /\ pos' = NextByte(pos)
  /\ result' = IF \A p \in pos .. NextByte(pos) - 1 : BitAt(input, p) = 0
               THEN Ok(Nothing) ELSE Fails

ReadBytes(n) ==
  \/ pos % 8 = 0 /\ Has(8 * n) /\ pos' = pos + 8 * n /\ result' = Ok(Nothing)
  \/ ~(pos % 8 = 0 /\ Has(8 * n)) /\ pos' = pos /\ result' = Fails

RestIsZero ==
  /\ pos' = pos
  /\ result' = IF \A p \in pos .. TotalBits(input) - 1 : BitAt(input, p) = 0
               THEN Ok(Nothing) ELSE Fails

Next ==
  /\ UNCHANGED input
  /\ \/ \E w \in Widths : Read(w) \/ Peek(w) \/ Drop(w)
     \/ PeekPadded \/ Align \/ ReadPadding \/ RestIsZero
     \/ \E n \in Lengths : ReadBytes(n)

Spec == Init /\ [][Next]_cursorVars
=============================================================================
