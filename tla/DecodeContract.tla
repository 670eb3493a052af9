--------------------------- MODULE DecodeContract ---------------------------
(***************************************************************************)
(* What any of the streaming decoders promises its caller: it delivers the *)
(* output a decoder with the whole stream and enough room would, piece by  *)
(* piece, and reports how the stream ended only after the last byte.       *)
(*                                                                         *)
(*   goal       the output length and the verdict of that decoder, fixed   *)
(*   delivered  output the caller got so far                               *)
(*   result     "running", or the verdict once it is reported              *)
(***************************************************************************)
EXTENDS Integers

CONSTANT Goals

VARIABLES goal, delivered, result

contractVars == <<goal, delivered, result>>

Init ==
  /\ goal \in Goals
  /\ delivered = 0
  /\ result = "running"

Deliver ==
  /\ result = "running"
  /\ delivered' \in (delivered + 1) .. goal.output
  /\ UNCHANGED <<goal, result>>

\* A stream whose input ends early is "starved": it has no verdict yet.
Settle ==
  /\ result = "running"
  /\ goal.verdict # "starved"
  /\ delivered <= goal.output
  /\ delivered' = goal.output
  /\ result' = goal.verdict
  /\ UNCHANGED goal

Next == Deliver \/ Settle

Spec == Init /\ [][Next]_contractVars
=============================================================================
