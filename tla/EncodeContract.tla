--------------------------- MODULE EncodeContract ---------------------------
(***************************************************************************)
(* What a streaming encoder promises: the sink can be decoded to a prefix  *)
(* of the input it accepted, to all of it after a flush or finish that     *)
(* succeeded, and a call that fails has accepted nothing.                  *)
(*                                                                         *)
(*   accepted   input the encoder has accepted                             *)
(*   decodable  input a decoder gets out of what the sink has              *)
(*   reply      what the last call returned                                *)
(***************************************************************************)
EXTENDS Integers

VARIABLES accepted, decodable, reply

contractVars == <<accepted, decodable, reply>>

Init ==
  /\ accepted = 0
  /\ decodable = 0
  /\ reply = "none"

Open == reply # "finished"

Accept ==
  /\ Open
  /\ accepted' > accepted
  /\ reply' = "accepted"
  /\ UNCHANGED decodable

\* The sink takes more bytes while a call runs.
Reveal ==
  /\ Open
  /\ decodable' \in (decodable + 1) .. accepted
  /\ UNCHANGED <<accepted, reply>>

Complete(r) ==
  /\ Open
  /\ decodable = accepted
  /\ reply' = r
  /\ UNCHANGED <<accepted, decodable>>

Fail ==
  /\ Open
  /\ reply' = "failed"
  /\ UNCHANGED <<accepted, decodable>>

Next == Accept \/ Reveal \/ Complete("flushed") \/ Complete("finished") \/ Fail

Spec == Init /\ [][Next]_contractVars
=============================================================================
