-------------------------- MODULE MCStreamEncoder --------------------------
(***************************************************************************)
(* A small StreamEncoder: window headers of one and of seven bits, and      *)
(* chunks that end at and within a byte.                                   *)
(***************************************************************************)
EXTENDS StreamEncoder

MCHeaderBits == {1, 7}
MCChunkBits == {11, 16}
=============================================================================
