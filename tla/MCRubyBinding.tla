--------------------------- MODULE MCRubyBinding ---------------------------
(***************************************************************************)
(* RubyBinding for TLC: two threads and a String they share.               *)
(***************************************************************************)
EXTENDS RubyBinding

\* Input that ends in an element too long for a limit of one, input that is
\* left over at a limit and after the end, malformed input, and none.
MCChunks == {<<>>, <<"lit", "copy">>, <<"copy", "end", "lit">>, <<"bad">>}
MCLimits == {1, 9}
=============================================================================
