---------------------------- MODULE EncodedBlock ----------------------------
(***************************************************************************)
(* Compressed meta-blocks from the encoder to the decoder: a group of      *)
(* prefix codes, the commands of a body, or whole blocks bit by bit.  Each *)
(* behaviour is of one of the three.                                       *)
(***************************************************************************)
EXTENDS PrefixCodes, Commands, LiteralBlocks

vars == <<prefixVars, commandVars, blockVars>>

Init ==
  \/ PrefixInit /\ CommandsIdle /\ BlocksIdle
  \/ PrefixIdle /\ CommandsInit /\ BlocksIdle
  \/ PrefixIdle /\ CommandsIdle /\ BlocksInit

Next ==
  \/ outcome # "idle" /\ PrefixNext /\ UNCHANGED <<commandVars, blockVars>>
  \/ reader.st # "idle" /\ CommandsNext /\ UNCHANGED <<prefixVars, blockVars>>
  \/ decoder.st # "idle" /\ BlocksNext /\ UNCHANGED <<prefixVars, commandVars>>

Spec == Init /\ [][Next]_vars
=============================================================================
