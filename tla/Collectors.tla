----------------------------- MODULE Collectors -----------------------------
(***************************************************************************)
(* The encoder's matchers, side by side: an input goes through one of the  *)
(* engines of Searchers, q2 to q5, or of Scanners, q0 and q1 and what      *)
(* looks incompressible (crates/encode/src/encode/mod.rs).                 *)
(***************************************************************************)
EXTENDS Searchers, Scanners

ASSUME CollectorsAssumption == Engines \cap Scanners = {}

vars == <<shared, searching, scanning>>

Init ==
  \/ /\ engine \in Engines /\ SearchersInit
     /\ block = NoBlock /\ stored = NoPosition /\ last = NoPosition
     /\ kept = NoPosition /\ skip = Patience /\ candidate = 0 /\ tail = 0
  \/ /\ engine \in Scanners /\ ScannersInit
     /\ cache = INITIAL_RING /\ sparseAt = 0 /\ found = NoMatch /\ delayed = 0
     /\ at = 0 /\ candidates = <<>> /\ check = 0
     /\ bestLen = 0 /\ bestScore = 0 /\ best = NoMatch /\ run = NoRun

Next ==
  \/ engine \in Engines /\ SearchersNext /\ UNCHANGED scanning
  \/ engine \in Scanners /\ ScannersNext /\ UNCHANGED searching

Spec == Init /\ [][Next]_vars

\* Whatever is loaded for a hash or compared lies in the input: the bounds
\* the loops are checked against are bounds of other loads than those that
\* they make, as the scan loads where it will look before it knows whether
\* it will.
LoadsInBounds ==
  /\ phase = "probe" => at + engine.read <= End /\ check < End - at
  /\ phase \in {"skip", "store"} /\ run.next < run.end =>
       run.next + engine.read <= End
  /\ phase = "scan" /\ engine.stride = 0 => pos + 8 <= block.to
  /\ phase = "tail" => tail >= block.from /\ pos + 5 <= block.to
=============================================================================
