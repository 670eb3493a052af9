--------------------------- MODULE MetaBlockBody ---------------------------
(***************************************************************************)
(* A compressed meta-block, and decode_commands, the one-shot command loop *)
(* (crates/decode/src/compressed.rs), which has the whole input.           *)
(*                                                                         *)
(* A meta-block is the sequence of its parts: its header, its prefix       *)
(* codes, then block switches, command headers, literals and distances.    *)
(* A part takes `bits` bits; a symbol names the block `type` whose code    *)
(* wrote it, and reads as another symbol under any other.                  *)
(*                                                                         *)
(*   parts        sequence of parts                                        *)
(*   len          output length from the meta-block header                 *)
(*   types        number of block types of each category                   *)
(*   first        length of the first block of each category               *)
(*   trees        number of literal trees                                  *)
(*   distTrees    number of distance trees                                 *)
(*   maxBits      longest literal code                                     *)
(*   start        output of earlier meta-blocks in the buffer              *)
(*   base         output before the buffer                                 *)
(*   window       window size                                              *)
(*   raw          length of the raw dictionary                             *)
(*   affix        bytes a static dictionary word adds to its copy length   *)
(*                                                                         *)
(* A part has kind and bits, and by kind: switch category, symbol, count;  *)
(* command insert, copy, reuse, type; literal byte, type; distance symbol, *)
(* distance (read for symbols past 15), type.                              *)
(***************************************************************************)
EXTENDS DistanceRing, FiniteSets

CONSTANTS Blocks, Unlimited  (* usize::MAX, the length of the only block   *)

Category == {"literals", "commands", "distances"}

Smaller(a, b) == IF a <= b THEN a ELSE b

\* BlockCategory of a header: types it has, block types in force, and the
\* length of the last block a switch started.
HeaderOf(b) ==
  [category \in Category |->
    [current |-> 0, previous |-> 1,
     remaining |-> IF b.types[category] = 1 THEN Unlimited
                   ELSE b.first[category]]]

\* BlockCategory::switch
NextType(b, header, part) ==
  CASE part.symbol = 0 -> header[part.category].previous
    [] part.symbol = 1 ->
         (header[part.category].current + 1) % b.types[part.category]
    [] OTHER -> part.symbol - 2

Switched(b, header, part) ==
  [header EXCEPT ![part.category] =
     [current |-> NextType(b, header, part), previous |-> @.current,
      remaining |-> part.count]]

BadType(b, part) == part.symbol - 2 >= b.types[part.category]

Needed(b) == b.start + b.len
Earlier(b) == [i \in 1 .. b.start |-> "earlier"]

SingleLiteralCode(b) == b.types["literals"] = 1 /\ b.trees = 1

(***************************************************************************)
(* copy_from_distance and the far copies.                                  *)
(***************************************************************************)
DistanceOf(part, ring) ==
  IF part.symbol < 16 THEN Resolve(ring, part.symbol) ELSE part.distance

\* Where a copy at `pos` reads from.
Source(b, pos, distance) ==
  LET reach == Smaller(b.window, b.base + pos)
  IN  CASE distance \in 1 .. Smaller(pos, b.window) -> "output"
        [] distance > reach /\ distance <= reach + b.raw -> "raw"
        [] distance > reach + b.raw -> "word"
        [] OTHER -> "invalid"

CopyLen(b, source, len) == IF source = "word" THEN len + b.affix ELSE len

\* Output after a copy of `len` bytes from `distance` back, which may overlap.
Copied(out, source, distance, len) ==
  LET at[i \in 1 .. Len(out) + len] ==
        IF i <= Len(out) THEN out[i]
        ELSE IF source = "output" THEN at[i - distance] ELSE source
  IN  [i \in 1 .. Len(out) + len |-> at[i]]

(***************************************************************************)
(* decode_commands, in turns: a turn reads one part, or finds none to read *)
(* and goes on to what follows.  The state is the loop's locals, the       *)
(* header, the part the reader is at, the ring and the output.  `phase`    *)
(* says what is next of a command: its header, its literals, of which      *)
(* `todo` are left, or its distance and copy.                              *)
(***************************************************************************)
NoCommand == [insert |-> 0, copy |-> 0, reuse |-> FALSE]
CommandOf(part) ==
  [insert |-> part.insert, copy |-> part.copy, reuse |-> part.reuse]

\* Parts before the command loop: the header and every prefix code.
CodeCount(b) == b.trees + b.types["commands"] + b.distTrees

Begin(b) ==
  LET header == HeaderOf(b)
  IN  [header |-> header, at |-> 2 + CodeCount(b), out |-> Earlier(b),
       ring |-> LAST_DISTANCES, result |-> "running",
       left |-> [category \in Category |-> header[category].remaining],
       phase |-> "command", command |-> NoCommand, todo |-> 0]

NextBlock(b, s, category) ==
  LET part == b.parts[s.at]
  IN  IF BadType(b, part) THEN [s EXCEPT !.result = "error"]
      ELSE [s EXCEPT !.header = Switched(b, @, part), !.at = @ + 1,
                     !.left[category] = part.count]

TakeCommand(b, s) ==
  LET part == b.parts[s.at]
  IN  IF Len(s.out) >= Needed(b) THEN [s EXCEPT !.result = "done"]
      ELSE IF s.left["commands"] = 0 THEN NextBlock(b, s, "commands")
      ELSE IF part.insert > Needed(b) - Len(s.out)
      THEN [s EXCEPT !.result = "error"]
      ELSE [s EXCEPT !.at = @ + 1, !.left["commands"] = @ - 1,
                     !.phase = "literals", !.command = CommandOf(part),
                     !.todo = part.insert]

\* The byte a literal decodes to under the block type in force.
LiteralAt(b, i, header) ==
  IF b.parts[i].kind = "literal" /\ b.parts[i].type = header["literals"].current
  THEN b.parts[i].byte ELSE "wrong"

TakeLiteral(b, s) ==
  IF s.todo = 0
  THEN IF Len(s.out) = Needed(b) THEN [s EXCEPT !.result = "done"]
       ELSE [s EXCEPT !.phase = "distance"]
  ELSE IF ~SingleLiteralCode(b) /\ s.left["literals"] = 0
  THEN NextBlock(b, s, "literals")
  ELSE [s EXCEPT !.at = @ + 1, !.todo = @ - 1,
                 !.out = Append(@, LiteralAt(b, s.at, s.header)),
                 !.left["literals"] = IF SingleLiteralCode(b) THEN @ ELSE @ - 1]

TakeCopy(b, s) ==
  LET reuse == s.command.reuse
      part == b.parts[s.at]
      symbol == IF reuse THEN 0 ELSE part.symbol
      distance == IF reuse THEN Resolve(s.ring, 0) ELSE DistanceOf(part, s.ring)
      source == Source(b, Len(s.out), distance)
      len == CopyLen(b, source, s.command.copy)
  IN  IF ~reuse /\ s.left["distances"] = 0 THEN NextBlock(b, s, "distances")
      ELSE IF source = "invalid" \/ len > Needed(b) - Len(s.out)
      THEN [s EXCEPT !.result = "error"]
      ELSE [s EXCEPT !.out = Copied(@, source, distance, len),
                     !.ring = RingAfter(@, symbol, source, distance),
                     !.at = IF reuse THEN @ ELSE @ + 1,
                     !.left["distances"] = IF reuse THEN @ ELSE @ - 1,
                     !.phase = "command"]

Turn(b, s) ==
  CASE s.result # "running" -> s
    [] s.result = "running" /\ s.phase = "command" -> TakeCommand(b, s)
    [] s.result = "running" /\ s.phase = "literals" -> TakeLiteral(b, s)
    [] s.result = "running" /\ s.phase = "distance" -> TakeCopy(b, s)

\* Every part is one turn, and a command has at most two more; the last turn
\* ends the loop.
Turns(b) == 3 * (Len(b.parts) + 1)

Loop(b) ==
  LET s[n \in 0 .. Turns(b)] == IF n = 0 THEN Begin(b) ELSE Turn(b, s[n - 1])
  IN  s

OneShot(b) == Loop(b)[Turns(b)]

(***************************************************************************)
(* Meta-blocks as an encoder writes them: each part is what decode_commands *)
(* reads there, under the type that is in force.  Values need not be valid. *)
(***************************************************************************)
\* The part that is due, and the block type it is read under.
DueIn(b, phase, left, header) ==
  CASE phase = "command" /\ left["commands"] = 0 -> <<"switch", "commands">>
    [] phase = "command" /\ left["commands"] # 0 ->
         <<"command", header["commands"].current>>
    [] phase = "literals" /\ ~SingleLiteralCode(b) /\ left["literals"] = 0 ->
         <<"switch", "literals">>
    [] phase = "literals" /\ (SingleLiteralCode(b) \/ left["literals"] # 0) ->
         <<"literal", header["literals"].current>>
    [] phase = "distance" /\ left["distances"] = 0 -> <<"switch", "distances">>
    [] phase = "distance" /\ left["distances"] # 0 ->
         <<"distance", header["distances"].current>>

\* What is there to read at part i.
There(b, i) ==
  LET part == b.parts[i]
  IN  <<part.kind, IF part.kind = "switch" THEN part.category ELSE part.type>>

Reads(b, s) ==
  /\ s.result = "running"
  /\ \/ s.phase = "command" /\ Len(s.out) < Needed(b)
     \/ s.phase = "literals" /\ s.todo # 0
     \/ s.phase = "distance" /\ ~s.command.reuse

InForce(b) ==
  \A n \in 0 .. Turns(b) :
    LET s == Loop(b)[n]
    IN  Reads(b, s) =>
          /\ s.at \in 1 .. Len(b.parts)
          /\ There(b, s.at) = DueIn(b, s.phase, s.left, s.header)

PartOf(part) ==
  /\ part.bits \in Nat
  /\ CASE part.kind = "switch" ->
            /\ part.category \in Category /\ part.symbol \in Nat
            /\ part.count \in Nat \ {0} /\ part.typeBits \in Nat
       [] part.kind = "command" ->
            part.insert \in Nat /\ part.copy \in Nat /\ part.reuse \in BOOLEAN
       [] part.kind = "distance" -> part.symbol \in Nat /\ part.distance \in Nat
       [] OTHER -> TRUE

WellFormed(b) ==
  /\ {b.len, b.maxBits, b.start, b.base, b.window, b.raw, b.affix} \subseteq Nat
  /\ {b.trees, b.distTrees} \subseteq Nat \ {0}
  /\ b.types \in [Category -> Nat \ {0}]
  /\ b.first \in [Category -> Nat \ {0}]
  /\ b.parts \in Seq({b.parts[i] : i \in DOMAIN b.parts})
  /\ \A i \in DOMAIN b.parts : PartOf(b.parts[i])
  /\ InForce(b)
=============================================================================
