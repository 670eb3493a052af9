------------------------------ MODULE MetaBlock ------------------------------
(***************************************************************************)
(* MetaBlock (crates/decode/src/compressed/incremental.rs): a compressed   *)
(* meta-block decoded in steps from input that arrives in pieces.  A step  *)
(* works on copies of the checkpoint (bit_pos and cursor) and stores them  *)
(* back at checkpoints; when it runs out of input it leaves the rest, and  *)
(* the next step goes on from the checkpoint with more input.              *)
(*                                                                         *)
(* The reader's place is the index of the next part; avail counts the bits *)
(* that have arrived, of which those of later meta-blocks are a part too.  *)
(* The block types in force live in `header`, which a step changes in      *)
(* place; all other loop state is in `c`.                                  *)
(***************************************************************************)
EXTENDS MetaBlockBody

CONSTANTS
  StepBits,    (* STEP_BITS                                                *)
  Pieces       (* bits that arrive between steps                           *)

\* No literal is longer than the longest literal code, and STEP_BITS covers a
\* switch with the part it comes before.
Covered(b) ==
  \A i \in DOMAIN b.parts :
    LET part == b.parts[i]
        after == IF i < Len(b.parts) THEN b.parts[i + 1].bits ELSE 0
    IN  /\ part.kind = "literal" => part.bits <= b.maxBits
        /\ part.kind \in {"command", "distance"} => part.bits <= StepBits
        /\ part.kind = "switch" => part.bits + after <= StepBits

ASSUME MetaBlockAssumption ==
  /\ StepBits \in Nat /\ Unlimited \in Nat \ {0}
  /\ Pieces \subseteq Nat \ {0}
  /\ \A b \in Blocks : WellFormed(b) /\ Covered(b)

VARIABLES
  block,       (* the meta-block being decoded                             *)
  avail,       (* bits that have arrived                                   *)
  bit_pos,     (* the part at the checkpoint                               *)
  stage,       (* "header", "codes" or "body"                              *)
  next,        (* the next code to read, as group and index                *)
  header,      (* BlockCategory of each category                           *)
  cursor,      (* loop state at the checkpoint                             *)
  \* locals of decode_body
  at,          (* the part the reader is at                                *)
  c,           (* copy of the cursor                                       *)
  command,
  left,        (* literals of the command still to decode                  *)
  stop_at,
  pc,          (* "idle" between steps, or where the loop is               *)
  \* the caller's buffers
  output,      (* decoded bytes                                            *)
  distances,   (* the stream's ring                                        *)
  result       (* how the last step ended                                  *)

stepVars == <<at, c, command, left, stop_at, pc>>
vars == <<block, avail, bit_pos, stage, next, header, cursor, stepVars,
          output, distances, result>>

HeaderPending == [kind |-> "header", command |-> NoCommand, left |-> 0]

(***************************************************************************)
(* Input.  BitsTo is where a part starts; the parts of the next meta-block *)
(* follow the last one.                                                    *)
(***************************************************************************)
Offsets(b) ==
  LET bits[j \in 1 .. Len(b.parts) + 1] ==
        IF j = 1 THEN 0 ELSE bits[j - 1] + b.parts[j - 1].bits
  IN  bits
BitsTo(i) == Offsets(block)[i]
TotalBits == BitsTo(Len(block.parts) + 1)

RemainingBits == avail - BitsTo(at)
Short_OnePart == RemainingBits < StepBits - 2 \* mutant: one part, not a switch and a part
Short == RemainingBits < StepBits
Arrived(i) == i <= Len(block.parts) /\ BitsTo(i + 1) <= avail

BlockTypes == [category \in Category |->
                <<header[category].current, header[category].previous>>]

\* restore_block_types: `remaining` keeps what the last switch read.
Restored ==
  [category \in Category |->
    [header[category] EXCEPT !.current = cursor.types[category][1],
                             !.previous = cursor.types[category][2]]]

\* The checkpoint! macro.
Kept_EntryTypes(pending) == [c EXCEPT !.pending = pending] \* mutant: types at entry
Kept(pending) == [c EXCEPT !.pending = pending, !.types = BlockTypes]
Checkpoint(pending) ==
  /\ cursor' = Kept(pending)
  /\ bit_pos' = at
CheckpointIf(condition, pending) ==
  IF condition THEN Checkpoint(pending) ELSE UNCHANGED <<cursor, bit_pos>>

(***************************************************************************)
(* How a step ends: out of input, with an error (the tri! macro), or with  *)
(* a Step.                                                                 *)
(***************************************************************************)
Leave(how) == pc' = "idle" /\ result' = how
RunOut ==
  /\ Leave("endOfInput")
  /\ UNCHANGED <<header, at, c, command, left, output>>
Fail ==
  /\ Leave("error")
  /\ cursor' = [cursor EXCEPT !.pos = c.pos]

(***************************************************************************)
(* The caller: input arrives between steps.                                *)
(***************************************************************************)
Arrive(bits) ==
  /\ pc = "idle" /\ result \notin {"done", "error"}
  /\ avail < TotalBits + StepBits
  /\ avail' = avail + bits
  /\ UNCHANGED <<block, bit_pos, stage, next, header, cursor, stepVars,
                 output, distances, result>>

(***************************************************************************)
(* step: the header, then one prefix code per step, then decode_body.      *)
(***************************************************************************)
ReadHeader ==
  /\ pc = "idle" /\ stage = "header" /\ Arrived(bit_pos)
  /\ stage' = "codes"
  /\ next' = <<0, 0>>
  /\ header' = HeaderOf(block)
  /\ cursor' = [pos |-> block.start, types |-> [category \in Category |-> <<0, 1>>],
                left |-> [category \in Category |->
                            HeaderOf(block)[category].remaining],
                ring |-> distances, pending |-> HeaderPending]
  /\ bit_pos' = bit_pos + 1
  /\ result' = "more"
  /\ UNCHANGED <<block, avail, stepVars, output, distances>>

GroupCount(group) ==
  <<block.trees, block.types["commands"], block.distTrees>>[group + 1]

NextCode(group, index) ==
  CASE index + 1 < GroupCount(group) -> <<group, index + 1>>
    [] index + 1 >= GroupCount(group) /\ group < 2 -> <<group + 1, 0>>
    [] OTHER -> <<>>

ReadCode ==
  /\ pc = "idle" /\ stage = "codes" /\ Arrived(bit_pos)
  /\ next' = NextCode(next[1], next[2])
  /\ stage' = IF next' = <<>> THEN "body" ELSE "codes"
  /\ bit_pos' = bit_pos + 1
  /\ result' = "more"
  /\ UNCHANGED <<block, avail, header, cursor, stepVars, output, distances>>

\* Output past the checkpoint decodes again, so it is dropped here.
BeginBody(stop) ==
  /\ pc = "idle" /\ stage = "body" /\ result \notin {"done", "error"}
  /\ header' = Restored
  /\ at' = bit_pos
  /\ c' = cursor
  /\ command' = cursor.pending.command
  /\ left' = cursor.pending.left
  /\ stop_at' = stop
  /\ pc' = IF cursor.pending.kind = "header" THEN "header" ELSE "literals"
  /\ output' = SubSeq(output, 1, cursor.pos)
  /\ result' = "running"
  /\ UNCHANGED <<block, avail, bit_pos, stage, next, cursor, distances>>

loopVars == <<block, avail, stage, next, stop_at, distances>>

\* The end of the meta-block: the last checkpoint, and the ring to go on with.
Done ==
  /\ \/ pc = "header" /\ c.pos >= Needed(block)
     \/ pc = "literals" /\ left = 0 /\ c.pos = Needed(block)
  /\ Checkpoint(HeaderPending)
  /\ distances' = c.ring
  /\ Leave("done")
  /\ UNCHANGED <<block, avail, stage, next, header, at, c, command, left,
                 stop_at, output>>

Stop ==
  /\ pc = "header" /\ c.pos < Needed(block) /\ c.pos >= stop_at
  /\ Checkpoint(HeaderPending)
  /\ Leave("stopped")
  /\ UNCHANGED <<loopVars, header, at, c, command, left, output>>

BeginCommand ==
  /\ pc = "header" /\ c.pos < Needed(block) /\ c.pos < stop_at
  /\ CheckpointIf(Short, HeaderPending)
  /\ pc' = "command"
  /\ UNCHANGED <<loopVars, header, at, c, command, left, output, result>>

\* The block types change before the count is read, which may run out.
HalfSwitched(part) ==
  IF BitsTo(at) + part.typeBits > avail THEN header
  ELSE [header EXCEPT ![part.category].current = NextType(block, header, part),
                      ![part.category].previous = header[part.category].current]

\* next_block of `category`, read when the checkpoint is <<saved, place>>.
SwitchBlock(category, saved, place) ==
  /\ bit_pos' = place
  /\ IF ~Arrived(at)
     THEN /\ Leave("endOfInput")
          /\ header' = HalfSwitched(block.parts[at])
          /\ cursor' = saved
          /\ UNCHANGED <<at, c, command, left, output>>
     ELSE IF BadType(block, block.parts[at])
     THEN /\ Leave("error")
          /\ cursor' = [saved EXCEPT !.pos = c.pos]
          /\ UNCHANGED <<header, at, c, command, left, output>>
     ELSE /\ header' = Switched(block, header, block.parts[at])
          /\ at' = at + 1
          /\ c' = [c EXCEPT !.left[category] = header'[category].remaining]
          /\ cursor' = saved
          /\ UNCHANGED <<command, left, output, pc, result>>

SwitchCommands ==
  /\ pc = "command" /\ c.left["commands"] = 0
  /\ SwitchBlock("commands", cursor, bit_pos)
  /\ UNCHANGED loopVars

ReadCommand ==
  /\ pc = "command" /\ c.left["commands"] # 0
  /\ IF ~Arrived(at)
     THEN RunOut /\ UNCHANGED cursor
     ELSE LET part == block.parts[at]
          IN  IF part.insert > Needed(block) - c.pos
              THEN /\ Fail
                   /\ UNCHANGED <<header, at, c, command, left, output>>
              ELSE /\ at' = at + 1
                   /\ c' = [c EXCEPT !.left["commands"] = @ - 1]
                   /\ command' = CommandOf(part)
                   /\ left' = part.insert
                   /\ pc' = "literals"
                   /\ UNCHANGED <<header, cursor, output, result>>
  /\ UNCHANGED <<loopVars, bit_pos>>

LiteralsPending_Whole(n) == \* mutant: the whole run again
  [kind |-> "literals", command |-> command, left |-> command.insert]
LiteralsPending(n) == [kind |-> "literals", command |-> command, left |-> n]

SwitchLiterals ==
  /\ pc = "literals" /\ left # 0
  /\ ~SingleLiteralCode(block) /\ c.left["literals"] = 0
  /\ IF Short THEN SwitchBlock("literals", Kept(LiteralsPending(left)), at)
     ELSE SwitchBlock("literals", cursor, bit_pos)
  /\ UNCHANGED loopVars

Run == IF SingleLiteralCode(block) THEN left
       ELSE Smaller(left, c.left["literals"])

\* Literals whose longest codes the input holds.
Fits == IF Run * block.maxBits <= RemainingBits THEN Run
        ELSE RemainingBits \div block.maxBits

Count == IF Fits = 0 THEN 1 ELSE Fits

\* A run of literals; one that the input holds no longest code for may run
\* out, and a run cut by the input is kept up to the cut.
ReadLiterals ==
  /\ pc = "literals" /\ left # 0
  /\ SingleLiteralCode(block) \/ c.left["literals"] # 0
  /\ IF ~Arrived(at + Count - 1)
     THEN /\ CheckpointIf(Fits = 0, LiteralsPending(left))
          /\ RunOut
     ELSE LET decoded ==
                [c EXCEPT !.pos = @ + Count,
                          !.left["literals"] =
                             IF SingleLiteralCode(block) THEN @ ELSE @ - Count]
              bytes == [i \in 1 .. Count |-> LiteralAt(block, at + i - 1, header)]
          IN  /\ c' = decoded
              /\ at' = at + Count
              /\ left' = left - Count
              /\ output' = output \o bytes
              /\ IF Count < Run
                 THEN /\ cursor' = [decoded EXCEPT
                            !.pending = LiteralsPending(left - Count),
                            !.types = BlockTypes]
                      /\ bit_pos' = at + Count
                 ELSE CheckpointIf(Fits = 0, LiteralsPending(left))
              /\ UNCHANGED <<header, command, pc, result>>
  /\ UNCHANGED loopVars

AfterLiterals ==
  /\ pc = "literals" /\ left = 0 /\ c.pos # Needed(block)
  /\ CheckpointIf(Short, [kind |-> "distance", command |-> command, left |-> 0])
  /\ pc' = "distance"
  /\ UNCHANGED <<loopVars, header, at, c, command, left, output, result>>

SwitchDistances ==
  /\ pc = "distance" /\ ~command.reuse /\ c.left["distances"] = 0
  /\ SwitchBlock("distances", cursor, bit_pos)
  /\ UNCHANGED loopVars

\* The distance and the copy of the command.
CopyFrom(symbol, distance) ==
  LET source == Source(block, c.pos, distance)
      len == CopyLen(block, source, command.copy)
  IN  IF source = "invalid" \/ len > Needed(block) - c.pos
      THEN Fail /\ UNCHANGED <<at, c, output>>
      ELSE /\ output' = Copied(output, source, distance, len)
           /\ at' = IF command.reuse THEN at ELSE at + 1
           /\ c' = [c EXCEPT !.pos = @ + len,
                             !.ring = RingAfter(@, symbol, source, distance),
                             !.left["distances"] =
                                IF command.reuse THEN @ ELSE @ - 1]
           /\ pc' = "header"
           /\ UNCHANGED <<cursor, result>>

Copy ==
  /\ pc = "distance"
  /\ command.reuse \/ c.left["distances"] # 0
  /\ IF command.reuse THEN CopyFrom(0, Resolve(c.ring, 0))
     ELSE IF Arrived(at)
     THEN CopyFrom(block.parts[at].symbol, DistanceOf(block.parts[at], c.ring))
     ELSE Leave("endOfInput") /\ UNCHANGED <<at, c, cursor, output>>
  /\ UNCHANGED <<loopVars, bit_pos, header, command, left>>

(***************************************************************************)
(* Properties.                                                             *)
(***************************************************************************)

\* Wherever the last step stopped and whatever part of a block switch it had
\* read, the loop reads each part as what it is, with the code of the block
\* type it was written for (incremental.rs:332-337, 349; BlockCategory::switch
\* changes the types before it reads the count).
ReadsInForce ==
  /\ pc \in {"command", "distance"} \/ (pc = "literals" /\ left # 0)
  /\ ~(pc = "distance" /\ command.reuse)
  => DueIn(block, pc, c.left, header) = There(block, at)

\* What decode_commands makes of each meta-block.
Reference == [b \in Blocks |-> OneShot(b)]

\* A decoder that got the input in pieces, with stops for output room in any
\* commands, ends as decode_commands does with the whole input: the same
\* error at the same place, or the same output, with the same distance ring
\* for the next meta-block (incremental.rs:320-321).
MirrorsOneShot ==
  /\ cursor.pos <= Len(Reference[block].out)
  /\ cursor.pos <= Len(output)
  /\ SubSeq(output, 1, cursor.pos) = SubSeq(Reference[block].out, 1, cursor.pos)
  /\ result \in {"done", "error"} =>
       /\ result = Reference[block].result
       /\ cursor.pos = Len(Reference[block].out)
  /\ result = "done" =>
       /\ distances = Reference[block].ring
       /\ bit_pos = Reference[block].at

\* A step that runs out of input leaves a checkpoint at most one block switch
\* before the part that ran out: STEP_BITS covers what the loop reads without
\* one (incremental.rs:6-13, 31-34).
RedecodesOnePart ==
  result = "endOfInput" =>
    \/ at = bit_pos
    \/ /\ at = bit_pos + 1
       /\ block.parts[bit_pos].kind = "switch"
       /\ block.parts[bit_pos].category \in {"commands", "distances"}

(***************************************************************************)
(* Specification.                                                          *)
(***************************************************************************)
Init ==
  /\ block \in Blocks
  /\ avail = 0
  /\ bit_pos = 1
  /\ stage = "header"
  /\ next = <<>>
  /\ header = HeaderOf(block)
  /\ cursor = [pos |-> block.start, types |-> <<>>, left |-> <<>>,
               ring |-> LAST_DISTANCES, pending |-> HeaderPending]
  /\ at = 1
  /\ c = cursor
  /\ command = NoCommand
  /\ left = 0
  /\ stop_at = 0
  /\ pc = "idle"
  /\ output = Earlier(block)
  /\ distances = LAST_DISTANCES
  /\ result = "more"

Next ==
  \/ \E bits \in Pieces : Arrive(bits)
  \/ ReadHeader
  \/ ReadCode
  \/ \E stop \in cursor.pos .. Needed(block) : BeginBody(stop)
  \/ Done
  \/ Stop
  \/ BeginCommand
  \/ SwitchCommands
  \/ ReadCommand
  \/ SwitchLiterals
  \/ ReadLiterals
  \/ AfterLiterals
  \/ SwitchDistances
  \/ Copy

Spec == Init /\ [][Next]_vars
=============================================================================
