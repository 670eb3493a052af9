------------------------------ MODULE Scanners ------------------------------
(***************************************************************************)
(* The matchers of q0 and q1, and those of input that looks incompressible *)
(* (crates/encode/src/encode/one_pass.rs, two_pass.rs, q1.rs, sparse.rs).  *)
(* They take the first match they find, at the last distance or where the  *)
(* table has the hash, and look again right after it.  The more misses in  *)
(* a row, the farther they step.                                           *)
(*                                                                         *)
(* An input is what one call matches in: a piece of the chunks that        *)
(* write_one_pass_meta_blocks and two_pass::write take, or all that        *)
(* write_long takes, block by block.                                       *)
(*                                                                         *)
(* A scanner has the parameters in which they differ:                      *)
(*   longest           longest input                                       *)
(*   block             LONG_BLOCK, or `longest`                            *)
(*   stores            whether blocks go out stored, which look            *)
(*                     incompressible or do not shrink                     *)
(*   margin, least     INPUT_MARGIN, and the bytes it takes to match at all *)
(*   min               bytes of a match at least, and of its hash          *)
(*   farthest          the farthest copies, or 0 where none is checked     *)
(*   reach             positions its entries tell apart, or 0 for all      *)
(*   first             last distances to start with, those of the ring, or *)
(*                     NoPosition for none                                 *)
(*   tail              positions of a copy that it stores                  *)
(*   past              whether it matches at the margin after a copy       *)
(*   stride            positions it looks at, one in this many, or 0       *)
(***************************************************************************)
EXTENDS Tokens

CONSTANTS
  Scanners,
  RingLasts,          \* last distances of the decoder's ring
  LONG_BLOCK,
  LONG_MAX_DISTANCE,
  MAX_DISTANCE,       \* Q1_LONG_MAX_DISTANCE too
  Patience        \* misses before the scanner steps farther: 32

NoPosition == -1

ASSUME ScannersAssumption ==
  /\ Patience \in Nat \ {0}
  /\ RingLasts \subseteq 1 .. Window
  /\ LONG_BLOCK \in Nat \ {0} /\ LONG_MAX_DISTANCE \in 1 .. Window
  /\ MAX_DISTANCE \in 1 .. Window
  /\ \A e \in Scanners :
       /\ e.longest \in Nat /\ e.block \in Nat \ {0}
       /\ e.stores \in BOOLEAN /\ e.past \in BOOLEAN
       /\ e.min \in 4 .. 6 /\ e.margin \in 8 .. 16 /\ e.least \in e.margin .. 18
       /\ e.farthest \in 0 .. Window /\ e.reach \in 0 .. Window
       /\ e.farthest = 0 => \/ e.reach > 0
                             \/ e.longest <= Window + e.margin
       /\ e.first \subseteq {NoPosition} \cup 1 .. Window
       /\ e.tail \in 0 .. e.min /\ e.stride \in Nat
       /\ IF e.stride > 0 THEN e.block >= e.longest
          ELSE e.least > e.margin /\ (e.past => e.margin > 8)
  /\ \A e \in Scanners, bytes \in Inputs :
       \A p \in 0 .. Len(bytes) - e.min :
         HashOf(SubSeq(bytes, p + 1, p + e.min)) \in Nat

VARIABLES
  block,      \* the block it is at: input[from..to]
  stored,     \* stored_start
  last,       \* last_distance, or ring.last()
  kept,       \* the ring's at the start of the block
  skip,       \* misses since the last match, from Patience
  candidate,
  tail        \* position of the copy to store next

MAX_META_BLOCK_SIZE == 2 ^ 24
INPUT_MARGIN_BYTES == 16

OnePass ==
  [longest |-> Window, block |-> Window, stores |-> TRUE, margin |-> 8,
   least |-> 10, min |-> 5, farthest |-> 0, reach |-> 0, first |-> RingLasts,
   tail |-> 3, past |-> FALSE, stride |-> 0]
WriteLong ==
  [OnePass EXCEPT !.longest = MAX_META_BLOCK_SIZE, !.block = LONG_BLOCK,
                  !.reach = LONG_MAX_DISTANCE]
CollectLong(min, tailed) ==
  [OnePass EXCEPT !.longest = MAX_META_BLOCK_SIZE, !.min = min, !.tail = tailed,
                  !.block = MAX_META_BLOCK_SIZE, !.stores = FALSE,
                  !.farthest = MAX_DISTANCE]
WithU16Table ==
  [OnePass EXCEPT !.longest = Window + INPUT_MARGIN_BYTES,
                  !.block = Window + INPUT_MARGIN_BYTES, !.stores = FALSE,
                  !.margin = INPUT_MARGIN_BYTES, !.least = 18, !.min = 4,
                  !.first = {NoPosition}, !.past = TRUE]
WithU32Table ==
  [WithU16Table EXCEPT !.longest = MAX_META_BLOCK_SIZE, !.min = 6, !.tail = 5,
                       !.block = MAX_META_BLOCK_SIZE, !.farthest = MAX_DISTANCE]
SparseStride(stride) == [WithU32Table EXCEPT !.stride = stride]
CollectTokens(stride) ==
  [SparseStride(stride) EXCEPT !.margin = 8, !.least = 8, !.first = {4},
                               !.farthest = Window]

scanning == <<block, stored, last, kept, skip, candidate, tail>>

NoBlock == [from |-> 0, to |-> 0]

Limit == block.to - engine.margin
Step == IF engine.stride > 0 THEN 0 ELSE skip \div Patience

Key(p) == Hash(p, engine.min) % TableSize
StoredOne(p) == [table EXCEPT ![Key(p)] = <<p>>]

\* Entries that keep only the low bits of a position stand for the latest
\* one before `pos` that has them.
Position(entry) ==
  IF engine.reach = 0 THEN entry
  ELSE pos - (((pos - entry - 1) % engine.reach) + 1)

Agrees(previous) == SameFor(previous, pos, engine.min)

RingMatches == last # NoPosition /\ pos >= last /\ Agrees(pos - last)

\* Entries are behind `pos`, which only some scanners check.
EntryMatches ==
  /\ table[Key(pos)] # <<>>
  /\ LET previous == Position(table[Key(pos)][1])
     IN  /\ engine.farthest > 0 => pos - previous <= engine.farthest
         /\ Agrees(previous)

CopyLen ==
  engine.min + MatchLen(candidate + engine.min, pos + engine.min,
                        block.to - pos - engine.min)

(***************************************************************************)
(* Blocks.  Those to store go out together, before the next that is not.   *)
(***************************************************************************)
NextBlock ==
  [from |-> block.to, to |-> Lesser(block.to + engine.block, Len(input))]
Pending == IF stored = NoPosition THEN block.to ELSE stored
Kept == IF stored = NoPosition THEN NextBlock.from ELSE stored

ScannersInit ==
  /\ engine \in Scanners
  /\ input \in {bytes \in Inputs : Len(bytes) <= engine.longest}
  /\ base \in Bases
  /\ phase = "block" /\ pos = 0 /\ start = 0
  /\ table = [key \in 0 .. TableSize - 1 |->
               IF engine.stride > 0 THEN <<>> ELSE <<0>>]
  /\ output = <<>> /\ copying = NoCopy
  /\ block = NoBlock /\ stored = NoPosition
  /\ last \in engine.first /\ kept = last
  /\ skip = Patience /\ candidate = 0 /\ tail = 0

copyFound == <<candidate, tail>>
blocks == <<block, stored, kept>>

StoreBlock ==
  /\ phase = "block" /\ block.to < Len(input) /\ engine.stores
  /\ block' = NextBlock /\ stored' = Kept
  /\ UNCHANGED <<fixed, phase, pos, start, table, decoder, last, kept, skip,
                 copyFound>>

\* Literals only, for a block that looks incompressible: the last distance
\* and the table stay.  It may not fit, and then is stored.
LiteralBlock ==
  /\ phase = "block" /\ block.to < Len(input)
  /\ engine.stores /\ engine.block < engine.longest
  /\ \E fits \in BOOLEAN :
       /\ TakeLiterals(Pending, IF fits THEN NextBlock.to ELSE NextBlock.from)
       /\ stored' = IF fits THEN NoPosition ELSE NextBlock.from
  /\ block' = NextBlock
  /\ UNCHANGED <<fixed, phase, pos, start, table, last, kept, skip, copyFound>>

MatchBlock ==
  /\ phase = "block" /\ block.to < Len(input)
  /\ TakeLiterals(Pending, NextBlock.from)
  /\ block' = NextBlock /\ stored' = NoPosition
  /\ start' = NextBlock.from
  /\ pos' = IF engine.stride > 0 THEN 0 ELSE Larger(NextBlock.from, 1)
  /\ kept' = last /\ skip' = Patience
  /\ phase' = IF NextBlock.to - NextBlock.from < engine.least THEN "rest"
              ELSE "scan"
  /\ UNCHANGED <<fixed, table, last, copyFound>>

Finish ==
  /\ phase = "block" /\ block.to = Len(input)
  /\ TakeLiterals(Pending, Len(input))
  /\ stored' = NoPosition /\ phase' = "done"
  /\ UNCHANGED <<fixed, pos, start, table, block, last, kept, skip, copyFound>>

\* The block does not shrink: it is undone, and stored.
RunOut ==
  /\ phase \in {"copy", "rest"} /\ engine.stores
  /\ output' = SubSeq(output, 1, block.from) /\ copying' = NoCopy
  /\ last' = kept /\ stored' = block.from
  /\ phase' = "block"
  /\ UNCHANGED <<fixed, pos, start, table, block, kept, skip, copyFound>>

(***************************************************************************)
(* find_match and the loop around it.                                      *)
(***************************************************************************)
Scanning == phase = "scan" /\ pos + Step <= Limit

ScanLast ==
  /\ Scanning /\ RingMatches
  /\ table' = StoredOne(pos) /\ candidate' = pos - last
  /\ phase' = "copy"
  /\ UNCHANGED <<fixed, pos, start, decoder, blocks, last, skip, tail>>

ScanEntry ==
  /\ Scanning /\ ~RingMatches /\ EntryMatches
  /\ table' = StoredOne(pos) /\ candidate' = Position(table[Key(pos)][1])
  /\ phase' = "copy"
  /\ UNCHANGED <<fixed, pos, start, decoder, blocks, last, skip, tail>>

ScanOn ==
  /\ Scanning /\ ~RingMatches /\ ~EntryMatches
  /\ table' = StoredOne(pos)
  /\ pos' = pos + IF engine.stride > 0 THEN engine.stride ELSE Step
  /\ skip' = skip + 1
  /\ UNCHANGED <<fixed, phase, start, decoder, blocks, last, copyFound>>

EndScan ==
  /\ phase = "scan" /\ pos + Step > Limit
  /\ phase' = "rest"
  /\ UNCHANGED <<fixed, pos, start, table, decoder, blocks, last, skip, copyFound>>

WriteCopy ==
  /\ phase = "copy"
  /\ TakeToken(pos, pos - candidate, CopyLen, CopyLen)
  /\ pos' = pos + CopyLen /\ start' = pos + CopyLen
  /\ last' = pos - candidate
  /\ phase' = "read"
  /\ UNCHANGED <<fixed, table, blocks, skip, copyFound>>

ReadCopy ==
  /\ CopyByte
  /\ UNCHANGED <<fixed, phase, pos, start, table, blocks, last, skip, copyFound>>

\* After a copy, its last positions go into the table.
AtEnd_Past == pos > Limit \* mutant: goes on at the margin
AtEnd == IF engine.past THEN pos > Limit ELSE pos >= Limit

EndCopy ==
  /\ phase = "read" /\ copying.left = 0
  /\ phase' = IF engine.stride > 0 THEN "scan"
              ELSE IF AtEnd THEN "rest" ELSE "tail"
  /\ pos' = IF engine.stride > 0
            THEN ((pos + engine.stride - 1) \div engine.stride) * engine.stride
            ELSE pos
  /\ tail' = pos - engine.tail
  /\ UNCHANGED <<fixed, start, table, decoder, blocks, last, skip, candidate>>

StoreTail ==
  /\ phase = "tail" /\ tail < pos
  /\ table' = StoredOne(tail) /\ tail' = tail + 1
  /\ UNCHANGED <<fixed, phase, pos, start, decoder, blocks, last, skip,
                 candidate>>

\* Another match right there, or the scan goes on.
Chain ==
  /\ phase = "tail" /\ tail = pos /\ EntryMatches
  /\ table' = StoredOne(pos) /\ candidate' = Position(table[Key(pos)][1])
  /\ phase' = "copy"
  /\ UNCHANGED <<fixed, pos, start, decoder, blocks, last, skip, tail>>

Resume ==
  /\ phase = "tail" /\ tail = pos /\ ~EntryMatches
  /\ table' = StoredOne(pos)
  /\ pos' = pos + 1 /\ skip' = Patience /\ phase' = "scan"
  /\ UNCHANGED <<fixed, start, decoder, blocks, last, copyFound>>

WriteRest ==
  /\ phase = "rest"
  /\ TakeLiterals(start, block.to)
  /\ start' = block.to /\ phase' = "block"
  /\ UNCHANGED <<fixed, pos, table, blocks, last, skip, copyFound>>

ScannersNext ==
  \/ StoreBlock \/ LiteralBlock \/ MatchBlock \/ Finish \/ RunOut
  \/ ScanLast \/ ScanEntry \/ ScanOn \/ EndScan
  \/ WriteCopy \/ ReadCopy \/ EndCopy
  \/ StoreTail \/ Chain \/ Resume \/ WriteRest

=============================================================================
