---------------------------- MODULE EncoderRing ----------------------------
(***************************************************************************)
(* How the encoder keeps up with the decoder's last four distances         *)
(* (crates/encode/src/encode/mod.rs and its collectors).  A copy is        *)
(* written with a distance symbol that means what the decoder's ring says  *)
(* it means, so the encoder carries a ring of its own from one meta-block  *)
(* to the next.  Collectors start from it, and each way of writing copies  *)
(* advances it in a way of its own:                                        *)
(*                                                                         *)
(*   global, local  collectors with a dist_cache (q2 to q5), with or       *)
(*                  without static dictionary words, into tokens::Writer   *)
(*   long           two_pass::collect_long into tokens::Writer             *)
(*   sparse         sparse::collect_tokens, kept and scanned at the end    *)
(*   batch          q1 sparse batches, scanned at the end                  *)
(*   twoPass        two_pass::Commands, with a copy of the ring            *)
(*   onePass        one_pass::write, a copy that only a block that fits    *)
(*                  hands back; one that does not is taken back and stored *)
(*   blocks, block  one_pass::write_long between and in its blocks         *)
(*                                                                         *)
(* The encoder's rings are newest first, the decoder's oldest first.       *)
(***************************************************************************)
EXTENDS DistanceRing

CONSTANTS
  Distances,  \* distances the collectors find
  Window,     \* max_backward_distance
  Inserts,    \* lengths of literal runs
  CopyLen,    \* length of a copy
  MaxInput    \* bound on the stream's input

ASSUME EncoderRingAssumption ==
  /\ Distances \subseteq Nat \ {0}
  /\ Window \in Nat \ {0} /\ Inserts \subseteq Nat
  /\ CopyLen \in Nat \ {0} /\ MaxInput \in Nat

VARIABLES
  path,     \* how the meta-block in progress is written, or "between"
  ring,     \* Workspace::distance_ring
  view,     \* the collector's copy of it
  last,     \* last_distance of collect_long and the q1 batch
  recent,   \* ring and ring_len of tokens::Writer
  kept,     \* distances of the kept tokens or of the batch
  base,     \* input_base
  pos,      \* position in the input after input_base
  stored,   \* stored_start of write_long
  decoder,  \* ring and position of a decoder of the bits so far
  mark,     \* the decoder at the writer's mark
  copy      \* the last copy, as meant and as decoded

vars == <<path, ring, view, last, recent, kept, base, pos, stored,
          decoder, mark, copy>>

NoLastDistance == 0  \* NO_LAST_DISTANCE: no distance
NoCode == 16         \* distance_code: None, a symbol past the ring's
NotStored == -1

InitialRing == <<4, 11, 15, 16>>
Lesser(a, b) == IF a <= b THEN a ELSE b
Reach(at) == Lesser(at, Window)

(***************************************************************************)
(* The encoder's rings.                                                    *)
(***************************************************************************)
PushNewest(r, distance) == <<distance, r[1], r[2], r[3]>>

PushNewestFirst(r, newest) ==
  LET at(i) == IF i <= Len(newest) THEN newest[i] ELSE r[i - Len(newest)]
  IN  <<at(1), at(2), at(3), at(4)>>

NewestFirst(r) == <<r[4], r[3], r[2], r[1]>>

NoRecent == [slots |-> [i \in 0 .. 3 |-> 0], len |-> 0]

PushRecent(q, distance) ==
  [slots |-> [q.slots EXCEPT ![q.len % 4] = distance], len |-> q.len + 1]

NewestRecent(q) ==
  [age \in 1 .. Lesser(q.len, 4) |-> q.slots[(q.len - age) % 4]]

NewestKept(s) == [age \in 1 .. Lesser(Len(s), 4) |-> s[Len(s) + 1 - age]]

Nibbles0_Mirrored == <<9, 7, 5, 0, 4, 6, 8>> \* mutant: nearer and farther swapped
Nibbles0 == <<8, 6, 4, 0, 5, 7, 9>>
Nibbles1 == <<14, 12, 10, 1, 11, 13, 15>>

ComputeDistanceCode(distance, maxBackward, cache) ==
  LET offset0 == distance + 3 - cache[1]
      offset1 == distance + 3 - cache[2]
  IN  IF distance > maxBackward THEN NoCode
      ELSE IF distance = cache[1] THEN 0
      ELSE IF distance = cache[2] THEN 1
      ELSE IF offset0 \in 0 .. 6 THEN Nibbles0[offset0 + 1]
      ELSE IF offset1 \in 0 .. 6 THEN Nibbles1[offset1 + 1]
      ELSE IF distance = cache[3] THEN 2
      ELSE IF distance = cache[4] THEN 3
      ELSE NoCode

(***************************************************************************)
(* What the decoder makes of a copy written with `symbol`.                 *)
(***************************************************************************)
Decode(insert, symbol, distance, source) ==
  LET at == decoder.at + insert
      resolved == IF symbol < 16 THEN Resolve(decoder.ring, symbol)
                  ELSE distance
      found == IF resolved <= Reach(at) THEN "output" ELSE "word"
  IN  /\ decoder' = [ring |-> RingAfter(decoder.ring, symbol, found, resolved),
                     at |-> at + CopyLen]
      /\ copy' = [meant |-> <<base + pos + insert, distance, source>>,
                  decoded |-> <<at, resolved, found>>]
      /\ pos' = pos + insert + CopyLen

Skip(d, len) == [d EXCEPT !.at = @ + len]

Start == [ring |-> LAST_DISTANCES, at |-> 0]
NoCopy == [meant |-> <<>>, decoded |-> <<>>]

\* reset_stream
Init ==
  /\ path = "between" /\ ring = InitialRing
  /\ view = InitialRing /\ last = NoLastDistance
  /\ recent = NoRecent /\ kept = <<>>
  /\ base = 0 /\ pos = 0 /\ stored = NotStored
  /\ decoder = Start /\ mark = Start /\ copy = NoCopy

\* A copy that starts after `insert` literals fits the bound.
Room(insert) == base + pos + insert + CopyLen <= MaxInput

(***************************************************************************)
(* Meta-blocks without copies, and the start of one with copies.           *)
(***************************************************************************)
WriteLiterals(len) ==
  /\ path = "between" /\ len > 0 /\ base + len <= MaxInput
  /\ base' = base + len /\ decoder' = Skip(decoder, len)
  /\ UNCHANGED <<path, ring, view, last, recent, kept, pos, stored, mark, copy>>

Begin(p) ==
  /\ path = "between"
  /\ path' = p /\ pos' = 0 /\ view' = ring
  /\ last' = IF p = "batch" THEN NoLastDistance ELSE ring[1]
  /\ recent' = NoRecent /\ kept' = <<>> /\ mark' = decoder
  /\ UNCHANGED <<ring, base, stored, decoder, copy>>

\* write_meta_block_with_workspace adds the block to the input position.
EndBlock(tail) ==
  /\ base + pos + tail <= MaxInput /\ pos + tail > 0
  /\ path' = "between" /\ base' = base + pos + tail /\ pos' = 0

(***************************************************************************)
(* tokens::Writer: the circular ring of its pushes.                        *)
(***************************************************************************)
PushesRing_Words(code, distance, at) == code # 0 \* mutant: words count too
PushesRing(code, distance, at) == code # 0 /\ distance <= Reach(base + at)

PushToken(insert, distance, source, code, useLast) ==
  /\ Decode(insert, IF useLast THEN 0 ELSE code, distance, source)
  /\ recent' = IF ~useLast /\ PushesRing(code, distance, pos + insert)
               THEN PushRecent(recent, distance) ELSE recent

\* Where a collector's matches reach: only dictionary words lie past the
\* chunk, and they lie past everything written.
Found(distance, source, at) ==
  IF source = "output" THEN distance <= Reach(at)
  ELSE distance > Reach(base + at)

SupportsLast(insert) == insert < 10 /\ CopyLen \in 2 .. 69

CollectorReach(at) == IF path = "global" THEN Reach(base + at) ELSE Reach(at)

CollectCached(insert, distance, source) ==
  LET at == pos + insert
      code == ComputeDistanceCode(distance, CollectorReach(at), view)
  IN  /\ path \in {"global", "local"} /\ Room(insert)
      /\ source = "word" => path = "global"
      /\ Found(distance, source, at)
      /\ PushToken(insert, distance, source, code,
                   code = 0 /\ SupportsLast(insert))
      /\ view' = IF distance <= CollectorReach(at) /\ code > 0
                 THEN PushNewest(view, distance) ELSE view
      /\ UNCHANGED <<path, ring, last, kept, base, stored, mark>>

CollectLong(insert, distance) ==
  /\ path = "long" /\ Room(insert)
  /\ Found(distance, "output", pos + insert)
  /\ PushToken(insert, distance, "output", NoCode, distance = last)
  /\ last' = distance
  /\ UNCHANGED <<path, ring, view, kept, base, stored, mark>>

FinishWriter(tail) ==
  /\ path \in {"global", "local", "long"} /\ EndBlock(tail)
  /\ ring' = PushNewestFirst(ring, NewestRecent(recent))
  /\ decoder' = Skip(decoder, tail)
  /\ UNCHANGED <<view, last, recent, kept, stored, mark, copy>>

(***************************************************************************)
(* Copies kept and scanned at the end, newest first: advance_tokens and    *)
(* advance_distance_ring.  `kept` has the distances the scan takes.        *)
(***************************************************************************)
CollectSparse(insert, distance) ==
  /\ path = "sparse" /\ Room(insert)
  /\ Found(distance, "output", pos + insert)
  /\ Decode(insert, NoCode, distance, "output")
  /\ kept' = IF PushesRing(NoCode, distance, pos + insert)
             THEN Append(kept, distance) ELSE kept
  /\ UNCHANGED <<path, ring, view, last, recent, base, stored, mark>>

\* A copy right after another gets an explicit distance, even the last one.
Reuses(insert, distance) == insert > 0 /\ distance = last

CollectBatch(insert, distance) ==
  LET reuse == Reuses(insert, distance)
  IN  /\ path = "batch" /\ Room(insert)
      /\ Found(distance, "output", pos + insert)
      /\ Decode(insert, IF reuse THEN 0 ELSE NoCode, distance, "output")
      /\ kept' = IF reuse THEN kept ELSE Append(kept, distance)
      /\ last' = distance
      /\ UNCHANGED <<path, ring, view, recent, base, stored, mark>>

FinishKept(tail) ==
  /\ path \in {"sparse", "batch"} /\ EndBlock(tail)
  /\ ring' = PushNewestFirst(ring, NewestKept(kept))
  /\ decoder' = Skip(decoder, tail)
  /\ UNCHANGED <<view, last, recent, kept, stored, mark, copy>>

(***************************************************************************)
(* Commands with a copy of the ring: two_pass and one_pass.                *)
(***************************************************************************)
WriteCommand(insert, distance) ==
  LET same == distance = view[1]
  IN  /\ path \in {"twoPass", "onePass", "block"} /\ Room(insert)
      /\ Found(distance, "output", pos + insert)
      /\ Decode(insert, IF same THEN 0 ELSE NoCode, distance, "output")
      /\ view' = IF same THEN view ELSE PushNewest(view, distance)
      /\ UNCHANGED <<path, ring, last, recent, kept, base, stored, mark>>

FinishCommands(tail) ==
  /\ path \in {"twoPass", "onePass"} /\ EndBlock(tail)
  /\ ring' = view
  /\ decoder' = Skip(decoder, tail)
  /\ UNCHANGED <<view, last, recent, kept, stored, mark, copy>>

\* one_pass::write returns false: the caller stores the piece.
StoreInstead(tail) ==
  /\ path = "onePass" /\ EndBlock(tail)
  /\ decoder' = Skip(mark, pos + tail)
  /\ UNCHANGED <<ring, view, last, recent, kept, stored, mark, copy>>

(***************************************************************************)
(* write_long: blocks to store wait for the next block that is written.    *)
(***************************************************************************)
StoreLater(len) ==
  /\ path = "blocks" /\ len > 0 /\ base + pos + len <= MaxInput
  /\ stored' = IF stored = NotStored THEN pos ELSE stored
  /\ pos' = pos + len
  /\ UNCHANGED <<path, ring, view, last, recent, kept, base, decoder, mark, copy>>

WriteStored == IF stored = NotStored THEN decoder ELSE Skip(decoder, pos - stored)

BeginLongBlock ==
  /\ path = "blocks" /\ path' = "block"
  /\ stored' = NotStored /\ view' = ring
  /\ decoder' = WriteStored /\ mark' = WriteStored
  /\ UNCHANGED <<ring, last, recent, kept, base, pos, copy>>

FinishLongBlock(tail) ==
  /\ path = "block" /\ base + pos + tail <= MaxInput
  /\ base + pos + tail > mark.at
  /\ path' = "blocks" /\ pos' = pos + tail
  /\ ring' = view /\ decoder' = Skip(decoder, tail)
  /\ UNCHANGED <<view, last, recent, kept, base, stored, mark, copy>>

RewindLongBlock(tail) ==
  /\ path = "block" /\ base + pos + tail <= MaxInput
  /\ base + pos + tail > mark.at
  /\ path' = "blocks" /\ pos' = pos + tail
  /\ decoder' = mark /\ stored' = mark.at - base
  /\ UNCHANGED <<ring, view, last, recent, kept, base, mark, copy>>

FinishLong ==
  /\ path = "blocks" /\ EndBlock(0)
  /\ decoder' = WriteStored /\ stored' = NotStored
  /\ UNCHANGED <<ring, view, last, recent, kept, mark, copy>>

Next ==
  \/ \E p \in {"global", "local", "long", "sparse", "batch", "twoPass",
               "onePass", "blocks"} : Begin(p)
  \/ \E len \in Inserts : WriteLiterals(len) \/ StoreLater(len)
  \/ \E insert \in Inserts, distance \in Distances :
       \/ \E source \in {"output", "word"} :
            CollectCached(insert, distance, source)
       \/ CollectLong(insert, distance)
       \/ CollectSparse(insert, distance)
       \/ CollectBatch(insert, distance)
       \/ WriteCommand(insert, distance)
  \/ \E tail \in Inserts :
       \/ FinishWriter(tail) \/ FinishKept(tail) \/ FinishCommands(tail)
       \/ StoreInstead(tail)
       \/ FinishLongBlock(tail) \/ RewindLongBlock(tail)
  \/ BeginLongBlock \/ FinishLong

Spec == Init /\ [][Next]_vars

(***************************************************************************)
(* Properties.                                                             *)
(***************************************************************************)
\* The decoder copies from where the collector found the match: it is at the
\* same position, and the symbol means the same distance to it, however many
\* meta-blocks of whatever kind, dictionary words, repeats of the last
\* distance and blocks taken back came before.
CopiesDecode == copy.meant = copy.decoded

\* Between meta-blocks the encoder's ring is the decoder's, and the input
\* position is the decoder's: the stored block that replaces one taken back
\* leaves no trace, and neither does the way the last block found its ring.
RingCarried ==
  path = "between" => ring = NewestFirst(decoder.ring) /\ base = decoder.at

\* In a meta-block, what the collector picks symbols by is what the decoder
\* has: all four distances, or the last one.
CollectorFollows ==
  /\ path \in {"global", "local", "twoPass", "onePass", "block"} =>
       view = NewestFirst(decoder.ring)
  /\ path \in {"long", "batch"} =>
       last \in {NoLastDistance, decoder.ring[4]}
=============================================================================
