------------------------------- MODULE Concat -------------------------------
(***************************************************************************)
(* Concat fragments (crates/cat/src/lib.rs): headerless payloads that an   *)
(* assembler joins, bit by bit, into one Brotli stream.                    *)
(*                                                                         *)
(* A payload is a sequence of cells, one per bit: <<name, i>> is bit i of  *)
(* the meta-block `name`, and Zero is padding.  Of a meta-block,           *)
(*                                                                         *)
(*   kind    "compressed", "stored", "metadata" or "lastEmpty"             *)
(*   last    ISLAST                                                        *)
(*   trees   number of literal trees                                       *)
(*   bits    its bits; of a stored one, those before its padding           *)
(*   ops     its literals [byte] and copies [symbol, distance, len], where *)
(*           symbol 16 stands for any that does not use the ring           *)
(*                                                                         *)
(* A decoded byte is a natural number.  A word of the static dictionary    *)
(* stands for its bytes: its distance past the window, below zero.         *)
(*                                                                         *)
(* A fragment is its payload and its sidecar: spec, bitLen, inputLen,      *)
(* copies (the payload kind), summary (first and last two bytes) and       *)
(* sound (version, flags, lengths and checksum are what they must be).     *)
(***************************************************************************)
EXTENDS DistanceRing, SequencesExt

CONSTANTS
  MetaBlocks,   (* name -> meta-block                                      *)
  Received,     (* fragments from elsewhere                                *)
  Inputs,       (* inputs to encode, each as the names of its meta-blocks  *)
  Wanted,       (* the assembler's ConcatSpec                              *)
  HeaderBits,   (* bits of its window header                               *)
  Window,       (* its window size                                         *)
  InputCeiling, PayloadBudget, AssembledCap,  (* Options                   *)
  MaxStaged     (* bound on staged fragments and parts                     *)

VARIABLES
  made,      (* the fragment encode_fragment returned last, if any         *)
  staged,    (* ConcatAssembler::fragments                                 *)
  stream     (* what the last call wrote: its cells, and of each of its    *)
             (* parts the content, where it starts, and whether it has a   *)
             (* stored meta-block                                          *)

vars == <<made, staged, stream>>

Nothing == [cells |-> <<>>, content |-> <<>>, starts |-> <<>>,
            stored |-> <<>>, parts |-> FALSE]

Zero == <<>>
Smaller(a, b) == IF a <= b THEN a ELSE b
AlignUp(bits) == 8 * ((bits + 7) \div 8)
Padded(cells) ==
  cells \o [i \in 1 .. AlignUp(Len(cells)) - Len(cells) |-> Zero]

(***************************************************************************)
(* Reading.  A decoder is the bits it consumed, its output and ring,       *)
(* whether it met a copy, and its verdict: "reading" until it ends.        *)
(***************************************************************************)
Fresh(at) ==
  [at |-> at, out |-> <<>>, ring |-> LAST_DISTANCES, copies |-> FALSE,
   verdict |-> "reading"]
Reading(s) == s.verdict = "reading"
Refuse(s, why) == [s EXCEPT !.verdict = why]

\* The cells from bit `at` on are bits first .. last of the meta-block.
Holds(cells, at, name, first, last) ==
  /\ at + last - first + 1 <= Len(cells)
  /\ \A i \in first .. last : cells[at + i - first + 1] = <<name, i>>

ZeroFrom(cells, from, to) == \A i \in from + 1 .. to : cells[i] = Zero

NameAt(cells, at) ==
  IF \E name \in DOMAIN MetaBlocks : at < Len(cells) /\ cells[at + 1] = <<name, 1>>
  THEN cells[at + 1][1] ELSE "none"

\* How many meta-blocks begin in the first `upTo` bits.
BlocksBegun(cells, upTo) == Cardinality({i \in 1 .. upTo : NameAt(cells, i - 1) # "none"})

\* A copy within the output repeats the `distance` bytes it starts from.
CopiedByte(out, distance, i) ==
  LET n == Len(out)
  IN  IF i <= n THEN out[i] ELSE out[n - distance + 1 + ((i - n - 1) % distance)]

\* copy_from_distance, copy_from_far and copy_from_dictionary; which word a
\* distance names depends on how far past the window it is.
Copy(s, op, local) ==
  LET distance == IF op.symbol < 16 THEN Resolve(s.ring, op.symbol) ELSE op.distance
      allowed == Smaller(Window, Len(s.out))
      copied == [s EXCEPT !.copies = TRUE]
  IN  IF local /\ op.symbol < 16 THEN Refuse(copied, "short code")
      ELSE IF distance \in 1 .. allowed
      THEN [copied EXCEPT
              !.out = [i \in 1 .. Len(s.out) + op.len |-> CopiedByte(s.out, distance, i)],
              !.ring = IF op.symbol = 0 THEN s.ring ELSE Push(s.ring, distance)]
      ELSE IF distance = 0 \/ (local /\ distance > Len(s.out))
      THEN Refuse(copied, "distance")
      ELSE [copied EXCEPT !.out = Append(s.out, allowed - distance)]

IsLiteral(op) == "byte" \in DOMAIN op

Op(s, op, local) ==
  IF ~Reading(s) THEN s
  ELSE IF IsLiteral(op) THEN [s EXCEPT !.out = Append(s.out, op.byte)]
  ELSE Copy(s, op, local)

\* The states of a decoder over a meta-block's literals and copies.
AfterOps(s, ops, local) ==
  LET after[i \in 0 .. Len(ops)] ==
        IF i = 0 THEN s ELSE Op(after[i - 1], ops[i], local)
  IN  after

Compressed(s, name, local) ==
  LET ops == MetaBlocks[name].ops
  IN  AfterOps([s EXCEPT !.at = s.at + MetaBlocks[name].bits], ops, local)[Len(ops)]

\* read_zero_padding_to_byte and read_aligned_bytes: the padding depends on
\* where in the stream the meta-block stands.
Stored(cells, s, name) ==
  LET header == MetaBlocks[name].bits
      start == AlignUp(s.at + header)
      data == 8 * Len(MetaBlocks[name].ops)
  IN  IF /\ start <= Len(cells) /\ ZeroFrom(cells, s.at + header, start)
         /\ Holds(cells, start, name, header + 1, header + data)
      THEN [Compressed(s, name, FALSE) EXCEPT !.at = start + data]
      ELSE Refuse(s, "misread")

SkipMetadata(cells, s, name) ==
  LET end == AlignUp(s.at + MetaBlocks[name].bits)
  IN  IF end <= Len(cells) /\ ZeroFrom(cells, s.at + MetaBlocks[name].bits, end)
      THEN [s EXCEPT !.at = end] ELSE Refuse(s, "misread")

\* The next meta-block of a concat payload.
LocalBlock(cells, s, name) ==
  LET block == MetaBlocks[name]
  IN  IF block.kind \in {"lastEmpty", "metadata"} THEN Refuse(s, block.kind)
      ELSE IF block.kind = "stored" THEN Stored(cells, s, name)
      ELSE IF block.last THEN Refuse(s, "last")
      ELSE IF block.trees # 1 THEN Refuse(s, "literal context")
      ELSE Compressed(s, name, TRUE)

\* One turn of decompress_concat_payload_with_limit's loop.
LocalTurn(cells, bitLen, s) ==
  LET name == NameAt(cells, s.at)
      t == LocalBlock(cells, s, name)
  IN  IF ~Reading(s) THEN s
      ELSE IF s.at = bitLen THEN [s EXCEPT !.verdict = "ok"]
      ELSE IF s.at > bitLen THEN Refuse(s, "overread")
      ELSE IF name = "none" \/ ~Holds(cells, s.at, name, 1, MetaBlocks[name].bits)
      THEN Refuse(s, "misread")
      ELSE IF Len(t.out) > InputCeiling THEN Refuse(t, "limit")
      ELSE t

\* The states of that loop.  Each turn but the last takes a meta-block.
LocalTurns(cells, bitLen) ==
  LET after[n \in 0 .. BlocksBegun(cells, Len(cells)) + 1] ==
        IF n = 0 THEN Fresh(0) ELSE LocalTurn(cells, bitLen, after[n - 1])
  IN  after

DecodePayload(cells, bitLen) ==
  IF ZeroFrom(cells, bitLen, Len(cells))
  THEN LocalTurns(cells, bitLen)[BlocksBegun(cells, Len(cells)) + 1]
  ELSE Refuse(Fresh(0), "padding")

\* The next meta-block of a whole stream, and the end after the last.
NextBlock(cells, s, name) ==
  CASE MetaBlocks[name].kind = "stored" -> Stored(cells, s, name)
    [] MetaBlocks[name].kind = "metadata" -> SkipMetadata(cells, s, name)
    [] OTHER -> Compressed(s, name, FALSE)

EndStream(cells, s) ==
  IF AlignUp(s.at) = Len(cells) /\ ZeroFrom(cells, s.at, Len(cells))
  THEN [s EXCEPT !.verdict = "ok"] ELSE Refuse(s, "trailing data")

Turn(cells, s) ==
  LET name == NameAt(cells, s.at)
      t == NextBlock(cells, s, name)
  IN  IF ~Reading(s) THEN s
      ELSE IF name = "none" \/ ~Holds(cells, s.at, name, 1, MetaBlocks[name].bits)
      THEN Refuse(s, "misread")
      ELSE IF Reading(t) /\ MetaBlocks[name].last THEN EndStream(cells, t)
      ELSE t

Turns(cells, s) ==
  LET after[n \in 0 .. BlocksBegun(cells, Len(cells)) + 1] ==
        IF n = 0 THEN s ELSE Turn(cells, after[n - 1])
  IN  after

\* A whole stream from bit `s.at` on, to the end of the last meta-block.
Stream(cells, s) == Turns(cells, s)[BlocksBegun(cells, Len(cells)) + 1]

(***************************************************************************)
(* Writing.                                                                *)
(***************************************************************************)
Cells(name, from, to) == [i \in 1 .. to - from + 1 |-> <<name, from + i - 1>>]

\* write_concat_meta_block; the writer stands after the cells.
Written(cells, name) == cells \o Cells(name, 1, MetaBlocks[name].bits)

Header == Cells("header", 1, HeaderBits)

\* write_empty_metadata_meta_block
Aligned(cells) == Padded(Written(cells, "emptyMetadata"))

\* What the writer has after each of the meta-blocks.
AfterBlocks(cells, names) ==
  LET after[i \in 0 .. Len(names)] ==
        IF i = 0 THEN cells ELSE Written(after[i - 1], names[i])
  IN  after
WrittenAll(cells, names) == AfterBlocks(cells, names)[Len(names)]

Part_AlignedIfAny(cells, names) == \* mutant: an empty part writes nothing
  IF names = <<>> THEN cells ELSE Aligned(WrittenAll(cells, names))
Part(cells, names) == Aligned(WrittenAll(cells, names))

\* The input a fragment or part was made from.
AfterContents(names) ==
  LET after[i \in 0 .. Len(names)] ==
        IF i = 0 THEN Fresh(0) ELSE Compressed(after[i - 1], names[i], TRUE)
  IN  after
Content(names) == AfterContents(names)[Len(names)]
Summary(bytes) ==
  <<SubSeq(bytes, 1, Smaller(2, Len(bytes))),
    SubSeq(bytes, Len(bytes) - Smaller(2, Len(bytes)) + 1, Len(bytes))>>

\* encode_fragment
Fragment(names) ==
  LET cells == WrittenAll(<<>>, names)
      content == Content(names)
  IN  [spec |-> Wanted, payload |-> Padded(cells), bitLen |-> Len(cells),
       inputLen |-> Len(content.out), copies |-> content.copies,
       summary |-> Summary(content.out), sound |-> TRUE]

(***************************************************************************)
(* validate_fragment_for_spec, validate_fragment_parts.                    *)
(***************************************************************************)
WithinLimits(f) ==
  f.inputLen <= InputCeiling /\ Len(f.payload) \div 8 <= PayloadBudget

Minimal(f) == AlignUp(f.bitLen) = Len(f.payload)

Matches(f, decoded) ==
  /\ decoded.verdict = "ok"
  /\ decoded.copies = f.copies
  /\ Len(decoded.out) = f.inputLen
  /\ Summary(decoded.out) = f.summary

Valid_AnySymbol(f) == \* mutant: the payload is only decoded, not held to itself
  /\ f.spec = Wanted /\ WithinLimits(f) /\ f.sound /\ Minimal(f)
  /\ LET s == Stream(Padded(Written(SubSeq(f.payload, 1, f.bitLen), "trailer")),
                     Fresh(0))
     IN  Matches(f, s)
Valid(f) ==
  /\ f.spec = Wanted
  /\ WithinLimits(f)
  /\ f.sound
  /\ Minimal(f)
  /\ Matches(f, DecodePayload(f.payload, f.bitLen))

InputLen(fs) ==
  LET sum[i \in 0 .. Len(fs)] == IF i = 0 THEN 0 ELSE sum[i - 1] + fs[i].inputLen
  IN  sum[Len(fs)]

Fits_StagedOnly(fs, f) == InputLen(fs) <= AssembledCap \* mutant: not the new one
Fits(fs, f) == InputLen(Append(fs, f)) <= AssembledCap

\* write_payload_bits of every fragment after the window header.
FragmentBits(f) == SubSeq(f.payload, 1, f.bitLen)
Bodies(fs) ==
  LET body[i \in 0 .. Len(fs)] ==
        IF i = 0 THEN Header ELSE body[i - 1] \o FragmentBits(fs[i])
  IN  body

\* assemble_rfc7932_parts writes part after part.
PartBodies(inputs) ==
  LET body[i \in 0 .. Len(inputs)] ==
        IF i = 0 THEN Header ELSE Part(body[i - 1], inputs[i])
  IN  body

\* write_concat_stream_trailer, finish_into
Trailed(cells) == Padded(Written(cells, "trailer"))

Assembles(fs) ==
  (\A i \in DOMAIN fs : Valid(fs[i])) /\ InputLen(fs) <= AssembledCap

(***************************************************************************)
(* What is assumed: meta-blocks as the format has them, fragments that are *)
(* bits and lengths and otherwise anything, and an encoder whose           *)
(* meta-blocks, in the local mode of concat, only copy from themselves.    *)
(***************************************************************************)
Kinds == {"compressed", "stored", "metadata", "lastEmpty"}

IsOp(op) ==
  IF IsLiteral(op) THEN op.byte \in Nat
  ELSE {op.symbol, op.distance, op.len} \subseteq Nat

IsMetaBlock(block) ==
  /\ block.kind \in Kinds /\ block.last \in BOOLEAN
  /\ block.bits \in Nat \ {0} /\ Len(block.ops) \in Nat
  /\ \A i \in 1 .. Len(block.ops) : IsOp(block.ops[i])
  /\ block.kind = "stored" =>
       ~block.last /\ \A i \in 1 .. Len(block.ops) : IsLiteral(block.ops[i])

Cell == {Zero} \cup (((DOMAIN MetaBlocks) \cup {"header"}) \X Nat)

IsFragment(f) ==
  /\ f.payload \in Seq(Cell)
  /\ f.bitLen \in Nat /\ f.inputLen \in Nat

ASSUME ConcatAssumption ==
  /\ {InputCeiling, PayloadBudget, AssembledCap, MaxStaged} \subseteq Nat
  /\ HeaderBits \in {1, 4, 7} /\ Window \in Nat
  /\ {"emptyMetadata", "trailer"} \subseteq DOMAIN MetaBlocks
  /\ "none" \notin DOMAIN MetaBlocks
  /\ \A name \in DOMAIN MetaBlocks : IsMetaBlock(MetaBlocks[name])
  /\ MetaBlocks["emptyMetadata"].kind = "metadata" /\ ~MetaBlocks["emptyMetadata"].last
  /\ LET trailer == MetaBlocks["trailer"]
     IN  trailer.kind = "lastEmpty" /\ trailer.last /\ trailer.ops = <<>>
  /\ \A f \in Received : IsFragment(f)

ASSUME EncoderAssumption ==
  \A names \in Inputs :
    /\ names \in Seq(DOMAIN MetaBlocks)
    /\ \A i \in 1 .. Len(names) :
         MetaBlocks[names[i]].kind = "compressed" /\ ~MetaBlocks[names[i]].last
    /\ Reading(Content(names))

(***************************************************************************)
(* Actions.                                                                *)
(***************************************************************************)
Init ==
  /\ made = {}
  /\ staged = <<>>
  /\ stream = Nothing

EncodeFragment(names) ==
  /\ WithinLimits(Fragment(names)) /\ Valid(Fragment(names))
  /\ made' = {Fragment(names)}
  /\ stream' = Nothing
  /\ UNCHANGED staged

\* push, for each of `fs` up to the first that is refused.
PushAll(fs) ==
  /\ Len(staged) + Len(fs) <= MaxStaged
  /\ \E n \in 0 .. Len(fs) :
       LET before(i) == staged \o SubSeq(fs, 1, i - 1)
           accepted(i) == Valid(fs[i]) /\ Fits(before(i), fs[i])
       IN  /\ \A i \in 1 .. n : accepted(i)
           /\ n < Len(fs) => ~accepted(n + 1)
           /\ staged' = before(n + 1)
  /\ stream' = Nothing
  /\ UNCHANGED made

HasStored(cells) ==
  \E i \in DOMAIN cells, name \in DOMAIN MetaBlocks :
    cells[i] = <<name, 1>> /\ MetaBlocks[name].kind = "stored"

\* What finish appends to the output for `fs`.
StreamOf(fs) ==
  [cells |-> Trailed(Bodies(fs)[Len(fs)]), parts |-> FALSE,
   starts |-> [i \in DOMAIN fs |-> Len(Bodies(fs)[i - 1])],
   content |-> [i \in DOMAIN fs |-> DecodePayload(fs[i].payload, fs[i].bitLen).out],
   stored |-> [i \in DOMAIN fs |-> HasStored(fs[i].payload)]]

\* finish leaves the assembler as it is: more can be staged, and finished
\* again.
Finish ==
  /\ Assembles(staged)
  /\ stream' = StreamOf(staged)
  /\ UNCHANGED <<made, staged>>

StreamOfParts(inputs) ==
  [cells |-> Trailed(PartBodies(inputs)[Len(inputs)]), parts |-> TRUE,
   starts |-> [i \in DOMAIN inputs |-> Len(PartBodies(inputs)[i - 1])],
   content |-> [i \in DOMAIN inputs |-> Content(inputs[i]).out],
   stored |-> [i \in DOMAIN inputs |-> FALSE]]

\* assemble_rfc7932_parts.  It shares no state with an assembler, so it is
\* called beside an empty one.
AssembleParts(inputs) ==
  /\ made = {} /\ staged = <<>>
  /\ stream' = StreamOfParts(inputs)
  /\ UNCHANGED <<made, staged>>

(***************************************************************************)
(* Properties.                                                             *)
(***************************************************************************)

\* The stream written last, from the start of part i on, decodes to the
\* contents of that part and those after it.
DecodesFrom(i) ==
  LET s == Stream(stream.cells, Fresh(stream.starts[i]))
  IN  s.verdict = "ok" /\ s.out = FlattenSeq(SubSeq(stream.content, i, Len(stream.content)))

\* A stored meta-block's padding is right where its fragment starts at a byte.
Misplaced == \E i \in DOMAIN stream.starts :
  stream.stored[i] /\ stream.starts[i] % 8 # 0

\* Whatever fragments the assembler accepted, from wherever and in whichever
\* order and number of finishes, the stream it writes is Brotli and decodes
\* to their contents in order (cat/lib.rs:512-545, FORMAT.md:126-138); only
\* stored meta-blocks away from their byte boundary are excepted.
AssembledDecodes ==
  stream.cells # <<>> /\ ~Misplaced =>
    LET s == Stream(stream.cells, Fresh(HeaderBits))
    IN  s.verdict = "ok" /\ s.out = FlattenSeq(stream.content)

\* No fragment or part depends on what precedes it: a decoder that starts at
\* any of them, with nothing decoded and the initial distances, reads the
\* rest of the stream; and the parts of assemble_rfc7932_parts start at bytes
\* (cat/lib.rs:637-639, FORMAT.md:165-167).
PartsStandAlone ==
  /\ ~Misplaced => \A i \in DOMAIN stream.starts : DecodesFrom(i)
  /\ stream.parts => \A i \in DOMAIN stream.starts : i > 1 => stream.starts[i] % 8 = 0

\* What push or push_all staged, finish assembles: also after a push_all
\* that failed half-way (cat/lib.rs:464-490, 507).
FinishNeverFails == Assembles(staged)

\* FORMAT.md:149, "uncompressed meta-blocks are allowed", and :138,
\* "assembled output is standard RFC 7932 Brotli".
StoredBlocksAssemble ==
  stream.cells # <<>> => Stream(stream.cells, Fresh(HeaderBits)).verdict = "ok"

Next ==
  \/ \E names \in Inputs : EncodeFragment(names)
  \/ \E n \in 1 .. 2 : \E fs \in [1 .. n -> made \cup Received] : PushAll(fs)
  \/ Finish
  \/ \E n \in 0 .. MaxStaged : \E inputs \in [1 .. n -> Inputs] : AssembleParts(inputs)

Spec == Init /\ [][Next]_vars
=============================================================================
