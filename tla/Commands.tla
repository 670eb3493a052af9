------------------------------ MODULE Commands ------------------------------
(***************************************************************************)
(* A meta-block's commands, from the tokens of the encoder's matchers to   *)
(* what the decoder makes of them: the writers count symbols and plan the  *)
(* bits (crates/encode/src/encode: tokens.rs, two_pass.rs, q1.rs) or write *)
(* as they go with codes made before (one_pass.rs); the decoder reads back *)
(* the lengths and distances (decode_commands in                           *)
(* crates/decode/src/compressed.rs).                                       *)
(*                                                                         *)
(* Prefix codes are those of PrefixCodes: here a symbol goes out as it is, *)
(* extra bits one by one and a run of literals as its length.              *)
(***************************************************************************)
EXTENDS CommandCodes, DistanceRing, PrefixWriter

CONSTANTS
  Writers,   \* form, code, symbol limit, most commands with static codes,
             \* block length, npostfix, ndirect, and `steps`, the kinds of
             \* the tokens it gets one after the other
  TokensOf(_),  \* the tokens of a kind
  Omitted    \* of each distance that is a word's, what it omits of the word

ASSUME CommandsAssumption ==
  /\ \A w \in Writers :
       /\ w.form \in {"tokens", "two_pass", "one_pass", "q1", "literals", "one_pass_literals",
                      "foreign"}
       /\ w.code \in {"flat", "short", "long", "previous", "counts"}
  /\ \A d \in DOMAIN Omitted : Omitted[d] \in Nat

VARIABLES
  writer,    \* the writer in use
  taken,     \* tokens it got
  meant,     \* what they say: runs of literals and of copies by distance
  last4,     \* the encoder's view of the last four distances
  open,      \* the meta-block so far
  blocks,    \* the meta-blocks written
  reader     \* the decoder

commandVars == <<writer, taken, meant, last4, open, blocks, reader>>

(***************************************************************************)
(* What a stream is made of.                                               *)
(***************************************************************************)
Piece(kind, value) == [kind |-> kind, value |-> value, tree |-> 0]
BitPieces(bits) == [i \in DOMAIN bits |-> Piece("bit", bits[i])]
LiteralPieces(n) == IF n = 0 THEN <<>> ELSE <<Piece("literals", n)>>

\* Runs of the same kind, 0 for literals, are one run.
Joined(runs, kind, n) ==
  IF n = 0 THEN runs
  ELSE IF runs # <<>> /\ runs[Len(runs)].kind = kind
       THEN [runs EXCEPT ![Len(runs)].len = @ + n]
       ELSE Append(runs, [kind |-> kind, len |-> n])

Counted(counts, symbol) ==
  IF symbol \in DOMAIN counts THEN [counts EXCEPT ![symbol] = @ + 1] ELSE counts @@ (symbol :> 1)

Nothing == [pieces |-> <<>>, symbols |-> 0, held |-> 0, len |-> 0, hasCopy |-> FALSE,
            commands |-> <<>>, distances |-> <<>>, extra |-> 0]

\* `pieces` of a command, or of a part of one, with what it counts.
Add(block, pieces, command, distance, extra) ==
  [block EXCEPT !.pieces = @ \o pieces, !.extra = @ + extra,
     !.commands = IF command = <<>> THEN @ ELSE Counted(@, command[1]),
     !.distances = IF distance = <<>> THEN @ ELSE Counted(@, distance[1])]

\* tokens.rs and two_pass.rs Command: fields of a word of 64 bits.
HeadOf(symbol, insert, copy) ==
  [symbol |-> symbol % 2 ^ 10, width |-> (insert.bits + copy.bits) % 2 ^ 6,
   extra |-> Bits(insert.bits, insert.extra) \o Bits(copy.bits, copy.extra)]
TailOf(c) == [symbol |-> c.code % 2 ^ 6, width |-> c.bits % 2 ^ 5, extra |-> c.extra]

\* two_pass.rs write_command, and the distance after the literals.
WriteCommand(head) ==
  <<Piece("command", head.symbol)>> \o BitPieces(SubSeq(head.extra, 1, head.width))
WriteDistance(d) == <<Piece("distance", d.symbol)>> \o BitPieces(Bits(d.width, d.extra))

(***************************************************************************)
(* tokens.rs Writer.  `form` is how the collector gives a distance: as a   *)
(* ring code, of which 0 is the last distance, or in full.                 *)
(***************************************************************************)
FULL == 16
DistanceOf(token, form) ==
  IF form = FULL THEN DistanceCode(token.distance) ELSE Code(form, 0, 0)

PushToken(block, token, form) ==
  LET insert == InsertCode(token.insert)
      copy == IF token.copy = 0 THEN Code(0, 0, 0) ELSE CopyCode(token.copy + token.omit)
      implicit == IF token.copy = 0 THEN insert.code < 8
                  ELSE form = 0 /\ insert.code < 8 /\ copy.code < 16
      symbol == IF implicit THEN ImplicitSymbol(insert.code, copy.code)
                ELSE ExplicitSymbol(insert.code, copy.code)
      d == DistanceOf(token, form)
      distance == IF implicit \/ token.copy = 0 THEN <<>> ELSE <<d.code>>
  IN  [Add(block,
           WriteCommand(HeadOf(symbol, insert, copy)) \o LiteralPieces(token.insert)
             \o (IF distance = <<>> THEN <<>> ELSE WriteDistance(TailOf(d))),
           <<symbol>>, distance,
           insert.bits + copy.bits + (IF distance = <<>> THEN 0 ELSE d.bits))
       EXCEPT !.symbols = @ + token.insert + 1, !.held = @ + 1,
              !.len = @ + token.insert + token.copy, !.hasCopy = @ \/ token.copy # 0]

(***************************************************************************)
(* two_pass.rs Commands.  `tail` has 17 bits for each of the lengths.      *)
(***************************************************************************)
PushCopy(block, token) ==
  LET insert == InsertCode(token.insert)
      copy == CopyCode(token.copy)
      isLast == token.distance = last4[4]
      implicit == isLast /\ insert.code < 8 /\ copy.code < 16
      d == IF isLast THEN Code(0, 0, 0) ELSE DistanceCode(token.distance)
      symbol == IF implicit THEN ImplicitSymbol(insert.code, copy.code)
                ELSE CommandCell(insert.code, copy.code) * 64 + Low(insert.code, copy.code)
      distance == IF implicit THEN <<>> ELSE <<d.code>>
  IN  [Add(block,
           WriteCommand(HeadOf(symbol, insert, copy)) \o LiteralPieces(token.insert % 2 ^ 17)
             \o (IF symbol < 128 THEN <<>> ELSE WriteDistance(TailOf(d))),
           <<symbol>>, distance,
           insert.bits + copy.bits + (IF implicit THEN 0 ELSE d.bits))
       EXCEPT !.len = @ + token.insert + token.copy, !.hasCopy = TRUE]

\* The literals after the last copy.
PushLiterals(block, n) ==
  LET insert == InsertCode(n)
      symbol == IF insert.code < 8 THEN insert.code * 8
                ELSE CommandCell(insert.code, 0) * 64 + (insert.code % 8) * 8
  IN  [Add(block, WriteCommand(HeadOf(symbol, insert, Code(0, 0, 0))) \o LiteralPieces(n),
           <<symbol>>, <<>>, insert.bits)
       EXCEPT !.len = @ + n]

(***************************************************************************)
(* one_pass.rs Commands: as it goes, by tables of codes that have an entry *)
(* for each insert and copy code (CodeTables).                             *)
(***************************************************************************)
TableSymbol(implicit, index) ==
  IF implicit THEN ImplicitSymbol(index \div 16, index % 16)
  ELSE ExplicitSymbol(index \div 32, index % 32)

WriteCopy(block, token) ==
  LET insert == InsertCode(token.insert)
      copy == CopyCode(token.copy)
      isLast == token.distance = last4[4]
      implicit == isLast /\ insert.code < 8 /\ copy.code < 16
      symbol == TableSymbol(implicit, insert.code * (IF implicit THEN 16 ELSE 32) + copy.code)
      d == IF isLast THEN Code(0, 0, 0) ELSE DistanceCode(token.distance)
      distance == IF implicit THEN <<>> ELSE <<d.code>>
  IN  [Add(block,
           <<Piece("command", symbol)>> \o BitPieces(Bits(insert.bits, insert.extra))
             \o BitPieces(Bits(copy.bits, copy.extra)) \o LiteralPieces(token.insert)
             \o (IF implicit THEN <<>>
                 ELSE <<Piece("distance", d.code)>> \o BitPieces(Bits(d.bits, d.extra))),
           <<symbol>>, distance, insert.bits + copy.bits + (IF implicit THEN 0 ELSE d.bits))
       EXCEPT !.len = @ + token.insert + token.copy, !.hasCopy = TRUE]

WriteInsert(block, n) ==
  LET insert == InsertCode(n)
      implicit == insert.code < 8
      symbol == TableSymbol(implicit, insert.code * (IF implicit THEN 16 ELSE 32))
  IN  [Add(block,
           <<Piece("command", symbol)>> \o BitPieces(Bits(insert.bits, insert.extra))
             \o LiteralPieces(n),
           <<symbol>>, <<>>, insert.bits)
       EXCEPT !.len = @ + n]

(***************************************************************************)
(* q1.rs Batch: internal commands, which write_batch_body writes with the  *)
(* extra bits of their codes; inserts take the next span of literals.      *)
(***************************************************************************)
Batched(token, hasCopy) ==
  IF token.insert = 0 THEN EmitCopyLen(token.copy) \o EmitDistance(token.distance)
  ELSE EmitInsertLen(token.insert)
         \o (IF hasCopy /\ token.distance = last4[4]
             THEN <<Internal(INTERNAL_DISTANCE_REUSE_CODE, 0)>> ELSE EmitDistance(token.distance))
         \o EmitCopyLenLastDistance(token.copy)

WriteInternal(block, command, span) ==
  LET code == command.code
      width == INTERNAL_NUM_EXTRA_BITS[code + 1]
      isDistance == code >= INTERNAL_DISTANCE_REUSE_CODE
  IN  Add(block,
          <<IF isDistance THEN Piece("distance", code - 64)
            ELSE Piece("command", CommandSymbol(code))>>
            \o BitPieces(Bits(width, command.extra))
            \o (IF code < 24 THEN LiteralPieces(span) ELSE <<>>),
          IF isDistance THEN <<>> ELSE <<CommandSymbol(code)>>,
          IF isDistance THEN <<code - 64>> ELSE <<>>, width)

WriteBatch(block, commands, span) ==
  LET After[i \in 0 .. Len(commands)] ==
        IF i = 0 THEN block ELSE WriteInternal(After[i - 1], commands[i], span)
  IN  After[Len(commands)]

\* advance_distance_ring
AdvanceRing(ring, commands) ==
  LET explicit == SelectSeq(commands, LAMBDA c : c.code >= INTERNAL_DISTANCE_CODE_BASE)
  IN  IF explicit = <<>> THEN ring ELSE Push(ring, EmittedDistance(explicit[1]))

(***************************************************************************)
(* Other encoders may use every command symbol, and distance codes with    *)
(* postfix bits and direct codes (RFC 7932, section 4): the inverse of the *)
(* decoder's, as the reference encoder has it.                             *)
(***************************************************************************)
ForeignDistance(distance) ==
  LET postfix == writer.npostfix
      x == 2 ^ (postfix + 2) + distance - 1 - writer.ndirect
      bucket == Log2(x) - 1
      prefix == (x \div 2 ^ bucket) % 2
      bits == bucket - postfix
  IN  IF distance <= writer.ndirect THEN Code(15 + distance, 0, 0)
      ELSE Code(16 + writer.ndirect + (2 * (bits - 1) + prefix) * 2 ^ postfix + (x % 2 ^ postfix),
                bits, (x - (2 + prefix) * 2 ^ bucket) \div 2 ^ postfix)

\* One distance tree for copies of two, three, four, and more bytes each.
ForeignCopy(block, token, reuse) ==
  LET insert == InsertLengthCode(token.insert)
      copy == CopyCode(token.copy + token.omit)
      d == ForeignDistance(token.distance)
      symbol == IF reuse THEN ImplicitSymbol(insert.code, copy.code)
                ELSE ExplicitSymbol(insert.code, copy.code)
      tree == Lesser(token.copy + token.omit - 2, 3)
  IN  [Add(block,
           <<Piece("command", symbol)>> \o BitPieces(Bits(insert.bits, insert.extra))
             \o BitPieces(Bits(copy.bits, copy.extra)) \o LiteralPieces(token.insert)
             \o (IF reuse THEN <<>>
                 ELSE <<[Piece("distance", d.code) EXCEPT !.tree = tree]>>
                        \o BitPieces(Bits(d.bits, d.extra))),
           <<symbol>>, IF reuse THEN <<>> ELSE <<d.code>>,
           insert.bits + copy.bits + (IF reuse THEN 0 ELSE d.bits))
       EXCEPT !.len = @ + token.insert + token.copy, !.hasCopy = TRUE]
(***************************************************************************)
(* Meta-blocks without copies: one command, whose symbol is the only one   *)
(* of its code (mod.rs, one_pass.rs write_literal_block).                  *)
(***************************************************************************)
LiteralBlock(n) ==
  LET insert == InsertLengthCode(n)
      symbol == CommandSymbolForInsert(insert.code)
  IN  [Add(Nothing, <<Piece("command", symbol)>> \o BitPieces(Bits(insert.bits, insert.extra))
             \o LiteralPieces(n), <<symbol>>, <<>>, insert.bits)
       EXCEPT !.len = n]

WriteLiteralBlock(n) ==
  LET insert == InsertCode(n)
      symbol == InsertOnlySymbol(insert.code)
  IN  [Add(Nothing, <<Piece("command", symbol)>> \o BitPieces(Bits(insert.bits, insert.extra))
             \o LiteralPieces(n), <<symbol>>, <<>>, insert.bits)
       EXCEPT !.len = n]

(***************************************************************************)
(* Meta-blocks.                                                            *)
(***************************************************************************)
\* The symbols that have codes: those that were counted, those of a static
\* or fixed code, or seeds (Batch::write, Counts::write_codes).  A code by
\* the counts of the block before has seeds for all that a block may hold.
HasLength(lengths) == {s \in DOMAIN lengths : lengths[s] # 0}
FixedCodeOf(code) == CASE code = "flat" -> FLAT [] code = "short" -> SHORT [] code = "long" -> LONG
\* A bug: the symbols of the farthest distances are left out.
LONG_DISTANCE_SYMBOLS_Short == 16 + 2 * (17 - 1)
LONG_DISTANCE_SYMBOLS == 16 + 2 * (18 - 1)
CountsBefore == IF blocks = <<>> THEN Nothing ELSE blocks[Len(blocks)].block

CodedCommands(block) ==
  CASE writer.form = "one_pass" ->
         IF writer.code = "previous"
         THEN HasLength(LONG.commands) \cup DOMAIN CountsBefore.commands
         ELSE HasLength(FixedCodeOf(writer.code).commands)
    [] writer.form = "tokens" /\ block.held \in 1 .. writer.static -> 0 .. 703
    [] writer.form = "q1" /\ block.hasCopy -> DOMAIN block.commands \cup {CommandSymbol(1), CommandSymbol(2)}
    [] OTHER -> DOMAIN block.commands

CodedDistances(block) ==
  CASE writer.form = "one_pass" ->
         IF writer.code = "previous"
         THEN {0} \cup 16 .. LONG_DISTANCE_SYMBOLS - 1 \cup DOMAIN CountsBefore.distances
         ELSE HasLength(FixedCodeOf(writer.code).distances)
    [] writer.form = "tokens" /\ block.held \in 1 .. writer.static -> 0 .. 63
    [] writer.form = "q1" /\ block.hasCopy -> DOMAIN block.distances \cup {0, 84 - 64}
    [] OTHER -> DOMAIN block.distances

WriteMetaBlock(block) ==
  Append(blocks, [header |-> MetaBlockLen(block.len), block |-> block,
                  commands |-> CodedCommands(block), distances |-> CodedDistances(block)])

(***************************************************************************)
(* Writing.                                                                *)
(***************************************************************************)
Step(token) ==
  /\ reader.st = "writing" /\ taken < Len(writer.steps)
  /\ taken' = taken + 1
  /\ meant' = Joined(Joined(meant, 0, token.insert), token.distance, token.copy)
  /\ UNCHANGED <<writer, reader>>

\* The decoder's ring after a copy with this symbol.
RingWith(token, symbol) ==
  RingAfter(last4, symbol, IF token.distance \in DOMAIN Omitted THEN "word" ELSE "output",
            token.distance)

\* How a collector may give a distance.
Forms(token) ==
  IF token.copy = 0 \/ token.distance \in DOMAIN Omitted THEN {FULL}
  ELSE {FULL} \cup {c \in 0 .. 15 : Resolve(last4, c) = token.distance}

\* Writer::push: a full meta-block goes out first.
WriterPush(token, form) ==
  LET full == open.held > 0 /\ open.symbols >= writer.limit
      block == IF full THEN [Nothing EXCEPT !.hasCopy = open.hasCopy] ELSE open
  IN  /\ writer.form = "tokens" /\ Step(token)
      /\ token.copy > 0 \/ token.insert > 0
      /\ open' = PushToken(block, token, form)
      /\ blocks' = IF full THEN WriteMetaBlock(open) ELSE blocks
      /\ last4' = IF token.copy = 0 THEN last4
                  ELSE RingWith(token, form)

\* two_pass.rs, one_pass.rs and q1.rs: their copies, then their literals.
TwoPassPush(token) ==
  /\ writer.form = "two_pass" /\ Step(token)
  /\ open' = IF token.copy > 0 THEN PushCopy(open, token)
             ELSE IF token.insert > 0 THEN PushLiterals(open, token.insert) ELSE open
  /\ last4' = IF token.copy = 0 \/ token.distance = last4[4] THEN last4
              ELSE Push(last4, token.distance)
  /\ UNCHANGED blocks

\* write_long starts a meta-block where the one before is full; only its end
\* and the input's have literals without a copy.
OnePassPush(token) ==
  LET full == open.len = writer.block
      block == IF full THEN Nothing ELSE open
  IN  /\ writer.form = "one_pass" /\ Step(token)
      /\ block.len + token.insert + token.copy <= writer.block
      /\ token.copy > 0 \/ taken + 1 = Len(writer.steps)
           \/ block.len + token.insert = writer.block
      /\ open' = IF token.copy > 0 THEN WriteCopy(block, token)
                 ELSE IF token.insert > 0 THEN WriteInsert(block, token.insert) ELSE block
      /\ last4' = IF token.copy = 0 \/ token.distance = last4[4] THEN last4
                  ELSE Push(last4, token.distance)
      /\ blocks' = IF full THEN WriteMetaBlock(open) ELSE blocks

BatchPush(token) ==
  LET commands == IF token.copy > 0 THEN Batched(token, open.hasCopy)
                  ELSE IF token.insert > 0 THEN EmitInsertLen(token.insert) ELSE <<>>
  IN  /\ writer.form = "q1" /\ Step(token)
      /\ open' = [WriteBatch(open, commands, token.insert) EXCEPT
                    !.len = @ + token.insert + token.copy, !.hasCopy = @ \/ token.copy > 0]
      /\ last4' = AdvanceRing(last4, commands)
      /\ UNCHANGED blocks

ForeignPush(token, reuse) ==
  /\ writer.form = "foreign" /\ Step(token) /\ token.copy > 0
  /\ reuse => token.distance = last4[4] /\ InsertLengthCode(token.insert).code < 8
               /\ CopyCode(token.copy).code < 16
  /\ open' = ForeignCopy(open, token, reuse)
  /\ last4' = RingWith(token, IF reuse THEN 0 ELSE 1)
  /\ UNCHANGED blocks

\* A block that is literals only.
LiteralsPush(token) ==
  /\ Step(token) /\ token.copy = 0
  /\ \/ writer.form = "literals" /\ open' = LiteralBlock(token.insert)
     \/ writer.form = "one_pass_literals" /\ open' = WriteLiteralBlock(token.insert)
  /\ UNCHANGED <<last4, blocks>>

\* Input without copies goes out as literals only (Writer::finish, and
\* mod.rs for a batch).
Finish ==
  LET block == IF writer.form \in {"tokens", "q1"} /\ ~open.hasCopy THEN LiteralBlock(open.len)
               ELSE open
  IN  /\ reader.st = "writing" /\ taken = Len(writer.steps)
      /\ blocks' = IF open.len = 0 THEN blocks ELSE WriteMetaBlock(block)
      /\ reader' = [reader EXCEPT !.st = "reading"]
      /\ UNCHANGED <<writer, taken, meant, last4, open>>

(***************************************************************************)
(* Reading.                                                                *)
(***************************************************************************)
Pieces == blocks[reader.block].block.pieces

ReadBlock ==
  LET len == ReadMetaBlockLen(blocks[reader.block + 1].header, 0)
  IN  /\ reader.st = "reading" /\ reader.left = 0
      /\ reader.block < Len(blocks)
      /\ reader' = IF len = 0 \/ (reader.block > 0 /\ reader.at # Len(Pieces))
                   THEN [reader EXCEPT !.st = "failed"]
                   ELSE [reader EXCEPT !.block = @ + 1, !.at = 0, !.left = len]
      /\ UNCHANGED <<writer, taken, meant, last4, open, blocks>>

ReadEnd ==
  /\ reader.st = "reading" /\ reader.left = 0 /\ reader.block = Len(blocks)
  /\ reader' = [reader EXCEPT !.st = IF reader.block = 0 \/ reader.at = Len(Pieces)
                                     THEN "done" ELSE "failed"]
  /\ UNCHANGED <<writer, taken, meant, last4, open, blocks>>

\* The kind of the piece after the first `at`, and the `n` bits there.
IsNext(at, kind) == at < Len(Pieces) /\ Pieces[at + 1].kind = kind
AreBits(at, n) == \A i \in at .. at + n - 1 : IsNext(i, "bit")
Extra(at, n) == Peek([i \in DOMAIN Pieces |-> Pieces[i].value], at, n)

\* read_distance after the literals: the distance, zero for an error, the
\* symbol, and where it ends.
ReadDistance(prefix, at) ==
  LET piece == Pieces[at + 1]
      symbol == piece.value
      tree == IF writer.form = "foreign" THEN prefix.context ELSE 0
      bits == DistanceBits(symbol, writer.npostfix, writer.ndirect)
      bad == [distance |-> 0, symbol |-> 0, at |-> at]
  IN  IF prefix.reuse THEN [distance |-> Resolve(reader.ring, 0), symbol |-> 0, at |-> at]
      ELSE IF ~IsNext(at, "distance") THEN bad
      ELSE IF piece.tree # tree THEN bad
      ELSE IF symbol < 16
           THEN [distance |-> Resolve(reader.ring, symbol), symbol |-> symbol, at |-> at + 1]
      ELSE IF bits > 24 \/ ~AreBits(at + 1, bits) THEN bad
      ELSE [distance |-> DistanceRead(symbol, writer.npostfix, writer.ndirect,
                                      Extra(at + 1, bits)),
            symbol |-> symbol, at |-> at + 1 + bits]

\* One turn of decode_commands' loop.  The commands of a meta-block end with
\* its length, which may be after the literals of one.
ReadCommand ==
  /\ reader.st = "reading" /\ reader.left > 0
  /\ \E prefix \in {CommandPrefix(IF IsNext(reader.at, "command")
                                  THEN Pieces[reader.at + 1].value ELSE 0)} :
       LET from == reader.at + 1
           insert == prefix.insertBase + Extra(from, prefix.insertBits)
           copyAt == from + prefix.insertBits
           lenRead == prefix.copyBase + Extra(copyAt, prefix.copyBits)
           literalsAt == copyAt + prefix.copyBits
           after == literalsAt + (IF insert = 0 THEN 0 ELSE 1)
           readable == /\ IsNext(reader.at, "command")
                       /\ AreBits(from, prefix.insertBits + prefix.copyBits)
                       /\ insert <= reader.left
                       /\ insert > 0 => /\ IsNext(literalsAt, "literals")
                                        /\ Pieces[literalsAt + 1].value = insert
           runs == Joined(reader.runs, 0, insert)
           d == ReadDistance(prefix, after)
           copy == IF d.distance \in DOMAIN Omitted THEN lenRead - Omitted[d.distance] ELSE lenRead
       IN  reader' =
             IF ~readable THEN [reader EXCEPT !.st = "failed"]
             ELSE IF insert = reader.left
                  THEN [reader EXCEPT !.at = after, !.left = 0, !.runs = runs]
             ELSE IF d.distance = 0 \/ copy > reader.left - insert
                  THEN [reader EXCEPT !.st = "failed"]
             ELSE [reader EXCEPT !.at = d.at, !.left = @ - insert - copy,
                     !.runs = Joined(runs, d.distance, copy),
                     !.ring = RingAfter(@, d.symbol,
                                        IF d.distance \in DOMAIN Omitted THEN "word" ELSE "output",
                                        d.distance)]
  /\ UNCHANGED <<writer, taken, meant, last4, open, blocks>>

CommandsInit ==
  /\ writer \in Writers
  /\ taken = 0 /\ meant = <<>> /\ last4 = LAST_DISTANCES /\ open = Nothing /\ blocks = <<>>
  /\ reader = [st |-> "writing", block |-> 0, at |-> 0, left |-> 0, runs |-> <<>>,
               ring |-> LAST_DISTANCES]

CommandsIdle ==
  /\ writer = Nothing /\ taken = 0 /\ meant = <<>> /\ last4 = <<>> /\ open = Nothing
  /\ blocks = <<>> /\ reader = [st |-> "idle"]

NextTokens == IF taken < Len(writer.steps) THEN TokensOf(writer.steps[taken + 1]) ELSE {}

CommandsNext ==
  \/ \E token \in NextTokens :
       \/ \E form \in Forms(token) : WriterPush(token, form)
       \/ TwoPassPush(token)
       \/ OnePassPush(token)
       \/ BatchPush(token)
       \/ \E reuse \in BOOLEAN : ForeignPush(token, reuse)
       \/ LiteralsPush(token)
  \/ Finish
  \/ ReadBlock
  \/ ReadCommand
  \/ ReadEnd

(***************************************************************************)
(* Properties.                                                             *)
(***************************************************************************)
\* Whatever the decoder has read is what the tokens say, literals, copies
\* and their distances, over lengths at the ends of every code, commands
\* that reuse a distance or split a copy, and meta-blocks of any length; at
\* the end it has read all, and has the ring that the encoder counts on.
CommandsDecode ==
  /\ reader.st # "failed"
  /\ reader.st = "done" => reader.runs = meant /\ reader.ring = last4

\* Every symbol written has a code in its meta-block, and symbols and extra
\* bits are as many as were counted: the room for a body is made by that
\* count (write_bits_with), and not checked again.
Occurrences(pieces, kind, symbol) ==
  Cardinality({i \in DOMAIN pieces : pieces[i].kind = kind /\ pieces[i].value = symbol})
BodyAsPlanned ==
  \A b \in DOMAIN blocks :
    LET block == blocks[b].block
        Symbols(kind) == {block.pieces[i].value :
                            i \in {i \in DOMAIN block.pieces : block.pieces[i].kind = kind}}
    IN  /\ Symbols("command") \subseteq blocks[b].commands
        /\ Symbols("distance") \subseteq blocks[b].distances
        /\ Symbols("command") = DOMAIN block.commands
        /\ Symbols("distance") = DOMAIN block.distances
        /\ \A s \in DOMAIN block.commands : Occurrences(block.pieces, "command", s) = block.commands[s]
        /\ \A s \in DOMAIN block.distances :
             Occurrences(block.pieces, "distance", s) = block.distances[s]
        /\ Cardinality({i \in DOMAIN block.pieces : block.pieces[i].kind = "bit"}) = block.extra
=============================================================================
