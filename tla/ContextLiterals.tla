--------------------------- MODULE ContextLiterals ---------------------------
(***************************************************************************)
(* Meta-blocks of literals only (crates/encode/src/encode): with one       *)
(* literal code (mod.rs), or with one of several by the top six bits of    *)
(* the byte before (context_literals.rs), and stored ones for inputs that  *)
(* do not compress.                                                        *)
(*                                                                         *)
(* What a writer appends is a record: the bits up to the literals, the     *)
(* literals' bits one by one, and the room it made for them.               *)
(***************************************************************************)
EXTENDS CommandCodes, PrefixWriter

LOCAL INSTANCE FiniteSetsExt

CONSTANT SamplePeriod   \* SAMPLE_PERIOD

ASSUME ContextLiteralsAssumption == SamplePeriod \in Nat \ {0}

CONTEXTS == 64
CONTEXT_MODE_MSB6 == 1
LiteralSymbols == 0 .. 255
DISTANCE_CODES == 64

(***************************************************************************)
(* Prefix codes in lists.                                                  *)
(***************************************************************************)
\* symbol_codes_from_lengths_and_symbols; a code of no bits stays one.
ListedCodes(lengths) ==
  IF \A s \in DOMAIN lengths : lengths[s] = 0
  THEN [s \in DOMAIN lengths |-> [len |-> 0, bits |-> 0]]
  ELSE CodesOf(lengths)

\* write_simple_prefix_code_symbols, with the codes of simple_symbol_codes.
ListedSimple(symbols, alphabet) ==
  LET lens == <<<<0>>, <<1, 1>>, <<1, 2, 2>>, <<2, 2, 2, 2>>>>[Len(symbols)]
      Place(s) == CHOOSE i \in DOMAIN symbols : symbols[i] = s
  IN  Written(Bits(2, 1) \o Bits(2, Len(symbols) - 1)
                \o Flat([i \in DOMAIN symbols |-> Bits(AlphabetBits(alphabet), symbols[i])])
                \o (IF Len(symbols) = 4 THEN Bits(1, 0) ELSE <<>>),
              ListedCodes([s \in {symbols[i] : i \in DOMAIN symbols} |-> lens[Place(s)]]))

\* limited_huffman_code_lengths
LimitedLengths(counts, maxBits) == RaisedLengths(counts, maxBits, 1)

\* write_complex_prefix_code_lengths writes the tree as
\* write_encoded_code_length_tree does.
ListedComplex(lengths) == Written(TreeHeader(CodeLengthTree(lengths)), ListedCodes(lengths))

\* write_prefix_code_from_frequencies
WriteListed(counts) ==
  LET used == UsedOf(counts)
  IN  IF used = <<>> THEN ListedSimple(<<0>>, Size(counts))
      ELSE IF Len(used) <= MAX_SIMPLE_PREFIX_SYMBOLS THEN ListedSimple(used, Size(counts))
      ELSE ListedComplex(LimitedLengths(counts, MaxCodeBits))

\* write_simple_prefix_code_single
SingleCode(alphabet, symbol) == Bits(2, 1) \o Bits(2, 0) \o Bits(AlphabetBits(alphabet), symbol)

CodeBits(code) == Bits(code.len, code.bits)

(***************************************************************************)
(* Headers.                                                                *)
(***************************************************************************)
\* write_var_len_u8
VarLenBits(value) ==
  IF value = 0 THEN Bits(1, 0)
  ELSE LET width == Log2(value) IN Bits(1, 1) \o Bits(3, width) \o Bits(width, value - 2 ^ width)

\* write_block_and_context_header: one block type each, one context.
BlockAndContextHeader ==
  VarLenBits(0) \o VarLenBits(0) \o VarLenBits(0) \o Bits(2, 0) \o Bits(4, 0) \o Bits(2, 0)
    \o VarLenBits(0) \o VarLenBits(0)

\* write_context_map: `map` of contexts to `codes` codes.
ContextMapBits(codes, map) ==
  LET code == WriteListed([c \in 0 .. codes - 1 |->
                             Cardinality({context \in 0 .. CONTEXTS - 1 : map[context] = c})])
  IN  VarLenBits(codes - 1) \o
        IF codes = 1 THEN <<>>
        ELSE Bits(1, 0) \o code.bits
               \o Flat([i \in 1 .. CONTEXTS |-> CodeBits(code.codes[map[i - 1]])])
               \o Bits(1, 0)

\* The command and distance codes of one symbol each, and the command.
InsertOnlyCommand(len) ==
  LET insert == InsertLengthCode(len)
  IN  SingleCode(CommandAlphabet, CommandSymbolForInsert(insert.code))
        \o SingleCode(DISTANCE_CODES, 0) \o Bits(insert.bits, insert.extra)

(***************************************************************************)
(* One literal code.                                                       *)
(***************************************************************************)
\* literal_histogram; its tables for every eighth byte add up to this.
Histogram(input) == [s \in LiteralSymbols |-> Cardinality({i \in DOMAIN input : input[i] = s})]

Coded(header, literals, room) == [header |-> header, literals |-> literals, room |-> room]

OneCode(input, code, room) ==
  Coded(MetaBlockLen(Len(input)) \o BlockAndContextHeader \o code.bits
          \o InsertOnlyCommand(Len(input)),
        [i \in DOMAIN input |-> CodeBits(code.codes[input[i]])], room)

\* write_compressed_literal_meta_block; it makes no room ahead.
CompressedLiterals(input) == OneCode(input, WriteListed(Histogram(input)), <<>>)

\* write_fast_compressed_literal_meta_block: room for the bits that the
\* counts say.
FastCompressedLiterals(input) ==
  LET counts == Histogram(input)
      code == WriteFast(counts)
  IN  OneCode(input, code,
        <<MapThenSumSet(LAMBDA s : counts[s] * code.codes[s].len, DOMAIN code.codes)>>)

\* write_uncompressed_meta_block after `lead` bits.
StoredBlock(input, lead) ==
  LET len == MetaBlockLen(Len(input))
      header == SubSeq(len, 1, Len(len) - 1) \o Bits(1, 1)
  IN  header \o Bits((-(lead + Len(header))) % 8, 0)
        \o Flat([i \in DOMAIN input |-> Bits(8, input[i])])

(***************************************************************************)
(* Codes of contexts.                                                      *)
(***************************************************************************)
ByteBefore(input, i, previous) == IF i = 1 THEN previous ELSE input[i - 1]

\* count and Merger::new: the counts of the contexts that have any, over all
\* of the input or the first `sample` bytes of each period.
ContextCounts(input, previous, sample) ==
  LET counted == {i \in DOMAIN input : (i - 1) % SamplePeriod < sample}
      Context(i) == ByteBefore(input, i, previous) \div 4
  IN  [context \in {Context(i) : i \in counted} |->
         LET here == {i \in counted : Context(i) = context}
         IN  [s \in LiteralSymbols |-> Cardinality({i \in here : input[i] = s})]]

\* `counts` by the context that holds each code, and the owner of each
\* context.
NewMerger(counts) == [counts |-> counts, owners |-> [context \in 0 .. CONTEXTS - 1 |-> context]]

\* Merger::merge
MergeInto(merger, a, b) ==
  [counts |-> [c \in DOMAIN merger.counts \ {b} |->
                 IF c = a THEN [s \in LiteralSymbols |-> merger.counts[a][s] + merger.counts[b][s]]
                 ELSE merger.counts[c]],
   owners |-> [context \in DOMAIN merger.owners |->
                 IF merger.owners[context] = b THEN a ELSE merger.owners[context]]]

\* The pairs that Merger::run looks at.
Partners(merger, allPairs) ==
  LET codes == DOMAIN merger.counts
  IN  {pair \in codes \X codes :
         /\ pair[1] < pair[2]
         /\ allPairs \/ ~\E c \in codes : pair[1] < c /\ c < pair[2]}

\* Merger::finish: the codes in order, and the code of each context, the
\* first for contexts without literals.
CodeOrder(merger) ==
  SelectSeq([i \in 1 .. CONTEXTS |-> i - 1], LAMBDA c : c \in DOMAIN merger.counts)
ContextMap(merger) ==
  LET order == CodeOrder(merger)
  IN  [context \in 0 .. CONTEXTS - 1 |->
         LET places == {i \in DOMAIN order : order[i] = merger.owners[context]}
         IN  IF places = {} THEN 0 ELSE Min(places) - 1]

(***************************************************************************)
(* literal_runs.rs.                                                        *)
(***************************************************************************)
WINDOW == 72
RUN == 32
SLACK_BITS == WINDOW * 8

\* open_sink: bytes for `bits` more after `start` waiting ones.
SinkBytes(start, bits) == (start + bits + 7) \div 8 + 8

\* Runs of literals from bit `end` on, each if its window is in the room.
RECURSIVE WriteRuns(_, _, _)
WriteRuns(literals, bytes, end) ==
  LET n == Lesser(RUN, Len(literals))
  IN  IF literals = <<>> THEN [end |-> end, fits |-> TRUE]
      ELSE IF end \div 8 + WINDOW > bytes THEN [end |-> end, fits |-> FALSE]
      ELSE WriteRuns(SubSeq(literals, n + 1, Len(literals)), bytes,
                     end + Len(Flat(SubSeq(literals, 1, n))))

\* A bug: the room ends with the literals' last bit.
RoomFor_Exact(start, maxBits) == SinkBytes(start, maxBits)

\* The room that write gets from write_bits_raw.
RoomFor(start, maxBits) == SinkBytes(start, maxBits + SLACK_BITS)

\* The codes of `merger` in order, each with the counts it is made from:
\* one more of each symbol when they are of a sample.
MergedCodes(merger, exact) ==
  LET order == CodeOrder(merger)
      counts == [i \in DOMAIN order |->
                   [s \in LiteralSymbols |->
                      merger.counts[order[i]][s] + (IF exact THEN 0 ELSE 1)]]
  IN  <<>> \o [i \in DOMAIN order |->
                 [counts |-> counts[i], written |-> WriteWith(counts[i], FastCodeBits, TRUE)]]

ContextHeader(len, codes, map) ==
  MetaBlockLen(len)
    \o VarLenBits(0) \o VarLenBits(0) \o VarLenBits(0)
    \o Bits(6, 0) \o Bits(2, CONTEXT_MODE_MSB6)
    \o ContextMapBits(Len(codes), map) \o VarLenBits(0)
    \o Flat([i \in DOMAIN codes |-> codes[i].written.bits])
    \o InsertOnlyCommand(len)

CodedBits(codes) ==
  MapThenSumSet(LAMBDA i : MapThenSumSet(LAMBDA s : codes[i].counts[s] * codes[i].written.codes[s].len,
                                         DOMAIN codes[i].written.codes), DOMAIN codes)

\* A block of `len` bytes after `lead` bits: whether it takes no more than
\* stored it may, where its literals take at least `least` bits.
Fitted(len, lead, header, literals, least) ==
  LET maxBits == (len + 4) * 8 - Len(header)
      start == (lead + Len(header)) % 8
      written == WriteRuns(literals, RoomFor(start, maxBits), start)
  IN  [header |-> header, literals |-> literals, maxBits |-> maxBits,
       fits |-> least <= maxBits /\ written.fits /\ written.end - start <= maxBits]

\* context_literals::write with `codes` by `map`.
WriteContextLiterals(input, previous, lead, codes, map, exact) ==
  Fitted(Len(input), lead, ContextHeader(Len(input), codes, map),
         [i \in DOMAIN input |->
            CodeBits(codes[map[ByteBefore(input, i, previous) \div 4] + 1].written.codes[input[i]])],
         IF exact THEN CodedBits(codes) ELSE 0)

ContextLiterals(input, previous, sample, lead, merger) ==
  WriteContextLiterals(input, previous, lead, MergedCodes(merger, sample >= SamplePeriod),
                       ContextMap(merger), sample >= SamplePeriod)
=============================================================================
