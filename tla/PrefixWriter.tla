----------------------------- MODULE PrefixWriter -----------------------------
(***************************************************************************)
(* The encoder's prefix codes: code lengths from symbol counts, canonical  *)
(* codes from the lengths, and the header that describes them, by the      *)
(* writers of crates/encode/src/encode/prefix_code.rs (q0, q1 and the      *)
(* token writer) and those of encode/mod.rs.                               *)
(*                                                                         *)
(* A writer's result is the header's bits and the code of every symbol     *)
(* that has one, its bits reversed for output lowest bit first; what a     *)
(* decoder must make of it, the verdict, is "ok".                          *)
(***************************************************************************)
EXTENDS PrefixBits, FixedCodes, FiniteSets, TLC

LOCAL INSTANCE FiniteSetsExt

CONSTANTS
  FastCodeBits,      (* FAST_CODE_BITS                                     *)
  LiteralOnlyBits    (* LITERAL_ONLY_CODE_BITS                             *)

ASSUME PrefixWriterAssumption ==
  FastCodeBits \in 1 .. MaxCodeBits - 1 /\ LiteralOnlyBits \in 1 .. FastCodeBits

MAX_SIMPLE_PREFIX_SYMBOLS == 4
STATIC_CODE_LENGTH_DEPTH == <<4, 4, 4, 4, 4, 4, 4, 4, 4, 4, 4, 4, 4, 5, 5, 0, 4, 4>>
STATIC_CODE_LENGTH_BITS == <<0, 8, 4, 12, 2, 10, 6, 14, 1, 9, 5, 13, 3, 15, 31, 0, 11, 7>>
STATIC_CODE_LENGTH_HEADER == Bits(16, 21844) \o Bits(16, 21845) \o Bits(8, 255)

Written(bits, codes) == [bits |-> bits, codes |-> codes, verdict |-> "ok"]

\* The symbols that occur, in symbol order.
Size(counts) == Cardinality(DOMAIN counts)
UsedOf(counts) ==
  SelectSeq([i \in 1 .. Size(counts) |-> i - 1], LAMBDA s : counts[s] # 0)

\* Used symbols by count and then symbol, as the sort keys order them.
SortedBy(counts, used) ==
  SortSeq(used, LAMBDA a, b : counts[a] < counts[b] \/ (counts[a] = counts[b] /\ a < b))

RECURSIVE Flat(_)
Flat(words) ==
  LET half == Len(words) \div 2
  IN  IF words = <<>> THEN <<>> ELSE IF half = 0 THEN Head(words)
      ELSE Flat(SubSeq(words, 1, half)) \o Flat(SubSeq(words, half + 1, Len(words)))

(***************************************************************************)
(* Code lengths.                                                           *)
(***************************************************************************)
\* in_place_lengths, first pass: node `next` becomes the parent of the two
\* smallest roots or leaves; a merged root's slot holds its parent.
PairNext(queues) ==
  LET nodes == queues.nodes
      next == queues.next
      root == queues.root
      leaf == queues.leaf
      n == Cardinality(DOMAIN nodes)
      TakesRoot(f, r, l) == l >= n \/ (r < next /\ f[r] < f[l])
      r1 == TakesRoot(nodes, root, leaf)
      one == IF r1 THEN [nodes EXCEPT ![next] = nodes[root], ![root] = next]
             ELSE [nodes EXCEPT ![next] = nodes[leaf]]
      root1 == IF r1 THEN root + 1 ELSE root
      leaf1 == IF r1 THEN leaf ELSE leaf + 1
      r2 == TakesRoot(one, root1, leaf1)
      two == IF r2 THEN [one EXCEPT ![next] = @ + one[root1], ![root1] = next]
             ELSE [one EXCEPT ![next] = @ + one[leaf1]]
  IN  [nodes |-> two, next |-> next + 1, root |-> IF r2 THEN root1 + 1 ELSE root1,
       leaf |-> IF r2 THEN leaf1 ELSE leaf1 + 1]
\* The nodes before `end`, half of them first.
RECURSIVE Pair(_, _)
Pair(queues, end) ==
  IF queues.next >= end THEN queues
  ELSE IF queues.next = end - 1 THEN PairNext(queues)
  ELSE Pair(Pair(queues, (queues.next + end) \div 2), end)

\* Second pass: each node's depth from its parent's, below the last one.
Depths(parents, last) ==
  LET depth[i \in 0 .. last] == IF i = last THEN 0 ELSE depth[parents[i]] + 1
  IN  depth

\* Third pass: on each level leaves fill what internal nodes leave free.
RECURSIVE Leaves(_, _, _, _, _, _)
Leaves(nodes, counts, free, depth, internal, next) ==
  LET level == Cardinality({i \in 0 .. internal - 1 : nodes[i] = depth})
  IN  IF free <= 0 THEN [lengths |-> nodes, counts |-> counts]
      ELSE Leaves([i \in DOMAIN nodes |->
                     IF i \in next - (free - level) .. next - 1 THEN depth ELSE nodes[i]],
                  [counts EXCEPT ![depth % 16] = free - level],
                  2 * level, depth + 1, internal - level, next - (free - level))

InPlaceLengths(sorted) ==
  LET n == Len(sorted)
      nodes == [i \in 0 .. n - 1 |-> sorted[i + 1]]
      paired == Pair([nodes |-> [nodes EXCEPT ![0] = @ + nodes[1]], next |-> 1, root |-> 0,
                      leaf |-> 2], n - 1)
  IN  Leaves(Depths(paired.nodes, n - 2) @@ paired.nodes, [len \in 0 .. 15 |-> 0], 1, 0, n - 1, n)

\* A bug: a code of exactly maxBits bits is refused.
RECURSIVE HuffmanLengths_Below(_, _, _)
HuffmanLengths_Below(sorted, maxBits, floor) ==
  LET built == InPlaceLengths([i \in DOMAIN sorted |-> Greater(sorted[i], floor)])
  IN  IF built.lengths[0] < maxBits THEN built
      ELSE HuffmanLengths_Below(sorted, maxBits, Greater(2 * floor, 2))

\* prefix_code.rs huffman_lengths: counts below a floor are raised until the
\* code fits.  The order of the keys stays.
RECURSIVE HuffmanLengths(_, _, _)
HuffmanLengths(sorted, maxBits, floor) ==
  LET built == InPlaceLengths([i \in DOMAIN sorted |-> Greater(sorted[i], floor)])
  IN  IF built.lengths[0] <= maxBits THEN built
      ELSE HuffmanLengths(sorted, maxBits, Greater(2 * floor, 2))

\* huffman_lengths_from_keys: the two queues of leaves and internal nodes.
\* Nodes 0 .. leaves - 1 are the sorted leaves; a leaf wins a tie of keys.
Before(a, b) == a.frequency < b.frequency \/ (a.frequency = b.frequency /\ a.symbol <= b.symbol)
MergeNext(keys, queues) ==
  LET leaves == Len(keys)
      made == queues.made
      Pop(l, i) ==
        LET takesLeaf == l < leaves /\ (i >= Len(made) \/ Before(keys[l + 1], made[i + 1]))
        IN  IF takesLeaf THEN [node |-> l, key |-> keys[l + 1], leaf |-> l + 1, internal |-> i]
            ELSE [node |-> leaves + i, key |-> made[i + 1], leaf |-> l, internal |-> i + 1]
      a == Pop(queues.leaf, queues.internal)
      b == Pop(a.leaf, a.internal)
      parent == leaves + Len(made)
  IN  [made |-> Append(made, [frequency |-> a.key.frequency + b.key.frequency,
                              symbol |-> Lesser(a.key.symbol, b.key.symbol)]),
       leaf |-> b.leaf, internal |-> b.internal,
       parents |-> [queues.parents EXCEPT ![a.node] = parent, ![b.node] = parent]]
\* Until `end` are made, half of them first.
RECURSIVE Merge(_, _, _)
Merge(keys, queues, end) ==
  LET made == Len(queues.made)
  IN  IF made >= end THEN queues
      ELSE IF made = end - 1 THEN MergeNext(keys, queues)
      ELSE Merge(keys, Merge(keys, queues, (made + end) \div 2), end)

\* The depth of each leaf, in key order.
TwoQueueLengths(keys) ==
  LET nodes == 2 * Len(keys) - 1
      merged == Merge(keys, [made |-> <<>>, leaf |-> 0, internal |-> 0,
                             parents |-> [i \in 0 .. nodes - 1 |-> 0]], Len(keys) - 1)
      depth == Depths(merged.parents, nodes - 1)
  IN  [i \in DOMAIN keys |-> depth[i - 1]]

\* huffman_code_lengths: sort keys of the used symbols.
HuffmanKeys(counts) ==
  LET order == SortedBy(counts, UsedOf(counts))
  IN  [i \in DOMAIN order |-> [frequency |-> counts[order[i]], symbol |-> order[i]]]

\* raise_counts_until_huffman_fits: the raised counts are sorted again.
RECURSIVE RaisedLengths(_, _, _)
LengthsOfKeys(counts, keys, lens) ==
  [s \in DOMAIN counts |->
     IF counts[s] = 0 THEN 0 ELSE lens[CHOOSE i \in DOMAIN keys : keys[i].symbol = s]]
Raised(counts, floor) ==
  [s \in DOMAIN counts |-> IF counts[s] = 0 THEN 0 ELSE Greater(counts[s], floor)]
LengthsOrRaised(counts, maxBits, floor, keys, lens) ==
  IF \A i \in DOMAIN lens : lens[i] <= maxBits THEN LengthsOfKeys(counts, keys, lens)
  ELSE RaisedLengths(Raised(counts, 2 * floor), maxBits, 2 * floor)
LengthsByKeys(counts, maxBits, floor, keys) ==
  LengthsOrRaised(counts, maxBits, floor, keys, TwoQueueLengths(keys) \o <<>>)
RaisedLengths(counts, maxBits, floor) ==
  LengthsByKeys(counts, maxBits, floor, HuffmanKeys(counts) \o <<>>)

\* code_lengths_from_current_used: none or one symbol gets length 1.
CodeLengths(counts, maxBits) ==
  LET used == UsedOf(counts)
  IN  IF Len(used) <= 1
      THEN [s \in DOMAIN counts |->
              IF s = (IF used = <<>> THEN 0 ELSE used[1]) THEN 1 ELSE 0]
      ELSE RaisedLengths(counts, maxBits, 1)

\* balanced_code_lengths_into: the most frequent symbols get one bit less.
BalancedLengths(counts, maxBits) ==
  LET used == UsedOf(counts)
      ranked == SortSeq(used,
                  LAMBDA a, b : counts[a] > counts[b] \/ (counts[a] = counts[b] /\ a < b))
      base == Lesser(AlphabetBits(Len(used)), maxBits)
      short == 2 ^ base - Len(used)
  IN  [s \in DOMAIN counts |->
         IF counts[s] = 0 THEN 0
         ELSE LET rank == CHOOSE i \in DOMAIN ranked : ranked[i] = s
              IN  IF rank <= short THEN base - 1 ELSE base]

(***************************************************************************)
(* Canonical codes.                                                        *)
(***************************************************************************)
NextCodes(counts, max) ==
  LET next[len \in 0 .. max] == IF len = 0 THEN 0 ELSE 2 * (next[len - 1] + counts[len - 1])
  IN  next

\* fill_dense_symbol_code_map_from_lengths, without the missing symbols.
CodesOf(lengths) ==
  LET used == {s \in DOMAIN lengths : lengths[s] # 0}
      counts == [len \in 0 .. 15 |-> Cardinality({s \in used : lengths[s] = len})]
      next == NextCodes(counts, 15)
  IN  [s \in used |->
         [len |-> lengths[s],
          bits |-> Reverse(next[lengths[s]] +
                     Cardinality({t \in used : t < s /\ lengths[t] = lengths[s]}), lengths[s])]]

\* The lengths that the in-place pass returns for the symbols in `order`, and
\* codes from the length counts it returns.
PlacedLengths(order, built) ==
  <<>> @@ [s \in {order[i] : i \in DOMAIN order} |->
             built.lengths[(CHOOSE i \in DOMAIN order : order[i] = s) - 1]]
CountedCodes(lengths, next) ==
  <<>> @@ [s \in DOMAIN lengths |->
             [len |-> lengths[s],
              bits |-> Reverse(next[lengths[s]] +
                         Cardinality({t \in DOMAIN lengths : t < s /\ lengths[t] = lengths[s]}),
                         lengths[s])]]

SimpleCodes(symbols) ==
  LET Code(len, bits) == [len |-> len, bits |-> bits]
      codes == CASE Len(symbols) = 1 -> <<Code(0, 0)>>
                 [] Len(symbols) = 2 -> <<Code(1, 0), Code(1, 1)>>
                 [] Len(symbols) = 3 -> <<Code(1, 0), Code(2, 1), Code(2, 3)>>
                 [] Len(symbols) = 4 -> <<Code(2, 0), Code(2, 2), Code(2, 1), Code(2, 3)>>
      Place(s) == CHOOSE i \in DOMAIN symbols : symbols[i] = s
  IN  [s \in {symbols[i] : i \in DOMAIN symbols} |-> codes[Place(s)]]

\* write_simple_dense_prefix_code; no symbol stands for symbol 0.
WriteSimple(used, size) ==
  LET symbols == IF used = <<>> THEN <<0>> ELSE used
  IN  Written(Bits(2, 1) \o Bits(2, Len(symbols) - 1)
                \o Flat([i \in DOMAIN symbols |-> Bits(AlphabetBits(size), symbols[i])])
                \o (IF Len(symbols) = 4 THEN Bits(1, 0) ELSE <<>>),
              SimpleCodes(symbols))

(***************************************************************************)
(* Code lengths as code-length symbols.  A token is a symbol and its extra *)
(* bits; 16 repeats the last nonzero length, 17 repeats zero.              *)
(***************************************************************************)
Token(symbol, extra) == [symbol |-> symbol, extra |-> extra]
ExtraBits(symbol) == CASE symbol = 16 -> 2 [] symbol = 17 -> 3 [] OTHER -> 0

\* emit_repeats: the count in base 4 or 8, most significant digit first.
RECURSIVE Digits(_, _)
Digits(n, base) ==
  IF n < base THEN <<n>> ELSE Digits(n \div base - 1, base) \o <<n % base>>
EmitRepeats(code, reps) ==
  LET digits == Digits(reps - 3, 2 ^ ExtraBits(code))
  IN  [i \in DOMAIN digits |-> Token(code, digits[i])]

Times(n, value) == [i \in 1 .. n |-> Token(value, 0)]

\* A bug: zeros do not repeat.
ZeroTokens_Single(reps) == Times(reps, 0)

\* push_zero_code_length_repetitions, ZERO_RUNS
ZeroTokens(reps) ==
  LET first == IF reps = 11 THEN 1 ELSE 0
  IN  Times(first, 0) \o
        IF reps - first < 3 THEN Times(reps - first, 0) ELSE EmitRepeats(17, reps - first)

\* push_code_length_repetitions
ValueTokens(previous, value, reps) ==
  LET first == IF previous # value THEN 1 ELSE 0
      second == IF reps - first = 7 THEN 1 ELSE 0
      rest == reps - first - second
  IN  Times(first + second, value) \o
        IF rest < 3 THEN Times(rest, value) ELSE EmitRepeats(16, rest)

\* for_each_length_symbol: runs of used symbols, and the gaps before them.
RECURSIVE LengthSymbols(_, _, _, _)
LengthSymbols(used, lengths, previous, expected) ==
  IF used = <<>> THEN <<>>
  ELSE LET value == lengths[used[1]]
           InRun(j) == used[j] = used[1] + j - 1 /\ lengths[used[j]] = value
           run == CHOOSE n \in DOMAIN used :
                    /\ \A j \in 1 .. n : InRun(j)
                    /\ n < Len(used) => ~InRun(n + 1)
       IN  ZeroTokens(used[1] - expected) \o ValueTokens(previous, value, run)
           \o LengthSymbols(SubSeq(used, run + 1, Len(used)), lengths, value, used[1] + run)

Trimmed(lengths) == Max({s \in DOMAIN lengths : lengths[s] # 0}) + 1

\* The end of the run of equal lengths at `index`.
RunEnd(lengths, trimmed, index) ==
  CHOOSE end \in index + 1 .. trimmed :
    /\ \A s \in index .. end - 1 : lengths[s] = lengths[index]
    /\ end < trimmed => lengths[end] # lengths[index]

\* write_fast_complex_prefix_code_lengths: every run repeats.
RECURSIVE FastTokens(_, _, _, _)
FastTokens(lengths, trimmed, index, previous) ==
  IF index >= trimmed THEN <<>>
  ELSE LET value == lengths[index]
           end == RunEnd(lengths, trimmed, index)
       IN  (IF value = 0 THEN ZeroTokens(end - index)
            ELSE ValueTokens(previous, value, end - index))
           \o FastTokens(lengths, trimmed, end, IF value = 0 THEN previous ELSE value)

\* choose_code_length_rle: whether runs of at least `least` nonzero lengths,
\* or of zeros, hold more than twice as many lengths as there are runs and one.
RunsPay(lengths, trimmed, zero, least) ==
  LET Starts == {s \in 0 .. trimmed - 1 : s = 0 \/ lengths[s] # lengths[s - 1]}
      Reps(s) == RunEnd(lengths, trimmed, s) - s
      runs == {s \in Starts : (lengths[s] = 0) = zero /\ Reps(s) >= least}
  IN  MapThenSumSet(Reps, runs) > 2 * (Cardinality(runs) + 1)

\* encode_code_length_tree_into
RECURSIVE TreeFrom(_, _, _, _, _)
TreeFrom(lengths, trimmed, rle, index, previous) ==
  IF index >= trimmed THEN <<>>
  ELSE LET value == lengths[index]
           end == IF (value = 0 /\ rle.zero) \/ (value # 0 /\ rle.nonZero)
                  THEN RunEnd(lengths, trimmed, index) ELSE index + 1
       IN  (IF value = 0 THEN ZeroTokens(end - index)
            ELSE ValueTokens(previous, value, end - index))
           \o TreeFrom(lengths, trimmed, rle, end, IF value = 0 THEN previous ELSE value)

CodeLengthTree(lengths) ==
  LET trimmed == Trimmed(lengths)
      long == trimmed > 50
  IN  TreeFrom(lengths, trimmed,
        [nonZero |-> long /\ RunsPay(lengths, trimmed, FALSE, 4),
         zero |-> long /\ RunsPay(lengths, trimmed, TRUE, 3)], 0, 8)

(***************************************************************************)
(* Headers.                                                                *)
(***************************************************************************)
TokenCounts(tokens) ==
  [s \in 0 .. 17 |-> Cardinality({i \in DOMAIN tokens : tokens[i].symbol = s})]

\* Tokens in a code-length code.
TokenBits(tokens, codes) ==
  Flat([i \in DOMAIN tokens |->
          Bits(codes[tokens[i].symbol].len, codes[tokens[i].symbol].bits)
            \o Bits(ExtraBits(tokens[i].symbol), tokens[i].extra)])

StaticCode ==
  [s \in 0 .. 17 |-> [len |-> STATIC_CODE_LENGTH_DEPTH[s + 1], bits |-> STATIC_CODE_LENGTH_BITS[s + 1]]]

\* write_lengths, write_fast_complex_prefix_code_lengths
StaticHeader(tokens) == STATIC_CODE_LENGTH_HEADER \o TokenBits(tokens, StaticCode)

\* write_code_length_code_len, CODE_LENGTH_LENGTH_CODES
CodeLengthLenBits(len) ==
  <<Bits(2, 0), Bits(4, 7), Bits(3, 3), Bits(2, 2), Bits(2, 1), Bits(4, 15)>>[len + 1]

Skip(lens) ==
  CASE lens[1] = 0 /\ lens[2] = 0 /\ lens[3] = 0 -> 3
    [] lens[1] = 0 /\ lens[2] = 0 /\ lens[3] # 0 -> 2
    [] OTHER -> 0

\* write_code_length_code_lengths: a code of one symbol stores all lengths.
CodeLengthHeader(lens, kinds) ==
  LET last == Max({i \in 1 .. 18 : lens[CODE_LENGTH_ORDER[i]] # 0})
      stored == IF kinds > 1 THEN last ELSE 18
      skip == Skip(lens)
  IN  Bits(2, skip) \o
        Flat([i \in 1 .. stored - skip |->
                CodeLengthLenBits(lens[CODE_LENGTH_ORDER[skip + i]])])

Kinds(counts) == Cardinality({s \in DOMAIN counts : counts[s] # 0})

\* write_encoded_code_length_tree: one kind of symbol takes no bits.
TreeBits(tree, lens, kinds) ==
  CodeLengthHeader(lens, kinds)
    \o TokenBits(tree, IF kinds = 1 THEN [s \in 0 .. 17 |-> [len |-> 0, bits |-> 0]]
                        ELSE CodesOf(lens))
TreeHeader(tree) ==
  TreeBits(tree, CodeLengths(TokenCounts(tree), 5), Kinds(TokenCounts(tree)))

\* tuned_code_length_code: a code built for the tokens, unless the static
\* one takes no more bits.
TunedTokens(tokens, lengths, codes) ==
  CodeLengthHeader([s \in 0 .. 17 |-> IF s \in DOMAIN lengths THEN lengths[s] ELSE 0], 2)
    \o TokenBits(tokens, codes)
TunedCode(tokens, order, built) ==
  LET lengths == PlacedLengths(order, built)
  IN  TunedTokens(tokens, lengths, CountedCodes(lengths, NextCodes(built.counts, 5)))
Shorter(static, tuned) == IF Len(static) <= Len(tuned) THEN static ELSE tuned
TunedHeader(tokens) ==
  LET counts == TokenCounts(tokens)
      order == SortedBy(counts, UsedOf(counts))
  IN  IF Kinds(counts) < 2 THEN StaticHeader(tokens)
      ELSE Shorter(StaticHeader(tokens),
                   TunedCode(tokens, order,
                             HuffmanLengths([i \in DOMAIN order |-> counts[order[i]]], 5, 0)))

(***************************************************************************)
(* Writers.                                                                *)
(***************************************************************************)
\* prefix_code.rs write_with.  The codes come from the length counts the
\* in-place pass returns.
WriteHuffman(used, lengths, built, tuned) ==
  LET tokens == LengthSymbols(used, lengths, 8, 0)
  IN  Written(IF tuned THEN TunedHeader(tokens) ELSE StaticHeader(tokens),
              CountedCodes(lengths, NextCodes(built.counts, FastCodeBits)))
WriteBuilt(used, order, built, tuned) ==
  WriteHuffman(used, PlacedLengths(order, built), built, tuned)
WriteWith(counts, maxBits, tuned) ==
  LET used == UsedOf(counts)
      order == SortedBy(counts, used)
  IN  IF Len(used) <= MAX_SIMPLE_PREFIX_SYMBOLS THEN WriteSimple(used, Size(counts))
      ELSE WriteBuilt(used, order,
             HuffmanLengths([i \in DOMAIN order |-> counts[order[i]]], maxBits, 0), tuned)

\* write_dense_prefix_code_array_from_frequencies_with_scratch_max_bits
WriteTree(lengths) == Written(TreeHeader(CodeLengthTree(lengths)), CodesOf(lengths))
WriteDense(counts, maxBits) ==
  LET used == UsedOf(counts)
  IN  IF Len(used) <= MAX_SIMPLE_PREFIX_SYMBOLS THEN WriteSimple(used, Size(counts))
      ELSE WriteTree(CodeLengths(counts, maxBits))

\* write_fast_dense_prefix_code_array_from_frequencies_with_scratch
WriteInRuns(lengths) ==
  Written(StaticHeader(FastTokens(lengths, Trimmed(lengths), 0, 8)), CodesOf(lengths))
WriteFast(counts) ==
  LET used == UsedOf(counts)
  IN  IF Len(used) <= MAX_SIMPLE_PREFIX_SYMBOLS THEN WriteSimple(used, Size(counts))
      ELSE WriteInRuns(CodeLengths(counts, FastCodeBits))

\* write_balanced_fast_dense_prefix_code_array_from_frequencies_with_scratch
WriteBalanced(counts) ==
  LET used == UsedOf(counts)
  IN  IF Len(used) <= MAX_SIMPLE_PREFIX_SYMBOLS THEN WriteSimple(used, Size(counts))
      ELSE WriteInRuns(BalancedLengths(counts, FastCodeBits))

(***************************************************************************)
(* The q1 commands: 64 internal codes, each for a symbol of the command    *)
(* alphabet.                                                               *)
(***************************************************************************)
CommandAlphabet == 704

\* q1_internal_command_symbol
CommandSymbol(code) ==
  LET row == code \div 8
      col == code % 8
  IN  CASE row = 0 -> 128 + col * 8
        [] row = 1 -> 256 + col * 8
        [] row = 2 -> 448 + col * 8
        [] row = 3 -> col
        [] row = 4 -> 64 + col
        [] row = 5 -> 128 + col
        [] row = 6 -> 192 + col
        [] row = 7 -> 384 + col

\* The rows of eight internal codes in the order that
\* q1_internal_command_code_map_from_lengths lines them up in for their
\* codes, and where it finds each row again.
RemappedRows == <<3, 4, 5, 0, 6, 1, 7, 2>>
RestoredRows == <<3, 5, 7, 0, 1, 2, 4, 6>>
Placed(rows, i) == 8 * rows[(i \div 8) + 1] + (i % 8)

\* write_q1_internal_command_prefix_codes, the command code.
CommandsBy(lengths, codes) ==
  LET used == {c \in 0 .. 63 : lengths[c] # 0}
      Code(s) == CHOOSE c \in used : CommandSymbol(c) = s
      symbols == {CommandSymbol(c) : c \in used}
      full == [s \in 0 .. CommandAlphabet - 1 |->
                 IF s \in symbols THEN lengths[Code(s)] ELSE 0]
  IN  Written(TreeHeader(CodeLengthTree(full)),
        [s \in symbols |-> codes[Placed(RestoredRows, Code(s))]])
WriteInternalCodes(lengths) ==
  CommandsBy(lengths, CodesOf([i \in 0 .. 63 |-> lengths[Placed(RemappedRows, i)]]))
WriteCommands(counts) == WriteInternalCodes(CodeLengths(counts, MaxCodeBits))

\* write_static_distance_prefix_code, with the codes of static_distance_code.
StaticDistances ==
  Written(Bits(16, 56323) \o Bits(12, 873), [s \in 0 .. 63 |-> [len |-> 6, bits |-> Reverse(s, 6)]])

(***************************************************************************)
(* Codes with fixed headers: those of fixed_codes.rs, and the static code  *)
(* of tokens.rs.  Commands come first, then distances.                     *)
(***************************************************************************)
\* FixedCode::write_header: words of seven bytes, the last cut short.
FixedHeader(code) ==
  SubSeq(Flat([i \in DOMAIN code.header |-> Bits(8, code.header[i])]), 1, code.bits)

\* write_static_command_and_distance_prefix_codes
StaticCommandHeader == Bits(16, 28675) \o Bits(16, 5680) \o Bits(16, 25156) \o Bits(11, 146)

\* STATIC_COMMAND_CODES
StaticCommands ==
  Written(StaticCommandHeader,
    [s \in 0 .. CommandAlphabet - 1 |->
       IF s < 448 THEN [len |-> 9, bits |-> Reverse(s, 9)]
       ELSE [len |-> 11, bits |-> Reverse(1792 + s - 448, 11)]])

\* The codes a fixed header stands for; as many bits of it are the distance
\* code's as the general writer takes for that.
SplitHeader(header, commandBits, code) ==
  <<Written(SubSeq(header, 1, commandBits), CodesOf(code.commands)),
    Written(SubSeq(header, commandBits + 1, code.bits), CodesOf(code.distances))>>
FixedParts(code) ==
  SplitHeader(FixedHeader(code),
              code.bits - Len(TreeHeader(CodeLengthTree(code.distances))), code)
=============================================================================
