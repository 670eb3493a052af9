----------------------------- MODULE PrefixCodes ------------------------------
(***************************************************************************)
(* Prefix codes from the encoder's counts to the decoder's tables: writers *)
(* append code headers to a stream, then the decoder reads them as the     *)
(* codes of one group, either at once (CodeGroup::read, whose codes share  *)
(* the symbol lists) or one by one from input that arrives in bytes        *)
(* (read_code, as compressed/incremental.rs calls it), in which case a     *)
(* read that runs out starts over with more.  Headers of other encoders,   *)
(* well formed or not, come as what the format says they mean.             *)
(***************************************************************************)
EXTENDS PrefixTables, PrefixWriter

LOCAL INSTANCE FiniteSetsExt

CONSTANTS
  Shapes,     (* groups: kind, number of codes, alphabet, wide, pieces     *)
  Inputs      (* by kind of group: the counts, q1 command counts and       *)
              (* foreign headers its codes come from, and the bits after   *)

VARIABLES
  shape,      (* the group being written and read                          *)
  written,    (* the headers, with what they mean                          *)
  stream,     (* their bits, and those that follow                         *)
  arrived,    (* bits the reader has                                       *)
  at,         (* bits of the codes read                                    *)
  read,       (* codes read                                                *)
  group,      (* CodeGroup                                                 *)
  lists,      (* the SymbolLists a group read at once shares               *)
  outcome     (* "writing", "reading", "starved", "done", "failed" or      *)
              (* "idle"                                                    *)

prefixVars == <<shape, written, stream, arrived, at, read, group, lists, outcome>>
readerVars == <<stream, arrived, at, read, group, lists>>

None == <<>>

\* Alphabet of the i-th code: a fixed header has commands, then distances.
Alphabet(i) == IF shape.kind = "fixed" THEN <<CommandAlphabet, 64>>[i + 1] ELSE shape.alphabet

(***************************************************************************)
(* The format (RFC 7932, 3.2 to 3.5), for headers of other encoders.       *)
(***************************************************************************)
\* Canonical codes: shorter codes come first, equal ones by symbol.
Canonical(lengths) ==
  LET used == {s \in DOMAIN lengths : lengths[s] # 0}
      Earlier(s) == {t \in used : lengths[t] < lengths[s] \/ (lengths[t] = lengths[s] /\ t < s)}
      Share(s) == MapThenSumSet(LAMBDA t : 2 ^ (lengths[s] - lengths[t]), Earlier(s))
  IN  [s \in used |-> [len |-> lengths[s], bits |-> Reverse(Share(s), lengths[s])]]

Kraft(lengths, max) ==
  MapThenSumSet(LAMBDA s : 2 ^ (max - lengths[s]), {s \in DOMAIN lengths : lengths[s] # 0})

\* The lengths of the symbols that `tokens` list.  Repeat codes in a row
\* count as one repeat, each scaling the run before it.
RECURSIVE RunOf(_, _, _)
RunOf(tokens, i, base) ==
  LET before == IF i > 1 /\ tokens[i - 1].symbol = tokens[i].symbol
                THEN base * (RunOf(tokens, i - 1, base) - 2) ELSE 0
  IN  before + tokens[i].extra + 3
RECURSIVE Expand(_)
Expand(tokens) ==
  IF tokens = <<>> THEN <<>>
  ELSE LET n == Len(tokens)
           code == tokens[n].symbol
           from == CHOOSE i \in 1 .. n :
                     /\ \A j \in i .. n : tokens[j].symbol = code
                     /\ i > 1 => tokens[i - 1].symbol # code
           shorter == Expand(SubSeq(tokens, 1, IF code <= 15 THEN n - 1 ELSE from - 1))
           nonzero == SelectSeq(<<8>> \o shorter, LAMBDA len : len # 0)
       IN  shorter \o
             CASE code <= 15 -> <<code>>
               [] code = 16 -> [i \in 1 .. RunOf(tokens, n, 4) |-> nonzero[Len(nonzero)]]
               [] code = 17 -> [i \in 1 .. RunOf(tokens, n, 8) |-> 0]

\* How a header with these code lengths ends after its first k tokens.
VerdictAt(tokens, k, alphabet) ==
  LET lens == Expand(SubSeq(tokens, 1, k))
      space == 2 ^ MaxCodeBits - Kraft(lens, MaxCodeBits)
  IN  CASE space = 0 /\ Len(lens) <= alphabet -> "ok"
        [] space < 0 \/ Len(lens) > alphabet \/ (space > 0 /\ Len(lens) = alphabet) -> "bad"
        [] OTHER -> "end"

\* A header for `tokens` in the code-length code of these lengths, its
\* first `skip` lengths left out.  A code-length code must be complete or
\* hold one symbol; its lengths end where it is complete.
ComplexHeader(alphabet, skip, lens, tokens) ==
  LET Sum(i) == MapThenSumSet(LAMBDA j : 32 \div 2 ^ lens[CODE_LENGTH_ORDER[j]],
                  {j \in skip + 1 .. i : lens[CODE_LENGTH_ORDER[j]] # 0})
      full == {i \in skip + 1 .. 18 : Sum(i) = 32}
      used == {s \in 0 .. 17 : lens[s] # 0}
      stored == IF full = {} THEN 18 ELSE Min(full)
      codes == IF Cardinality(used) = 1
               THEN [s \in used |-> [len |-> 0, bits |-> 0]] ELSE Canonical(lens)
      front == Bits(2, skip) \o
                 Flat([i \in 1 .. stored - skip |->
                         CodeLengthLenBits(lens[CODE_LENGTH_ORDER[skip + i]])])
      meaning == Expand(tokens)
  IN  IF full = {} /\ Cardinality(used) # 1
      THEN [bits |-> front, codes |-> None, verdict |-> "bad"]
      ELSE [bits |-> front \o TokenBits(tokens, codes),
            codes |-> Canonical([s \in 0 .. Len(meaning) - 1 |-> meaning[s + 1]]),
            verdict |-> VerdictAt(tokens, Len(tokens), alphabet)]

\* Simple codes list their symbols in any order; equal lengths are coded in
\* symbol order.
SimpleHeader(alphabet, symbols, deep) ==
  LET n == Len(symbols)
      lens == SimpleLengths(n, deep)
      set == {symbols[i] : i \in 1 .. n}
      Place(s) == CHOOSE i \in 1 .. n : symbols[i] = s
  IN  [bits |-> Bits(2, 1) \o Bits(2, n - 1)
                  \o Flat([i \in 1 .. n |-> Bits(AlphabetBits(alphabet), symbols[i])])
                  \o (IF n = 4 THEN Bits(1, IF deep THEN 1 ELSE 0) ELSE <<>>),
       codes |-> IF n = 1 THEN [s \in set |-> [len |-> 0, bits |-> 0]]
                 ELSE Canonical([s \in set |-> lens[Place(s)]]),
       verdict |-> IF Cardinality(set) = n /\ \A s \in set : s < alphabet THEN "ok" ELSE "bad"]

HeaderOf(h, alphabet) ==
  IF h.form = "simple" THEN SimpleHeader(alphabet, h.symbols, h.deep)
  ELSE ComplexHeader(alphabet, h.skip, h.lens, h.tokens)

(***************************************************************************)
(* Writing.                                                                *)
(***************************************************************************)
\* The next header is for `counts` in codes of at most `limit` bits; `build`
\* tells a Huffman code from others, `reserve` the bits made room for.
WriteHeader(header, counts, limit, build, reserve) ==
  /\ outcome = "writing"
  /\ Len(written) < shape.count
  /\ \A i \in DOMAIN written : written[i].verdict = "ok"
  /\ written' = Append(written,
       [bits |-> header.bits, codes |-> header.codes, verdict |-> header.verdict,
        counts |-> counts, limit |-> limit, build |-> build, reserve |-> reserve])
  /\ UNCHANGED <<shape, readerVars, outcome>>

\* What write_lengths and write_tuned_lengths reserve.
Reserve(counts) == 2 + 4 * 18 + (32 + 5) * Len(UsedOf(counts))

\* prefix_code.rs write, write_with_max_bits (literal-only blocks) and
\* write_tuned.
WriteLengths(counts) ==
  \E form \in {[limit |-> FastCodeBits, tuned |-> FALSE],
             [limit |-> LiteralOnlyBits, tuned |-> FALSE],
             [limit |-> FastCodeBits, tuned |-> TRUE]} :
    WriteHeader(WriteWith(counts, form.limit, form.tuned), counts, form.limit, "huffman",
            Reserve(counts))
WriteGeneral(counts) ==
  \E limit \in {FastCodeBits, MaxCodeBits} :
    WriteHeader(WriteDense(counts, limit), counts, limit, "huffman", 0)
WriteFastDense(counts) ==
  WriteHeader(WriteFast(counts), counts, FastCodeBits, "huffman", 0)
WriteBalancedDense(counts) ==
  WriteHeader(WriteBalanced(counts), counts, FastCodeBits, "balanced", 0)
WriteQ1Commands(counts) ==
  WriteHeader(WriteCommands(counts), None, MaxCodeBits, "fixed", 0)
WriteStaticDistances ==
  /\ shape.kind = "distances"
  /\ WriteHeader(StaticDistances, None, MaxCodeBits, "fixed", 0)
\* FixedCode::write_header, and the static code.
WriteFixed(parts) ==
  /\ shape.kind = "fixed" /\ written = <<>> /\ outcome = "writing"
  /\ written' = [i \in 1 .. 2 |->
       [bits |-> parts[i].bits, codes |-> parts[i].codes, verdict |-> "ok",
        counts |-> None, limit |-> MaxCodeBits, build |-> "fixed", reserve |-> 0]]
  /\ UNCHANGED <<shape, readerVars, outcome>>
WriteForeign(h) ==
  WriteHeader(HeaderOf(h, Alphabet(0)), None, MaxCodeBits, "foreign", 0)

\* The stream is complete.  Bits of the meta-block follow well-formed codes.
Send ==
  /\ outcome = "writing"
  /\ written # <<>>
  /\ Len(written) = shape.count \/ written[Len(written)].verdict # "ok"
  /\ stream' = Flat([i \in DOMAIN written |-> written[i].bits]) \o
                 IF written[Len(written)].verdict = "ok" THEN Inputs[shape.kind].tail ELSE <<>>
  /\ arrived' = IF shape.pieces THEN 0 ELSE Len(stream')
  /\ outcome' = IF shape.pieces THEN "starved" ELSE "reading"
  /\ UNCHANGED <<shape, written, at, read, group, lists>>

(***************************************************************************)
(* Reading.                                                                *)
(***************************************************************************)
Arrive ==
  /\ outcome = "starved"
  /\ arrived < Len(stream)
  /\ arrived' = Lesser(arrived + 8, Len(stream))
  /\ outcome' = "reading"
  /\ UNCHANGED <<shape, written, stream, at, read, group, lists>>

\* set_code with what ReadCode read.
Set(r) ==
  /\ r.st = "ok"
  /\ group' = SetCode(group, read, r.lists)
  /\ at' = r.at
  /\ read' = read + 1
  /\ outcome' = IF read + 1 = shape.count THEN "done" ELSE "reading"

\* One turn of CodeGroup::read: an error ends it.
ReadShared ==
  /\ outcome = "reading" /\ ~shape.pieces
  /\ \E r \in {ReadCode(stream, at, Alphabet(read), lists)} :
         \/ /\ Set(r)
            /\ lists' = r.lists
         \/ /\ r.st # "ok"
            /\ outcome' = "failed"
            /\ UNCHANGED <<at, read, group, lists>>
  /\ UNCHANGED <<shape, written, stream, arrived>>

\* CodeGroup::read_code: the lists are its own, and the group changes only
\* once the code is read.  Out of input, it waits for more.
ReadOne ==
  /\ outcome = "reading" /\ shape.pieces
  /\ \E r \in {ReadCode(SubSeq(stream, 1, arrived), at, Alphabet(read), NewLists)} :
         \/ Set(r)
         \/ /\ r.st = "end" /\ arrived < Len(stream)
            /\ outcome' = "starved"
            /\ UNCHANGED <<at, read, group>>
         \/ /\ r.st = "bad" \/ (r.st = "end" /\ arrived = Len(stream))
            /\ outcome' = "failed"
            /\ UNCHANGED <<at, read, group>>
  /\ UNCHANGED <<shape, written, stream, arrived, lists>>

PrefixInit ==
  /\ shape \in Shapes
  /\ written = <<>> /\ stream = <<>> /\ arrived = 0 /\ at = 0 /\ read = 0
  /\ group = NewGroup(shape.count, shape.wide)
  /\ lists = NewLists
  /\ outcome = "writing"

PrefixIdle ==
  /\ outcome = "idle" /\ shape = None /\ written = <<>> /\ stream = <<>>
  /\ arrived = 0 /\ at = 0 /\ read = 0 /\ group = None /\ lists = None

PrefixNext ==
  \/ \E counts \in Inputs[shape.kind].counts :
       \/ WriteLengths(counts)
       \/ WriteGeneral(counts)
       \/ WriteFastDense(counts)
       \/ WriteBalancedDense(counts)
  \/ \E counts \in Inputs[shape.kind].commands : WriteQ1Commands(counts)
  \/ WriteStaticDistances
  \/ \E code \in {FLAT, SHORT, LONG} : WriteFixed(FixedParts(code))
  \/ WriteFixed(<<StaticCommands, StaticDistances>>)
  \/ \E header \in Inputs[shape.kind].foreign : WriteForeign(header)
  \/ Send
  \/ Arrive
  \/ ReadShared
  \/ ReadOne

(***************************************************************************)
(* Properties.                                                             *)
(***************************************************************************)
Decodes(codes, entries, base, rootBits, w) ==
  LET e == Lookup(entries, base, rootBits, w)
  IN  /\ e.value \in DOMAIN codes
      /\ codes[e.value] = [len |-> e.len, bits |-> w % 2 ^ e.len]

LongestOf(codes) == Max({codes[s].len : s \in DOMAIN codes})

\* Whatever bits come next, the tables of every code read decode the symbol
\* the writer of that code gave those bits to, and take as many bits as it
\* wrote: root, repeated entries, second-level tables and the wide root, of
\* codes read earlier too (huffman.rs build_code, lookup, SymbolLists).
TablesDecode ==
  \A i \in 1 .. read :
    LET codes == written[i].codes
    IN  \A w \in 0 .. 2 ^ LongestOf(codes) - 1 :
          /\ Decodes(codes, group.entries, (i - 1) * 2 ^ RootBits, RootBits, w)
          /\ group.wide # <<>> => Decodes(codes, group.wide, 0, WideRootBits, w)

\* The decoder takes exactly the bits of each header, from pieces or at
\* once, refuses no header of the encoder's writers, and of other headers
\* refuses those the format calls malformed and only those.
FollowsFormat ==
  /\ at = Len(Flat([i \in 1 .. read |-> written[i].bits]))
  /\ \A i \in 1 .. read : written[i].verdict = "ok"
  /\ outcome = "failed" => read < Len(written) /\ written[read + 1].verdict # "ok"

\* What the best code of these weights costs: the sum of the nodes that
\* joining the two lightest makes.
RECURSIVE BestCost(_)
BestCost(weights) ==
  LET order == SortSeq(weights, <)
      both == order[1] + order[2]
  IN  IF Len(weights) = 1 THEN 0 ELSE both + BestCost(Append(SubSeq(order, 3, Len(order)), both))

RECURSIVE FibonacciFrom(_, _, _)
FibonacciFrom(a, b, n) == IF n = 1 THEN a ELSE FibonacciFrom(b, a + b, n - 1)
Fibonacci(n) == FibonacciFrom(1, 1, n)
RECURSIVE Total(_)
Total(weights) == IF weights = <<>> THEN 0 ELSE Head(weights) + Total(Tail(weights))

\* The code lengths the encoder chooses stay within the writer's limit, give
\* every symbol that occurs a code and a rarer symbol never a shorter one.
\* When the total count is too small for a Huffman code to be deeper than
\* the limit, they spend no bit more than the best code does: counts are
\* raised only when they must be (prefix_code.rs huffman_lengths, mod.rs
\* raise_counts_until_huffman_fits, huffman_lengths_from_keys).
CheapestCode ==
  \A i \in DOMAIN written :
    LET h == written[i]
        used == UsedOf(h.counts)
        weights == [j \in DOMAIN used |-> h.counts[used[j]]]
        cost == MapThenSumSet(LAMBDA s : h.counts[s] * h.codes[s].len, DOMAIN h.codes)
    IN  h.counts # None /\ Len(used) > MAX_SIMPLE_PREFIX_SYMBOLS =>
          /\ DOMAIN h.codes = {used[j] : j \in DOMAIN used}
          /\ \A s \in DOMAIN h.codes : h.codes[s].len \in 1 .. h.limit
          /\ \A s, t \in DOMAIN h.codes :
               h.counts[s] < h.counts[t] => h.codes[s].len >= h.codes[t].len
          /\ h.build = "huffman" /\ Total(weights) < Fibonacci(h.limit + 3) =>
               cost = BestCost(weights)

\* A header of prefix_code.rs never takes more bits than its writer made room
\* for before writing through a sink that does not check (write_bits_up_to).
FitsReserve ==
  \A i \in DOMAIN written :
    written[i].reserve # 0 => Len(written[i].bits) <= written[i].reserve
=============================================================================
