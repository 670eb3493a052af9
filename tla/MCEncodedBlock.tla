--------------------------- MODULE MCEncodedBlock ---------------------------
(***************************************************************************)
(* The instances of all three parts: groups of codes, tokens, and inputs   *)
(* and foreign streams for whole blocks.                                   *)
(***************************************************************************)
EXTENDS EncodedBlock

LOCAL INSTANCE FiniteSetsExt

(***************************************************************************)
(* Groups for PrefixCodes.  Roots of 3 and 5 bits for 8 and 10, and codes  *)
(* of the fast writers of at most 9 bits for 14, of literal-only blocks 6  *)
(* for 11, so that a few symbols reach second-level tables and raised      *)
(* counts; the format's own numbers (15 bits, 18 code-length symbols,      *)
(* runs, static tables) are real.                                          *)
(***************************************************************************)
\* Counts `weights` at positions start, start + step, ... of an alphabet.
Spread(n, weights, start, step) ==
  [s \in 0 .. n - 1 |->
     LET i == ((s - start) \div step) + 1
     IN  IF s >= start /\ (s - start) % step = 0 /\ i <= Len(weights) THEN weights[i] ELSE 0]

Deep(n) == [i \in 1 .. n |-> Fibonacci(i)]
Same(n, w) == [i \in 1 .. n |-> w]

\* An alphabet of 16: every mix of common and rare symbols, the deepest
\* codes, and none to four symbols.
Counts16 ==
  {Spread(16, w, 0, 1) : w \in [1 .. 4 -> {1, 2, 5}] \cup [1 .. 5 -> {1, 5}]}
  \cup {Spread(16, w, 1, 2) : w \in [1 .. 7 -> {1, 9}]}
  \cup {Spread(16, Deep(n), k, 1) : n \in 5 .. 11, k \in {0, 5}}
  \cup {Spread(16, Same(n, 1), 0, 1) : n \in 0 .. 16}
  \cup {Spread(16, Deep(n), 2, 4) : n \in 1 .. 4}
Some16 ==
  {Spread(16, Deep(11), 5, 1), Spread(16, <<5, 1, 1, 2, 5>>, 0, 2),
   Spread(16, Same(10, 1), 3, 1), Spread(16, <<2, 3, 4>>, 2, 5), Spread(16, <<7>>, 9, 1)}
Duo16 == {Spread(16, Deep(11), 5, 1), Spread(16, <<7>>, 9, 1)}
Pair16 ==
  {Spread(16, Deep(11), 5, 1), Spread(16, <<5, 1, 1, 2, 5>>, 0, 2), Spread(16, <<7>>, 9, 1)}

\* An alphabet of 64: runs of 7, 11 and more of one length and of none.
Counts64 ==
  {Spread(64, Same(n, 3), k, 1) : n \in {8, 9, 15, 16, 27, 40}, k \in {0, 11, 23}}
  \cup {Spread(64, Same(n, 3), 0, k) : n \in {5, 6}, k \in {8, 12}}
  \cup {Spread(64, Same(5, 3), 15, 12)}
  \cup {[s \in 0 .. 63 |-> IF s < 12 THEN 4 ELSE IF s < 24 THEN 0 ELSE 1],
        [s \in 0 .. 63 |-> IF s \in {0, 13, 62, 63} THEN 50 ELSE IF s \in 14 .. 33 THEN 1 ELSE 0],
        [s \in 0 .. 63 |-> 1]}

\* q1 counts: a run of one literal length and copies of several kinds.
CommandCounts ==
  LET Base == [c \in 0 .. 63 |-> IF c \in {1, 2} THEN 1 ELSE 0]
  IN  {Base,
       [Base EXCEPT ![24] = 3, ![42] = 5, ![63] = 1],
       [c \in 0 .. 63 |-> IF c \in {0, 40, 41} THEN 0 ELSE IF c \in {1, 2, 9, 17, 33, 50, 57} THEN 9
                          ELSE 1],
       [Base EXCEPT ![5] = 7, ![9] = 2, ![17] = 4, ![30] = 1, ![35] = 1, ![43] = 6, ![49] = 1, ![60] = 2]}

T(symbol) == Token(symbol, 0)
TokenSet == {T(0), T(1), T(2), T(3), T(16), Token(16, 2), T(17), Token(17, 6)}
\* Token lists that end where the format says a header ends, or that leave
\* it open at the end of the input.
TokenLists ==
  LET More(some) == {Append(l, t) : l \in {l \in some : VerdictAt(l, Len(l), 16) = "end"},
                                     t \in TokenSet}
      longer[n \in 1 .. 4] ==
        IF n = 1 THEN {<<t>> : t \in TokenSet}
        ELSE More(IF n < 4 THEN longer[n - 1]
                  ELSE {l \in longer[n - 1] : l[1].symbol \in {1, 2, 17}})
  IN  UNION {longer[n] : n \in 1 .. 4}

\* The static code-length code, one of one symbol, and codes of two.
StaticLens == [s \in 0 .. 17 |-> STATIC_CODE_LENGTH_DEPTH[s + 1]]
OneLen(s) == [t \in 0 .. 17 |-> IF t = s THEN 2 ELSE 0]
TwoLens(s, u, len) == [t \in 0 .. 17 |-> IF t = s THEN 1 ELSE IF t = u THEN len ELSE 0]

Complex(skip, lens, tokens) ==
  [form |-> "complex", skip |-> skip, lens |-> lens, tokens |-> tokens]
Simple(symbols, deep) == [form |-> "simple", symbols |-> symbols, deep |-> deep]

FewForeign ==
  {Complex(0, StaticLens, <<T(1), T(2), T(3), T(3)>>),
   Complex(2, OneLen(16), <<Token(16, 2), Token(16, 1), Token(16, 2)>>),
   Complex(3, TwoLens(4, 16, 1), <<T(4), Token(16, 3), Token(16, 1)>>),
   Complex(0, TwoLens(1, 17, 1), <<T(1), Token(17, 7), T(1)>>),
   Simple(<<9, 1, 6, 0>>, TRUE), Simple(<<8, 3, 8>>, FALSE)}
Foreign16 ==
  {Complex(0, StaticLens, tokens) : tokens \in TokenLists}
  \cup {h \in FewForeign : h.form = "complex"}
  \cup {Complex(0, OneLen(4), [i \in 1 .. 16 |-> T(4)]),
        Complex(0, TwoLens(1, 17, 2), <<>>),
        Complex(0, [t \in 0 .. 17 |-> IF t <= 4 THEN 1 ELSE 0], <<>>),
        Complex(0, [t \in 0 .. 17 |-> 0], <<>>)}
Simple10 ==
  {Simple(symbols, deep) :
     symbols \in {<<9>>, <<10>>, <<4, 2>>, <<4, 4>>, <<8, 3, 5>>, <<8, 3, 8>>, <<1, 2, 12>>,
                  <<9, 1, 6, 0>>, <<2, 3, 9, 2>>},
     deep \in BOOLEAN}

Group(kind, count, alphabet, wide, pieces) ==
  [kind |-> kind, count |-> count, alphabet |-> alphabet, wide |-> wide, pieces |-> pieces]
MCShapes ==
  {Group("counts", 1, 16, FALSE, FALSE), Group("pair", 2, 16, TRUE, FALSE),
   Group("duo", 2, 16, FALSE, TRUE), Group("some", 1, 16, TRUE, TRUE),
   Group("runs", 1, 64, TRUE, FALSE), Group("commands", 1, 704, FALSE, FALSE),
   Group("fixed", 2, 704, FALSE, TRUE), Group("distances", 1, 64, FALSE, TRUE),
   Group("foreign", 1, 16, FALSE, FALSE),
   Group("simple", 1, 10, FALSE, TRUE), Group("few", 2, 16, FALSE, TRUE)}

Of(counts, commands, foreign) ==
  [counts |-> counts, commands |-> commands, foreign |-> foreign,
   tail |-> IF counts \cup commands = {} THEN <<1>> ELSE <<1, 1, 0, 1, 1>>]
MCInputs ==
  [counts |-> Of(Counts16, {}, {}), some |-> Of(Some16, {}, {}), pair |-> Of(Pair16, {}, {}),
   duo |-> Of(Duo16, {}, {}),
   runs |-> Of(Counts64, {}, {}), commands |-> Of({}, CommandCounts, {}),
   fixed |-> Of({}, {}, {}), distances |-> Of({}, {}, {}), foreign |-> Of({}, {}, Foreign16),
   simple |-> Of({}, {}, Simple10), few |-> Of({Spread(16, Deep(11), 5, 1)}, {}, FewForeign)]

(***************************************************************************)
(* Tokens for Commands: the ends of the range of every length code and of  *)
(* every distance symbol that a writer may use, then a small second token  *)
(* and the literals that are left.                                         *)
(***************************************************************************)
Ends(prefixes) ==
  UNION {{prefixes[i][1], prefixes[i][1] + 2 ^ prefixes[i][2] - 1} : i \in DOMAIN prefixes}
UpTo(set, max) == {n \in set : n <= max} \cup {max}

InsertEnds(max) == UpTo(Ends(INSERT_LENGTH_PREFIXES), max)
\* Also two bytes on: q1 writes two bytes of a copy first.
CopyEnds(min, max) ==
  LET ends == Ends(COPY_LENGTH_PREFIXES)
  IN  {n \in UpTo(ends \cup {n + 2 : n \in ends}, max) : n >= min} \cup {min}
DistanceEnds(max) ==
  UNION {{DistanceRead(s, 0, 0, 0), DistanceRead(s, 0, 0, 2 ^ DistanceBits(s, 0, 0) - 1)} :
           s \in {s \in 16 .. 63 : DistanceRead(s, 0, 0, 2 ^ DistanceBits(s, 0, 0) - 1) <= max}}
    \cup {max}

Tok(insert, copy, distance, omit) ==
  [insert |-> insert, copy |-> copy, distance |-> distance, omit |-> omit]
Rest(n) == Tok(n, 0, 1, 0)

\* Distance 4 is the last one at the start; words have distances of their own.
MCOmitted == (16777217 :> 0) @@ (16777300 :> 1) @@ (16777400 :> 3)

First(min, max, maxDistance) ==
  {Tok(i, c, d, 0) : i \in InsertEnds(max - 300), c \in {min, 17, 200}, d \in {4, 9}}
    \cup {Tok(i, c, d, 0) : i \in {0, 7, 30}, c \in CopyEnds(min, max - 30), d \in {4, 9}}
    \cup {Tok(3, 6, d, 0) : d \in DistanceEnds(maxDistance)}
Second(min) == {Tok(0, min, 4, 0), Tok(9, 80, 9, 0)}
Tails == {Rest(0), Rest(300)}

Way(form, code, steps) ==
  [form |-> form, code |-> code, limit |-> 0, static |-> 0, block |-> 0, npostfix |-> 0,
   ndirect |-> 0, steps |-> steps]

\* One-pass blocks of the sizes that their codes are for, and two long ones.
OnePassWay(code, block, total) ==
  [Way("one_pass", code, <<<<"first", 5, total - 400, total - 1>>, <<"long">>, <<"tails">>>>)
   EXCEPT !.block = block]
LongBlock == 2 ^ 18
LongTokens == {Tok(30, 70000, 4, 0), Tok(70000, 5, LongBlock, 0)}
LongWay ==
  [Way("one_pass", "previous",
       <<<<"block">>, <<"fill">>, <<"first", 5, LongBlock - 100000, LongBlock>>, <<"block">>,
         <<"tails">>>>)
   EXCEPT !.block = LongBlock]

Words ==
  {Tok(i, c, d, MCOmitted[d]) : i \in {0, 3, 9}, c \in {4, 7, 21}, d \in DOMAIN MCOmitted}

\* Distances at the ends of what each symbol says with these parameters.
ForeignEnds(npostfix, ndirect) ==
  {d \in {DistanceRead(s, npostfix, ndirect, e * (2 ^ DistanceBits(s, npostfix, ndirect) - 1)) :
            e \in {0, 1}, s \in 16 .. 16 + ndirect + (44 - 2 * npostfix) * 2 ^ npostfix} :
     d < 2 ^ 24}
ForeignTokens(npostfix, ndirect) ==
  {Tok(7, 8, d, 0) : d \in ForeignEnds(npostfix, ndirect)}
    \cup {Tok(i, c, d, 0) : i \in {0, 7, 9, 20, 200}, c \in {2, 3, 4, 5, 17, 80, 3000}, d \in {4, 9}}
ForeignWay(npostfix, ndirect) ==
  [Way("foreign", "counts",
       <<<<"foreign", npostfix, ndirect>>, <<"second", 2>>, <<"last copies">>>>)
   EXCEPT !.npostfix = npostfix, !.ndirect = ndirect]

BlockLengths == {1, 2, 5, 6, 9, 65536, 65537, 2 ^ 20, 2 ^ 20 + 1, 2 ^ 24}
MCWriters ==
  {[Way("tokens", "counts", <<<<"first", 2, 2 ^ 20, 2 ^ 24 - 4>>, <<"second", 2>>, <<"tails">>>>)
      EXCEPT !.limit = 2 ^ 24],
   [Way("tokens", "counts", <<<<"words">>, <<"second", 4>>, <<"words">>, <<"tails">>>>)
      EXCEPT !.limit = 6, !.static = 1],
   [Way("tokens", "counts", <<<<"lengths">>>>) EXCEPT !.limit = 4],
   Way("literals", "counts", <<<<"literals", 2 ^ 24>>>>),
   Way("one_pass_literals", "counts", <<<<"literals", 2 ^ 18>>>>),
   Way("two_pass", "counts", <<<<"first", 4, 65000, 65000>>, <<"second", 4>>, <<"tails">>>>),
   Way("two_pass", "counts", <<<<"literals", 65536>>>>),
   OnePassWay("flat", 4096, 4096), OnePassWay("short", 16384, 16384),
   OnePassWay("long", 65536, 65536), LongWay,
   Way("q1", "counts", <<<<"first", 4, 2 ^ 20, 2 ^ 18 - 16>>, <<"second", 4>>, <<"tails">>>>),
   Way("q1", "counts", <<<<"lengths">>>>),
   ForeignWay(0, 0), ForeignWay(0, 3), ForeignWay(1, 4), ForeignWay(2, 8), ForeignWay(3, 120)}

MCTokensOf(kind) ==
  CASE kind[1] = "first" -> First(kind[2], kind[3], kind[4])
    [] kind[1] = "second" -> Second(kind[2])
    [] kind[1] = "long" -> {Tok(0, 5, 4, 0), Tok(9, 80, 9, 0)}
    [] kind[1] = "block" -> LongTokens
    [] kind[1] = "fill" -> {Rest(LongBlock - t.insert - t.copy) : t \in LongTokens}
    [] kind[1] = "words" -> Words
    [] kind[1] = "foreign" -> ForeignTokens(kind[2], kind[3])
    [] kind[1] = "last copies" -> {Tok(1, 2, 4, 0), Tok(1, 9, 17, 0)}
    [] kind[1] = "lengths" -> {Rest(n) : n \in BlockLengths}
    [] kind[1] = "literals" -> {Rest(n) : n \in InsertEnds(kind[2]) \ {0}}
    [] kind[1] = "tails" -> Tails

(***************************************************************************)
(* Inputs for the encoder's literal blocks, and streams as other encoders  *)
(* write them: block switches of all three categories, context maps with   *)
(* and without runs and moves to front, every context mode, and streams    *)
(* that break the format.  Such a stream is put together from what it      *)
(* means, literal by literal, with the code that is in force there.        *)
(***************************************************************************)
Job(form, bits, meaning) ==
  [form |-> form, lead |-> 1, bits |-> bits, output |-> meaning, verdict |-> "ok",
   cuts |-> FALSE, inputs |-> <<>>, min |-> 4, literalMin |-> 8, contextMin |-> 16, maxCodes |-> 2,
   allPairs |-> 0, sample |-> SamplePeriod, contextBlock |-> 64, literalBlock |-> 64]

(***************************************************************************)
(* Streams of other encoders.                                              *)
(***************************************************************************)
Symbol(code, s) == CodeBits(code.codes[s])
CountBits(code, n) == Symbol(code, (n - 1) \div 4) \o Bits(2, (n - 1) % 4)

\* Blocks of a category: their type, how many elements they have and the
\* symbol that switches to them.
Run(type, count, symbol) == [type |-> type, count |-> count, symbol |-> symbol]
Category(types, symbols, runs) ==
  [types |-> types, runs |-> runs, type_code |-> ListedSimple(symbols, types + 2),
   count_code |-> ListedSimple(<<0, 1, 2, 3>>, 26)]
OneType == Category(1, <<0>>, <<Run(0, 10000, 0)>>)

CategoryBits(c) ==
  VarLenBits(c.types - 1) \o
    IF c.types = 1 THEN <<>>
    ELSE c.type_code.bits \o c.count_code.bits \o CountBits(c.count_code, c.runs[1].count)

Through(c, b) == MapThenSumSet(LAMBDA i : c.runs[i].count, 1 .. b)
RunAt(c, k) == CHOOSE b \in DOMAIN c.runs : Through(c, b - 1) < k /\ k <= Through(c, b)
TypeAt(c, k) == c.runs[RunAt(c, k)].type
SwitchBits(c, k) ==
  LET b == RunAt(c, k)
  IN  IF b = 1 \/ k # Through(c, b - 1) + 1 THEN <<>>
      ELSE Symbol(c.type_code, c.runs[b].symbol) \o CountBits(c.count_code, c.runs[b].count)

\* A context map with its bits: of one tree, plain, or of runs of zeros and
\* values moved to front.
OneTree(size) == [trees |-> 1, map |-> Zeros(size), bits |-> VarLenBits(0)]
PlainMap(map) ==
  LET code == ListedSimple(<<0, 1>>, 2)
  IN  [trees |-> 2, map |-> map,
       bits |-> VarLenBits(1) \o Bits(1, 0) \o code.bits
                  \o Flat([i \in DOMAIN map |-> Symbol(code, map[i])]) \o Bits(1, 0)]
\* A value of more than one is how many zeros.
MapInRuns(trees, rlemax, symbols, values, moved, map) ==
  LET code == ListedSimple(symbols, trees + rlemax)
      Value(v) == IF v < 0 THEN Symbol(code, Log2(-v)) \o Bits(Log2(-v), (-v) - 2 ^ Log2(-v))
                  ELSE Symbol(code, IF v = 0 THEN 0 ELSE v + rlemax)
  IN  [trees |-> trees, map |-> map,
       bits |-> VarLenBits(trees - 1) \o Bits(1, 1) \o Bits(4, rlemax - 1) \o code.bits
                  \o Flat([i \in DOMAIN values |-> Value(values[i])]) \o Bits(1, moved)]
Halves(low, high) == [i \in 1 .. 64 |-> IF i <= 32 THEN low ELSE high]
Same64(tree) == Halves(tree, tree)

\* A command of at most five literals and a copy of two to nine bytes, by
\* the last distance or another.
Command(insert, copy, symbol, extra, width) ==
  [insert |-> insert, copy |-> copy, reuse |-> FALSE, symbol |-> symbol,
   extra |-> Bits(width, extra)]
Reusing(insert, copy) == [Command(insert, copy, 0, 0, 0) EXCEPT !.reuse = TRUE]
CommandSymbolOf(c) == (IF c.reuse THEN 0 ELSE 128) + 8 * c.insert + c.copy - 2
ContextOf(c) == IF c.copy <= 4 THEN c.copy - 2 ELSE 3

\* The body of `block` from command i on, after `pos` bytes of its text,
\* `lits` literals and `dists` distances.
RECURSIVE BodyFrom(_, _, _, _, _)
BodyFrom(block, i, pos, lits, dists) ==
  LET c == block.body[i]
      text == block.text
      Byte(j) == IF j < 1 THEN 0 ELSE text[j]
      Literal(j) ==
        LET type == TypeAt(block.literals, lits + j)
            context == LiteralContext(block.modes[type + 1], Byte(pos + j - 1), Byte(pos + j - 2))
        IN  SwitchBits(block.literals, lits + j)
              \o Symbol(block.literalCodes[block.literalMap.map[64 * type + context + 1] + 1],
                        text[pos + j])
      tree == block.distanceMap.map[4 * TypeAt(block.distances, dists + 1) + ContextOf(c) + 1] + 1
      isLast == pos + c.insert = Len(text)
  IN  SwitchBits(block.commands, i)
        \o Symbol(block.commandCodes[TypeAt(block.commands, i) + 1], CommandSymbolOf(c))
        \o Flat([j \in 1 .. c.insert |-> Literal(j)])
        \o (IF isLast \/ c.reuse THEN <<>>
            ELSE SwitchBits(block.distances, dists + 1)
                   \o Symbol(block.distanceCodes[tree], c.symbol) \o c.extra)
        \o IF isLast \/ i = Len(block.body) THEN <<>>
           ELSE BodyFrom(block, i + 1, pos + c.insert + c.copy, lits + c.insert,
                         IF c.reuse THEN dists ELSE dists + 1)

BlockBits(block) ==
  MetaBlockLen(block.len) \o CategoryBits(block.literals) \o CategoryBits(block.commands)
    \o CategoryBits(block.distances) \o Bits(2, block.npostfix) \o Bits(4, block.ndirect)
    \o Flat([i \in DOMAIN block.modes |-> Bits(2, block.modes[i])])
    \o block.literalMap.bits \o block.distanceMap.bits
    \o Flat([i \in DOMAIN block.literalCodes |-> block.literalCodes[i].bits])
    \o Flat([i \in DOMAIN block.commandCodes |-> block.commandCodes[i].bits])
    \o Flat([i \in DOMAIN block.distanceCodes |-> block.distanceCodes[i].bits])
    \o BodyFrom(block, 1, 0, 0, 0)

LiteralCode(symbols) == ListedSimple(symbols, LITERAL_ALPHABET_SIZE)
CommandCode(commands) ==
  ListedSimple([i \in DOMAIN commands |-> CommandSymbolOf(commands[i])], COMMAND_ALPHABET_SIZE)
\* One type and one tree of each, the same literal each time.
PlainBlock(text, body) ==
  [len |-> Len(text), text |-> text, body |-> body, npostfix |-> 0, ndirect |-> 0, modes |-> <<0>>,
   literals |-> OneType, commands |-> OneType, distances |-> OneType,
   literalMap |-> OneTree(64), distanceMap |-> OneTree(4),
   literalCodes |-> <<LiteralCode(<<65, 97>>)>>, commandCodes |-> <<CommandCode(SubSeq(body, 1, Lesser(2, Len(body))))>>,
   distanceCodes |-> <<ListedSimple(<<17>>, 64)>>]

\* Three types of literals, two of commands and of distances.
Switching ==
  LET body == <<Command(4, 3, 16, 1, 1), Reusing(3, 2), Command(5, 4, 17, 0, 1),
                Command(2, 5, 1, 0, 0), Command(3, 2, 0, 0, 0)>>
  IN  [PlainBlock(<<65, 97, 200, 65, 200, 65, 200, 97, 97, 65, 97, 65, 200, 65, 97, 200, 200, 97,
                    200, 200, 97, 65, 200, 65, 200, 65, 200, 65, 97, 65, 200>>, body) EXCEPT
         !.modes = <<0, 2, 3>>,
         !.literals = Category(3, <<0, 1, 4>>, <<Run(0, 3, 0), Run(1, 2, 1), Run(0, 2, 0),
                                                 Run(2, 4, 4), Run(0, 9, 1)>>),
         !.commands = Category(2, <<1, 0>>, <<Run(0, 2, 0), Run(1, 1, 1), Run(0, 4, 0)>>),
         !.distances = Category(2, <<0, 3>>, <<Run(0, 1, 0), Run(1, 1, 3), Run(0, 5, 0)>>),
         !.literalMap = MapInRuns(3, 5, <<4, 5, 6, 7>>, <<-32, 1, -31, 2, -63, 1, -31, 2, -31>>, 1,
                                  Halves(0, 1) \o Same64(2) \o Halves(1, 0)),
         !.distanceMap = PlainMap(<<0, 1, 0, 1, 1, 1, 0, 0>>),
         !.literalCodes = <<LiteralCode(<<65, 97, 200>>), LiteralCode(<<97, 65, 200>>),
                            LiteralCode(<<200, 65, 97, 1>>)>>,
         !.commandCodes = <<CommandCode(<<body[1], body[2], body[4], body[5]>>),
                            CommandCode(<<body[1], body[3]>>)>>,
         !.distanceCodes = <<ListedSimple(<<16, 17>>, 64), ListedSimple(<<1, 16, 18>>, 64)>>]

\* Two literal trees, one of a symbol that takes no bits, and distances of
\* other parameters; then a code of one literal.
Postfixed ==
  LET body == <<Command(5, 4, 17, 0, 0), Command(2, 2, 0, 0, 0)>>
  IN  [PlainBlock(<<65, 200, 65, 97, 200, 97, 200, 97, 200, 65, 65>>, body) EXCEPT
         !.modes = <<1>>, !.npostfix = 1, !.ndirect = 1,
         !.literalMap = PlainMap(Halves(0, 1)),
         !.literalCodes = <<LiteralCode(<<65, 97, 200>>), LiteralCode(<<65>>)>>,
         !.distanceCodes = <<ListedSimple(<<17>>, 16 + 2 + 96)>>]
OnlyOne ==
  [PlainBlock([i \in 1 .. 5 |-> 97], <<Command(5, 2, 0, 0, 0)>>) EXCEPT
     !.literalCodes = <<LiteralCode(<<97>>)>>]

Short == PlainBlock(<<65, 97, 65, 65, 97, 65, 65>>, <<Command(4, 3, 17, 0, 1)>>)
WithoutWord ==
  PlainBlock(<<65, 97, 97, 97, 65, 65, 65>>, <<Command(2, 2, 16, 0, 1), Command(1, 2, 4, 0, 0)>>)
Foreign(list, verdict, cuts) ==
  [Job("foreign", Bits(1, 0) \o Flat([i \in DOMAIN list |-> BlockBits(list[i])]),
       Flat([i \in DOMAIN list |-> list[i].text]))
   EXCEPT !.verdict = verdict, !.cuts = cuts]
WellFormed == <<<<Postfixed, OnlyOne>>, <<Short>>>>
Malformed ==
  <<[Short EXCEPT !.literalMap = MapInRuns(2, 5, <<4, 5>>, <<-32, -63>>, 0, Same64(1)),
                  !.literalCodes = <<LiteralCode(<<65>>), LiteralCode(<<97, 65>>)>>],
    [Short EXCEPT !.len = 3], [Short EXCEPT !.len = 6],
    [WithoutWord EXCEPT !.distanceCodes = <<ListedSimple(<<16, 4>>, 64)>>]>>
ForeignJobs ==
  {Foreign(<<Switching>>, "ok", TRUE)}
    \cup {Foreign(WellFormed[i], "ok", FALSE) : i \in 1 .. 2}
    \cup {Foreign(<<Malformed[i]>>, "bad", FALSE) : i \in 1 .. 4}

(***************************************************************************)
(* Inputs.                                                                 *)
(***************************************************************************)
\* Samples of two bytes, the second by the first; `n` of them.
Samples(n, highs) ==
  Flat([i \in 1 .. n |->
          LET h == highs[(i % Len(highs)) + 1] IN <<h, (h + 64 * (i % 2) + 2) % 256>>])
Distinct(n, most) == [i \in 1 .. n |-> (i * 7) % most]

Encode(list) == [Job("encode", Bits(1, 0), <<>>) EXCEPT !.inputs = list]
EncodeJobs ==
  {[Encode(<<<<9, 9, 130>>, Samples(24, <<1, 130>>), <<64, 130>>, Samples(10, <<130, 1>>)>>)
      EXCEPT !.allPairs = 3, !.contextBlock = 28],
   Encode(<<Samples(16, <<1, 1, 130>>), Distinct(16, 16)>>),
   [Encode(<<[i \in 1 .. 96 |-> 128 * (i % 2) + 2]>>) EXCEPT !.sample = 4, !.contextBlock = 96],
   [Encode(<<Samples(32, <<1, 130>>)>>) EXCEPT !.sample = 2],
   [Encode(<<Distinct(96, 16)>>) EXCEPT !.sample = 4],
   [Encode(<<Distinct(90, 256) \o Samples(8, <<1, 3>>), <<1, 2, 3, 4, 5, 6>>>>) EXCEPT
      !.maxCodes = 1, !.literalBlock = 60],
   [Encode(<<<<9, 9, 201>>, <<1, 2, 3, 4>>, Samples(10, <<1, 7>>)>>) EXCEPT !.cuts = TRUE]}

MCBlockJobs == EncodeJobs \cup ForeignJobs

=============================================================================
