----------------------------- MODULE PrefixTables -----------------------------
(***************************************************************************)
(* The decoder's prefix codes (crates/decode/src/huffman.rs): a header is  *)
(* read into lists of symbols by code length, and the lists are built into *)
(* a root table indexed by the next RootBits bits, with second-level       *)
(* tables behind it for longer codes.  All codes of a group share one      *)
(* buffer, whose entries address it absolutely.                            *)
(*                                                                         *)
(* ReadCode answers with how the read ended, the bits consumed and the     *)
(* lists: "ok", "end" (the input ended inside the code) or "bad".          *)
(***************************************************************************)
EXTENDS PrefixBits, FiniteSets, TLC

LOCAL INSTANCE FiniteSetsExt

CONSTANTS
  RootBits,          (* ROOT_BITS                                          *)
  WideRootBits,      (* WIDE_ROOT_BITS                                     *)
  WideRootMinShare,  (* WIDE_ROOT_MIN_SHARE, in 1/2^MaxCodeBits            *)
  MaxAlphabet        (* MAX_ALPHABET_SIZE                                  *)

ASSUME PrefixTablesAssumption ==
  /\ {RootBits, WideRootBits, WideRootMinShare, MaxAlphabet} \subseteq Nat \ {0}
  /\ RootBits < WideRootBits

LengthCodeBits == 5
Lengths == 0 .. MaxCodeBits

(***************************************************************************)
(* SymbolLists: slot `len` of links heads the list of that length, slot    *)
(* ListHeads + symbol is the symbol's link to the next.                    *)
(***************************************************************************)
ListHeads == MaxCodeBits + 1

NewLists ==
  [links |-> [slot \in 0 .. ListHeads + MaxAlphabet - 1 |-> 0],
   tails |-> [len \in Lengths |-> len],
   counts |-> [len \in Lengths |-> 0],
   total |-> 0]

\* A bug: the tails of the code before stay.
Clear_KeepsTails(lists) == [lists EXCEPT !.counts = NewLists.counts, !.total = 0]

\* Clearing keeps the links: the counts bound every list.
Clear(lists) == [NewLists EXCEPT !.links = lists.links]

PushSymbol(lists, symbol, len) ==
  [lists EXCEPT !.links[lists.tails[len]] = ListHeads + symbol,
                !.tails[len] = ListHeads + symbol,
                !.counts[len] = @ + 1,
                !.total = @ + 1]

PushRun(lists, start, end, len) ==
  LET first == ListHeads + start
      last == ListHeads + end - 1
  IN  [links |-> [slot \in first .. last - 1 |-> slot + 1]
                   @@ (lists.tails[len] :> first) @@ lists.links,
       tails |-> [lists.tails EXCEPT ![len] = last],
       counts |-> [lists.counts EXCEPT ![len] = @ + (end - start)],
       total |-> lists.total + (end - start)]

RECURSIVE Chain(_, _, _)
Chain(links, slot, n) ==
  IF n = 0 THEN <<>>
  ELSE LET next == links[slot] IN <<next - ListHeads>> \o Chain(links, next, n - 1)

SymbolsOf(lists, len) == Chain(lists.links, len, lists.counts[len])

UsedLengths(lists) == {len \in Lengths : lists.counts[len] # 0}
MaxBitsOf(lists) == IF UsedLengths(lists) = {} THEN 0 ELSE Max(UsedLengths(lists))
OnlySymbol(lists) ==
  LET len == IF UsedLengths(lists) = {} THEN 0 ELSE Min(UsedLengths(lists))
  IN  Greater(lists.links[len] - ListHeads, 0)

(***************************************************************************)
(* Tables.                                                                 *)
(***************************************************************************)
Entry(value, len) == [value |-> value, len |-> len]
EMPTY == Entry(0, 0)

\* The symbols in canonical order with their codes.
RECURSIVE Walk(_, _, _)
Walk(lists, len, code) ==
  IF len > MaxBitsOf(lists) THEN <<>>
  ELSE LET symbols == SymbolsOf(lists, len)
       IN  [i \in 1 .. Len(symbols) |->
              [symbol |-> symbols[i], len |-> len, code |-> code + i - 1, placed |-> i - 1]]
           \o Walk(lists, len + 1, 2 * (code + Len(symbols)))

\* The length at which the codes not yet placed fill `left` slots.
RECURSIVE FillsAt(_, _, _)
FillsAt(remaining, len, left) ==
  IF len >= MaxCodeBits \/ left <= remaining[len] THEN len
  ELSE FillsAt(remaining, len + 1, 2 * (left - remaining[len]))

NextTableBits(remaining, len, rootBits) ==
  FillsAt(remaining, len, 2 ^ (len - rootBits)) - rootBits

RECURSIVE FirstCode(_, _)
FirstCode(counts, len) ==
  IF len <= 1 THEN 0 ELSE 2 * (FirstCode(counts, len - 1) + counts[len - 1])

\* second_level_size replays the walk from the length counts alone.
RECURSIVE SecondLevelSize(_, _, _, _, _)
SecondLevelSize(counts, rootBits, len, code, prefix) ==
  IF len > MaxCodeBits THEN 0
  ELSE LET sub == len - rootBits
           end == code + counts[len]
           starts == {c \in code .. end - 1 :
                        IF c = code THEN c \div 2 ^ sub # prefix ELSE c % 2 ^ sub = 0}
           Size(c) == 2 ^ NextTableBits([counts EXCEPT ![len] = end - c], len, rootBits)
       IN  MapThenSumSet(Size, starts)
           + SecondLevelSize(counts, rootBits, len + 1, 2 * end,
               IF end > code THEN (end - 1) \div 2 ^ sub ELSE prefix)

\* The second-level tables in the order they are placed: the codes of the
\* walk each holds, its width and where it starts.
RECURSIVE SecondTables(_, _, _, _, _)
SecondTables(long, counts, rootBits, from, start) ==
  IF from > Len(long) THEN <<>>
  ELSE LET Prefix(x) == x.code \div 2 ^ (x.len - rootBits)
           first == long[from]
           to == CHOOSE j \in from .. Len(long) :
                   /\ \A i \in from .. j : Prefix(long[i]) = Prefix(first)
                   /\ j < Len(long) => Prefix(long[j + 1]) # Prefix(first)
           bits == NextTableBits(
                     [counts EXCEPT ![first.len] = @ - first.placed], first.len, rootBits)
       IN  <<[from |-> from, to |-> to, bits |-> bits, start |-> start,
              key |-> Reverse(Prefix(first), rootBits)]>>
           \o SecondTables(long, counts, rootBits, to + 1, start + 2 ^ bits)

\* The slots of a table of 2^width entries behind `drop` bits of the codes,
\* each with the code that fills it: the slot ends in the rest of the code,
\* reversed.
Filled(codes, width, drop) ==
  LET Step(x) == 2 ^ (x.len - drop)
      Slot(x) == Reverse(x.code % Step(x), x.len - drop)
  IN  [slot \in 0 .. 2 ^ width - 1 |->
         LET hits == {j \in DOMAIN codes : slot % Step(codes[j]) = Slot(codes[j])}
         IN  IF hits = {} THEN EMPTY
             ELSE LET x == codes[CHOOSE j \in hits : TRUE] IN Entry(x.symbol, x.len)]

\* The second-level tables with their slots.
SlotsOf(long, tables, rootBits) ==
  <<>> \o [t \in DOMAIN tables |->
             tables[t] @@ [slots |-> Filled(SubSeq(long, tables[t].from, tables[t].to),
                                            tables[t].bits, rootBits)]]
SecondLevel(long, counts, rootBits, start) ==
  SlotsOf(long, SecondTables(long, counts, rootBits, 1, start), rootBits)

\* `entries` with a root at `base`, its slots repeated, and `size` slots of
\* second-level tables at the end.
Laid(entries, base, rootBits, root, tables, size) ==
  LET second == Cardinality(DOMAIN entries)
  IN  [k \in 0 .. second + size - 1 |->
         IF k >= second
         THEN LET t == CHOOSE t \in DOMAIN tables :
                         k \in tables[t].start .. tables[t].start + 2 ^ tables[t].bits - 1
              IN  tables[t].slots[k - tables[t].start]
         ELSE IF k \notin base .. base + 2 ^ rootBits - 1 THEN entries[k]
         ELSE LET keyed == {t \in DOMAIN tables : base + tables[t].key = k}
              IN  IF keyed # {}
                  THEN LET t == CHOOSE t \in keyed : TRUE
                       IN  Entry(tables[t].start, rootBits + tables[t].bits)
                  ELSE root[(k - base) % Cardinality(DOMAIN root)]]

\* build_code: a root filled to the width of its longest code, and
\* second-level tables.
BuildFrom(entries, base, rootBits, lists, walk) ==
  Laid(entries, base, rootBits,
    <<>> @@ Filled(SelectSeq(walk, LAMBDA x : x.len <= rootBits),
                   Lesser(MaxBitsOf(lists), rootBits), 0),
    SecondLevel(SelectSeq(walk, LAMBDA x : x.len > rootBits), lists.counts, rootBits,
                Cardinality(DOMAIN entries)),
    SecondLevelSize(lists.counts, rootBits, rootBits + 1,
                    FirstCode(lists.counts, rootBits + 1), -1))
BuildCode(entries, base, rootBits, lists) ==
  BuildFrom(entries, base, rootBits, lists, Walk(lists, 1, 0))

\* Table::lookup: the entry for the low bits of w.
Lookup(entries, base, rootBits, w) ==
  LET root == entries[base + (w % 2 ^ rootBits)]
      sub == root.value + ((w \div 2 ^ rootBits) % 2 ^ (root.len - rootBits))
  IN  IF root.len <= rootBits THEN root
      ELSE IF sub \in DOMAIN entries THEN entries[sub] ELSE EMPTY

(***************************************************************************)
(* CodeGroup.                                                              *)
(***************************************************************************)
NewGroup(count, wide) ==
  [entries |-> [k \in 0 .. count * 2 ^ RootBits - 1 |-> EMPTY],
   max_bits |-> 0, wants_wide |-> wide /\ count = 1, wide |-> <<>>]

LongCodeShare(counts) ==
  MapThenSumSet(LAMBDA len : counts[len] * 2 ^ (MaxCodeBits - len), RootBits + 1 .. MaxCodeBits)

SetCode(group, tree, lists) ==
  LET base == tree * 2 ^ RootBits
      only == Entry(OnlySymbol(lists), 0)
  IN  IF lists.total = 1
      THEN [group EXCEPT !.entries =
              [k \in base .. base + 2 ^ RootBits - 1 |-> only] @@ @]
      ELSE [group EXCEPT
              !.entries = BuildCode(@, base, RootBits, lists),
              !.wide = IF group.wants_wide /\ LongCodeShare(lists.counts) > WideRootMinShare
                       THEN BuildCode([k \in 0 .. 2 ^ WideRootBits - 1 |-> EMPTY], 0,
                                      WideRootBits, lists)
                       ELSE @,
              !.max_bits = Greater(@, MaxBitsOf(lists))]

(***************************************************************************)
(* Reading a header.                                                       *)
(***************************************************************************)
Answer(st, at, lists) == [st |-> st, at |-> at, lists |-> lists]

SimpleLengths(n, deep) ==
  CASE n = 1 -> <<0>>
    [] n = 2 -> <<1, 1>>
    [] n = 3 -> <<1, 2, 2>>
    [] n = 4 -> IF deep THEN <<1, 2, 3, 3>> ELSE <<2, 2, 2, 2>>

RECURSIVE PushAll(_, _)
PushAll(lists, pairs) ==
  IF pairs = <<>> THEN lists
  ELSE PushAll(PushSymbol(lists, Head(pairs).symbol, Greater(Head(pairs).len, 1)), Tail(pairs))

ReadSimple(bits, at, alphabet, lists) ==
  LET n == Peek(bits, at, 2) + 1
      width == AlphabetBits(alphabet)
      After(i) == at + 2 + i * width
      Symbol(i) == Peek(bits, After(i - 1), width)
      Missing(i) == After(i) > Len(bits)
      Invalid(i) == Symbol(i) >= alphabet \/ \E j \in 1 .. i - 1 : Symbol(j) = Symbol(i)
      stops == {i \in 1 .. n : Missing(i) \/ Invalid(i)}
      end == After(n) + (IF n = 4 THEN 1 ELSE 0)
      lens == SimpleLengths(n, Peek(bits, After(n), 1) = 1)
      pairs == SortSeq([i \in 1 .. n |-> [symbol |-> Symbol(i), len |-> lens[i]]],
                       LAMBDA a, b : a.symbol < b.symbol)
  IN  CASE at + 2 > Len(bits) -> Answer("end", at, lists)
        [] at + 2 <= Len(bits) /\ stops # {} ->
             Answer(IF Missing(Min(stops)) THEN "end" ELSE "bad", at, lists)
        [] at + 2 <= Len(bits) /\ stops = {} /\ end > Len(bits) -> Answer("end", at, lists)
        [] OTHER -> Answer("ok", end, PushAll(Clear(lists), pairs))

CODE_LENGTH_PREFIX_LEN == <<2, 2, 2, 3, 2, 2, 2, 4, 2, 2, 2, 3, 2, 2, 2, 4>>
CODE_LENGTH_PREFIX_VALUE == <<0, 4, 3, 2, 0, 4, 3, 1, 0, 4, 3, 2, 0, 4, 3, 5>>

\* A bug: only a full peek is read.
ReadCodeLengthLen_FourBits(bits, at) ==
  LET index == Peek(bits, at, 4) + 1
  IN  IF Len(bits) - at < 4 THEN [st |-> "end", at |-> at, value |-> 0]
      ELSE [st |-> "ok", at |-> at + CODE_LENGTH_PREFIX_LEN[index],
            value |-> CODE_LENGTH_PREFIX_VALUE[index]]

\* read_code_length_code_len peeks up to four bits and takes two to four.
ReadCodeLengthLen(bits, at) ==
  LET available == Lesser(Len(bits) - at, 4)
      index == Peek(bits, at, available) + 1
      len == CODE_LENGTH_PREFIX_LEN[index]
  IN  IF available < 2 \/ len > available THEN [st |-> "end", at |-> at, value |-> 0]
      ELSE [st |-> "ok", at |-> at + len, value |-> CODE_LENGTH_PREFIX_VALUE[index]]

\* The lengths of the code-length code from place i of the order on.
RECURSIVE ReadLengthLens(_, _, _)
ReadLengthLens(bits, r, i) ==
  LET next == ReadCodeLengthLen(bits, r.at)
      len == next.value
      space == IF len = 0 THEN r.space ELSE r.space - (32 \div 2 ^ len)
      nonZero == IF len = 0 THEN r.nonZero ELSE r.nonZero + 1
  IN  CASE i > Len(CODE_LENGTH_ORDER) -> r
        [] i <= Len(CODE_LENGTH_ORDER) /\ next.st = "end" -> [r EXCEPT !.st = "end"]
        [] i <= Len(CODE_LENGTH_ORDER) /\ next.st = "ok" /\ space < 0 ->
             [r EXCEPT !.st = "bad"]
        [] OTHER ->
             LET read == [st |-> "ok", at |-> next.at, space |-> space, nonZero |-> nonZero,
                          lens |-> [r.lens EXCEPT ![CODE_LENGTH_ORDER[i]] = len]]
             IN  IF len # 0 /\ nonZero >= 2 /\ space = 0 THEN read
                 ELSE ReadLengthLens(bits, read, i + 1)

\* LengthCode::new: one table of 5 bits; one symbol takes no bits.
LengthTable(lens, nonZero) ==
  LET used == {s \in 0 .. 17 : lens[s] # 0}
      counts == [len \in Lengths |-> Cardinality({s \in used : lens[s] = len})]
      Code(s) == FirstCode(counts, lens[s]) + Cardinality({t \in used : t < s /\ lens[t] = lens[s]})
  IN  [slot \in 0 .. 31 |->
         IF nonZero = 1 THEN Entry(Min(used), 0)
         ELSE LET hits == {s \in used : slot % 2 ^ lens[s] = Reverse(Code(s), lens[s])}
              IN  IF hits = {} THEN EMPTY ELSE Entry(Min(hits), lens[Min(hits)])]

\* One code length; a repeat right after one of the same code extends it.
Repeated(r, code, digit) ==
  LET len == IF code = 16 THEN r.previous ELSE 0
      before == IF len # r.repeatLen THEN 0 ELSE r.repeat
      repeat == (IF before > 0 THEN (before - 2) * 2 ^ (code - 14) ELSE 0) + digit + 3
  IN  [len |-> len, repeat |-> repeat, end |-> r.symbol + (repeat - before)]

RECURSIVE ReadSymbolLengths(_, _, _, _)
ReadSymbolLengths(bits, alphabet, table, r) ==
  IF r.symbol >= alphabet \/ r.space <= 0
  THEN Answer(IF r.space = 0 THEN "ok" ELSE "bad", r.at, r.lists)
  ELSE
    LET entry == table[Peek(bits, r.at, LengthCodeBits)]
        code == entry.value
        at == r.at + entry.len
        extra == code - 14
        run == Repeated(r, code, Peek(bits, at, extra))
        one == [at |-> at, symbol |-> r.symbol + 1, repeat |-> 0, repeatLen |-> r.repeatLen,
                previous |-> IF code # 0 THEN code ELSE r.previous,
                space |-> IF code # 0 THEN r.space - 2 ^ (MaxCodeBits - code) ELSE r.space,
                lists |-> IF code # 0 THEN PushSymbol(r.lists, r.symbol, code) ELSE r.lists]
        more == [at |-> at + extra, symbol |-> run.end, repeat |-> run.repeat,
                 repeatLen |-> run.len, previous |-> r.previous,
                 space |-> IF run.len = 0 THEN r.space
                           ELSE r.space - (run.end - r.symbol) * 2 ^ (MaxCodeBits - run.len),
                 lists |-> IF run.len = 0 THEN r.lists
                           ELSE PushRun(r.lists, r.symbol, run.end, run.len)]
    IN  CASE at > Len(bits) -> Answer("end", r.at, r.lists)
          [] at <= Len(bits) /\ code <= 15 -> ReadSymbolLengths(bits, alphabet, table, one)
          [] at <= Len(bits) /\ code > 15 /\ at + extra > Len(bits) ->
               Answer("end", r.at, r.lists)
          [] at + extra <= Len(bits) /\ code > 15 /\ run.end > alphabet ->
               Answer("bad", r.at, r.lists)
          [] OTHER -> ReadSymbolLengths(bits, alphabet, table, more)

\* The code lengths in the code-length code that `r` read.
ReadWith(bits, at, alphabet, lists, r) ==
  CASE r.st # "ok" -> Answer(r.st, at, lists)
    [] r.st = "ok" /\ r.nonZero # 1 /\ r.space # 0 -> Answer("bad", at, lists)
    [] OTHER ->
         ReadSymbolLengths(bits, alphabet, LengthTable(r.lens, r.nonZero),
           [at |-> r.at, symbol |-> 0, space |-> 2 ^ MaxCodeBits, previous |-> 8,
            repeat |-> 0, repeatLen |-> 0, lists |-> Clear(lists)])

ReadComplex(bits, at, alphabet, hskip, lists) ==
  ReadWith(bits, at, alphabet, lists,
    ReadLengthLens(bits,
      [st |-> "ok", at |-> at, space |-> 32, nonZero |-> 0, lens |-> [s \in 0 .. 17 |-> 0]],
      hskip + 1))

\* read_code_with up to set_code.
ReadCode(bits, at, alphabet, lists) ==
  LET hskip == Peek(bits, at, 2)
  IN  CASE at + 2 > Len(bits) -> Answer("end", at, lists)
        [] at + 2 <= Len(bits) /\ hskip = 1 -> ReadSimple(bits, at + 2, alphabet, lists)
        [] OTHER -> ReadComplex(bits, at + 2, alphabet, hskip, lists)
=============================================================================
