----------------------------- MODULE BlockHeader ------------------------------
(***************************************************************************)
(* The header of a compressed meta-block (read_header and CodeGroup::read, *)
(* crates/decode/src/compressed.rs and huffman.rs): block types with their *)
(* counts, context modes, context maps and the prefix codes of the three   *)
(* categories, and how a block switch and the context of a literal choose  *)
(* among those codes.                                                      *)
(*                                                                         *)
(* A read answers with how it ended, "ok", "end" or "bad", where it ended  *)
(* and its value; what follows a read that failed fails as it did.         *)
(***************************************************************************)
EXTENDS PrefixTables

LOCAL INSTANCE Bitwise

CONSTANT WideRootMinLen   \* WIDE_ROOT_MIN_LEN

ASSUME BlockHeaderAssumption == WideRootMinLen \in Nat

LITERAL_ALPHABET_SIZE == 256
COMMAND_ALPHABET_SIZE == 704
BLOCK_LENGTH_ALPHABET_SIZE == 26

Got(st, at, value) == [st |-> st, at |-> at, value |-> value]
Good(at, value) == Got("ok", at, value)
Refused(at) == Got("bad", at, 0)
RunOut(at) == Got("end", at, 0)
Then(r, F(_)) == IF r.st = "ok" THEN F(r) ELSE r

ReadBits(bits, at, n) ==
  IF at + n > Len(bits) THEN RunOut(at) ELSE Good(at + n, Peek(bits, at, n))

\* read_var_len_u8
ReadVarLen(bits, at) ==
  Then(ReadBits(bits, at, 1), LAMBDA flag :
    IF flag.value = 0 THEN flag
    ELSE Then(ReadBits(bits, flag.at, 3), LAMBDA width :
           Then(ReadBits(bits, width.at, width.value), LAMBDA extra :
             Good(extra.at, 2 ^ width.value + extra.value))))

(***************************************************************************)
(* Prefix codes.                                                           *)
(***************************************************************************)
RECURSIVE ReadTrees(_, _, _, _, _, _, _)
ReadTrees(bits, at, alphabet, count, read, group, lists) ==
  IF read = count THEN Good(at, group)
  ELSE Then(ReadCode(bits, at, alphabet, lists), LAMBDA r :
         ReadTrees(bits, r.at, alphabet, count, read + 1, SetCode(group, read, r.lists), r.lists))

\* CodeGroup::read
ReadGroup(bits, at, count, alphabet, wide) ==
  ReadTrees(bits, at, alphabet, count, 0, NewGroup(count, wide), NewLists)

\* Tables::table, wide_table
TableOf(group, tree) == [entries |-> group.entries, base |-> tree * 2 ^ RootBits, root |-> RootBits]
WideTable(group) == [entries |-> group.wide, base |-> 0, root |-> WideRootBits]

LookedUp(bits, at, table) ==
  Lookup(table.entries, table.base, table.root, Peek(bits, at, MaxCodeBits))

\* Table::decode; bits past the end of the input are zero.
DecodeSymbol(bits, at, table) ==
  LET entry == LookedUp(bits, at, table)
  IN  IF entry.len > Len(bits) - at THEN RunOut(at) ELSE Good(at + entry.len, entry.value)

\* single_symbol: the one symbol of a code, or none.
SingleSymbol(group, tree) ==
  LET first == group.entries[tree * 2 ^ RootBits]
  IN  IF first.len = 0 THEN {first.value} ELSE {}

(***************************************************************************)
(* Block types and counts.                                                 *)
(***************************************************************************)
BLOCK_COUNT_PREFIXES ==
  <<<<1, 2>>, <<5, 2>>, <<9, 2>>, <<13, 2>>, <<17, 3>>, <<25, 3>>, <<33, 3>>, <<41, 3>>, <<49, 4>>,
    <<65, 4>>, <<81, 4>>, <<97, 4>>, <<113, 5>>, <<145, 5>>, <<177, 5>>, <<209, 5>>, <<241, 6>>,
    <<305, 6>>, <<369, 7>>, <<497, 8>>, <<753, 9>>, <<1265, 10>>, <<2289, 11>>, <<4337, 12>>,
    <<8433, 13>>, <<16625, 24>>>>

ReadBlockCount(bits, at, code) ==
  Then(DecodeSymbol(bits, at, TableOf(code, 0)), LAMBDA symbol :
    LET prefix == BLOCK_COUNT_PREFIXES[symbol.value + 1]
    IN  Then(ReadBits(bits, symbol.at, prefix[2]),
             LAMBDA extra : Good(extra.at, prefix[1] + extra.value)))

\* A category of one type counts down from more than a meta-block holds.
UNLIMITED == 2 ^ 30
SingleType ==
  [types |-> 1, current |-> 0, previous |-> 1, remaining |-> UNLIMITED,
   type_code |-> <<>>, count_code |-> <<>>]

\* A bug: the type before is not kept.
SwitchTo_Forgets(category, symbol) ==
  [category EXCEPT
     !.current = CASE symbol = 0 -> category.previous
                   [] symbol = 1 -> (category.current + 1) % category.types
                   [] OTHER -> symbol - 2]

\* BlockCategory::switch: the type before, the next type, or any.
SwitchTo(category, symbol) ==
  [category EXCEPT
     !.previous = category.current,
     !.current = CASE symbol = 0 -> category.previous
                   [] symbol = 1 -> (category.current + 1) % category.types
                   [] OTHER -> symbol - 2]

Switch(bits, at, category) ==
  Then(DecodeSymbol(bits, at, TableOf(category.type_code, 0)), LAMBDA symbol :
    IF symbol.value - 2 >= category.types THEN Refused(symbol.at)
    ELSE Then(ReadBlockCount(bits, symbol.at, category.count_code), LAMBDA count :
           Good(count.at, [SwitchTo(category, symbol.value) EXCEPT !.remaining = count.value])))

\* A category in which the next element is counted off: after a switch, when
\* its block is at its end.
Counting(bits, at, category) ==
  Then(IF category.remaining = 0 THEN Switch(bits, at, category) ELSE Good(at, category),
       LAMBDA r : Good(r.at, [r.value EXCEPT !.remaining = @ - 1]))

\* read_block_category_header
ReadCategory(bits, at) ==
  Then(ReadVarLen(bits, at), LAMBDA types :
    IF types.value = 0 THEN Good(types.at, SingleType)
    ELSE Then(ReadGroup(bits, types.at, 1, types.value + 3, FALSE), LAMBDA typeCode :
           Then(ReadGroup(bits, typeCode.at, 1, BLOCK_LENGTH_ALPHABET_SIZE, FALSE), LAMBDA countCode :
             Then(ReadBlockCount(bits, countCode.at, countCode.value), LAMBDA first :
               Good(first.at,
                    [types |-> types.value + 1, current |-> 0, previous |-> 1,
                     remaining |-> first.value, type_code |-> typeCode.value,
                     count_code |-> countCode.value])))))

(***************************************************************************)
(* Context maps.                                                           *)
(***************************************************************************)
Zeros(n) == [i \in 1 .. n |-> 0]

\* A value or a run of zeros more of the map `read`.
MapEntry(bits, read, code, rlemax, trees, size) ==
  Then(DecodeSymbol(bits, read.at, TableOf(code, 0)), LAMBDA symbol :
    LET s == symbol.value
        value == Greater(s - rlemax, 0)
    IN  IF s \in 1 .. rlemax
        THEN Then(ReadBits(bits, symbol.at, s), LAMBDA extra :
               LET repeat == 2 ^ s + extra.value
               IN  IF Len(read.value) + repeat > size THEN Refused(extra.at)
                   ELSE Good(extra.at, read.value \o Zeros(repeat)))
        ELSE IF value >= trees THEN Refused(symbol.at)
        ELSE Good(symbol.at, Append(read.value, value)))
\* At most `times` of them, half of them first.
RECURSIVE FillMap(_, _, _, _, _, _, _)
FillMap(bits, read, code, rlemax, trees, size, times) ==
  LET Fill(r, n) == FillMap(bits, r, code, rlemax, trees, size, n)
  IN  IF read.st # "ok" \/ Len(read.value) >= size THEN read
      ELSE IF times = 1 THEN MapEntry(bits, read, code, rlemax, trees, size)
      ELSE Fill(Fill(read, times \div 2), times - times \div 2)

\* inverse_move_to_front
MoveNext(indices, moved) ==
  LET index == indices[Len(moved.map) + 1]
      resolved == moved.front[index]
  IN  [map |-> Append(moved.map, resolved),
       front |-> <<>> @@ [i \in DOMAIN moved.front |->
                            IF i = 0 THEN resolved
                            ELSE IF i <= index THEN moved.front[i - 1] ELSE moved.front[i]]]
\* Until `end` are moved, half of them first.
RECURSIVE Move(_, _, _)
Move(indices, moved, end) ==
  LET done == Len(moved.map)
  IN  IF done >= end THEN moved
      ELSE IF done = end - 1 THEN MoveNext(indices, moved)
      ELSE Move(indices, Move(indices, moved, (done + end) \div 2), end)
MovedToFront(indices) ==
  Move(indices, [map |-> <<>>, front |-> [i \in 0 .. 255 |-> i]], Len(indices)).map

\* read_context_map; with one tree there is nothing to read.
ReadMaxRun(bits, at) ==
  Then(ReadBits(bits, at, 1), LAMBDA flag :
    IF flag.value = 0 THEN flag
    ELSE Then(ReadBits(bits, flag.at, 4), LAMBDA n : Good(n.at, n.value + 1)))

ReadContextMap(bits, at, size, trees) ==
  IF trees = 1 THEN Good(at, Zeros(size))
  ELSE Then(ReadMaxRun(bits, at), LAMBDA rlemax :
    Then(ReadGroup(bits, rlemax.at, 1, trees + rlemax.value, FALSE), LAMBDA code :
      Then(FillMap(bits, Good(code.at, <<>>), code.value, rlemax.value, trees, size, size),
           LAMBDA map :
             Then(ReadBits(bits, map.at, 1), LAMBDA moved :
               Good(moved.at, IF moved.value = 1 THEN MovedToFront(map.value) ELSE map.value)))))

(***************************************************************************)
(* The header.                                                             *)
(***************************************************************************)
\* Number of trees and map of a category with `contexts` contexts a type.
ReadMap(bits, at, types, contexts) ==
  Then(ReadVarLen(bits, at), LAMBDA trees :
    Then(ReadContextMap(bits, trees.at, types * contexts, trees.value + 1),
         LAMBDA map : Good(map.at, [trees |-> trees.value + 1, map |-> map.value])))

ReadModes(bits, at, types) ==
  IF at + 2 * types > Len(bits) THEN RunOut(at)
  ELSE Good(at + 2 * types, [type \in 0 .. types - 1 |-> Peek(bits, at + 2 * type, 2)])

ReadCategories(bits, at) ==
  Then(ReadCategory(bits, at), LAMBDA literals :
    Then(ReadCategory(bits, literals.at), LAMBDA commands :
      Then(ReadCategory(bits, commands.at), LAMBDA distances :
        Good(distances.at, [literals |-> literals.value, commands |-> commands.value,
                            distances |-> distances.value]))))

ReadMaps(bits, at, literalTypes, distanceTypes) ==
  Then(ReadModes(bits, at, literalTypes), LAMBDA modes :
    Then(ReadMap(bits, modes.at, literalTypes, 64), LAMBDA literalMap :
      Then(ReadMap(bits, literalMap.at, distanceTypes, 4), LAMBDA distanceMap :
        Good(distanceMap.at, [modes |-> modes.value, literalMap |-> literalMap.value,
                              distanceMap |-> distanceMap.value]))))

\* read_header
ReadHeader(bits, at) ==
  Then(ReadCategories(bits, at), LAMBDA categories :
    Then(ReadBits(bits, categories.at, 2), LAMBDA npostfix :
      Then(ReadBits(bits, npostfix.at, 4), LAMBDA ndirect :
        Then(ReadMaps(bits, ndirect.at, categories.value.literals.types,
                      categories.value.distances.types), LAMBDA maps :
          Good(maps.at, categories.value @@ maps.value
                          @@ [npostfix |-> npostfix.value,
                              ndirect |-> ndirect.value * 2 ^ npostfix.value])))))

\* The codes after it, in decode_meta_block_with_base_and_policy.
ReadCodes(bits, at, header, len) ==
  Then(ReadGroup(bits, at, header.literalMap.trees, LITERAL_ALPHABET_SIZE, len >= WideRootMinLen),
       LAMBDA literals :
    Then(ReadGroup(bits, literals.at, header.commands.types, COMMAND_ALPHABET_SIZE, FALSE),
         LAMBDA commands :
      Then(ReadGroup(bits, commands.at, header.distanceMap.trees,
                     16 + header.ndirect + 48 * 2 ^ header.npostfix, FALSE),
           LAMBDA distances :
        Good(distances.at, [literals |-> literals.value, commands |-> commands.value,
                            distances |-> distances.value]))))

(***************************************************************************)
(* Contexts of literals.                                                   *)
(***************************************************************************)
UTF8_LAST ==
  <<0, 0, 0, 0, 0, 0, 0, 0, 0, 4, 4, 0, 0, 4, 0, 0, 0, 0, 0, 0, 0, 0, 0, 0, 0, 0, 0, 0, 0, 0, 0, 0,
    8, 12, 16, 12, 12, 20, 12, 16, 24, 28, 12, 12, 32, 12, 36, 12, 44, 44, 44, 44, 44, 44, 44, 44,
    44, 44, 32, 32, 24, 40, 28, 12, 12, 48, 52, 52, 52, 48, 52, 52, 52, 48, 52, 52, 52, 52, 52, 48,
    52, 52, 52, 52, 52, 48, 52, 52, 52, 52, 52, 24, 12, 28, 12, 12, 12, 56, 60, 60, 60, 56, 60, 60,
    60, 56, 60, 60, 60, 60, 60, 56, 60, 60, 60, 60, 60, 56, 60, 60, 60, 60, 60, 24, 12, 28, 12, 0>>
Utf8Last(byte) ==
  CASE byte < 128 -> UTF8_LAST[byte + 1]
    [] byte \in 128 .. 191 -> byte % 2
    [] byte >= 192 -> 2 + (byte % 2)
Utf8Second(byte) ==
  CASE byte \in 33 .. 47 \cup 58 .. 64 \cup 91 .. 96 \cup 123 .. 126 -> 1
    [] byte \in 48 .. 57 \cup 65 .. 90 \cup 224 .. 255 -> 2
    [] byte \in 97 .. 122 -> 3
    [] OTHER -> 0
SignedClass(byte) ==
  Cardinality({bound \in {1, 16, 64, 128, 192, 240, 255} : byte >= bound})

\* literal_context_for_mode, kContextLookup, of the byte before and the one
\* before that.
LiteralContext(mode, p1, p2) ==
  CASE mode = 0 -> p1 % 64
    [] mode = 1 -> p1 \div 4
    [] mode = 2 -> (Utf8Last(p1) | Utf8Second(p2)) % 64
    [] mode = 3 -> 8 * SignedClass(p1) + SignedClass(p2)

\* The byte `back` before the end of the output, zero before its start.
Previous(output, back) == IF Len(output) < back THEN 0 ELSE output[Len(output) - back + 1]
=============================================================================
