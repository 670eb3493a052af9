---------------------------- MODULE MCMetaBlock ----------------------------
(***************************************************************************)
(* Small meta-blocks for MetaBlock.  A switch takes at most 3 bits, a      *)
(* command header or a distance at most 3 and a literal at most 2, so      *)
(* StepBits = 7 is more than a switch and what follows it, as 128 is more  *)
(* than 54 + 63.                                                           *)
(***************************************************************************)
EXTENDS MetaBlock

Switch(category, symbol, count) ==
  [kind |-> "switch", bits |-> 3, typeBits |-> 1,
   category |-> category, symbol |-> symbol, count |-> count]
Cmd(type, insert, copy, reuse) ==
  [kind |-> "command", bits |-> 3, insert |-> insert, copy |-> copy,
   reuse |-> reuse, type |-> type]
Lit(type, byte) == [kind |-> "literal", bits |-> 2, byte |-> byte, type |-> type]
ShortLit(type, byte) == [Lit(type, byte) EXCEPT !.bits = 1]
Symbol(type, symbol) ==
  [kind |-> "distance", bits |-> 1, symbol |-> symbol, distance |-> 0, type |-> type]
Far(type, distance) ==
  [kind |-> "distance", bits |-> 3, symbol |-> 16, distance |-> distance, type |-> type]

\* The header and one 1-bit part for every prefix code, then `body`.
Block(len, types, first, trees, maxBits, start, raw, body) ==
  LET t == [literals |-> types[1], commands |-> types[2], distances |-> types[3]]
      codes == trees + types[2] + types[3]
      Front(kind) == [kind |-> kind, bits |-> 1, type |-> 0]
  IN  [len |-> len, types |-> t,
       first |-> [literals |-> first[1], commands |-> first[2],
                  distances |-> first[3]],
       trees |-> trees, distTrees |-> types[3], maxBits |-> maxBits,
       start |-> start, base |-> 0, window |-> 100, raw |-> raw, affix |-> 1,
       parts |-> <<Front("header")>> \o [i \in 1 .. codes |-> Front("code")] \o body]

One == <<1, 1, 1>>

\* One block type and one literal tree; repeats, near and short distances.
Plain ==
  Block(9, One, One, 1, 2, 0, 0,
    <<Cmd(0, 3, 2, FALSE), Lit(0, "a"), ShortLit(0, "b"), Lit(0, "a"),
      Far(0, 2), Cmd(0, 1, 1, TRUE), ShortLit(0, "b"),
      Cmd(0, 0, 2, FALSE), Symbol(0, 5)>>)

\* Two types of everything, with switches in the middle of a literal run,
\* before a command and before a distance, and back to the previous type.
Typed ==
  Block(8, <<2, 2, 2>>, <<2, 1, 1>>, 2, 2, 0, 0,
    <<Cmd(0, 3, 1, FALSE), Lit(0, "a"), ShortLit(0, "b"),
      Switch("literals", 1, 1), Lit(1, "a"), Far(0, 3),
      Switch("commands", 1, 1), Cmd(1, 1, 1, FALSE),
      Switch("literals", 0, 4), Lit(0, "c"),
      Switch("distances", 1, 2), Far(1, 2),
      Switch("commands", 2, 3), Cmd(0, 0, 2, FALSE), Symbol(1, 1)>>)

\* Three types, and a switch that cycles past the last one.
Cycle ==
  Block(4, <<3, 1, 1>>, <<1, 1, 1>>, 3, 2, 0, 0,
    <<Cmd(0, 4, 2, FALSE), Lit(0, "a"), Switch("literals", 4, 1), Lit(2, "b"),
      Switch("literals", 1, 1), Lit(0, "c"), Switch("literals", 0, 1),
      Lit(2, "d")>>)

\* Copies from earlier output, the raw dictionary and the static one; only
\* the last leaves the ring alone.
Dictionaries ==
  Block(9, One, One, 1, 0, 2, 2,
    <<Cmd(0, 1, 2, FALSE), [Lit(0, "a") EXCEPT !.bits = 0], Far(0, 3),
      Cmd(0, 0, 2, FALSE), Far(0, 6), Cmd(0, 0, 2, FALSE), Far(0, 10),
      Cmd(0, 0, 1, TRUE)>>)

\* Streams the decoder refuses.
LongInsert == Block(2, One, One, 1, 2, 0, 0, <<Cmd(0, 3, 1, FALSE)>>)
LongCopy ==
  Block(3, One, One, 1, 2, 0, 0, <<Cmd(0, 1, 3, FALSE), Lit(0, "a"), Far(0, 1)>>)
ZeroDistance ==
  Block(6, One, One, 1, 2, 0, 0,
    <<Cmd(0, 1, 1, FALSE), Lit(0, "a"), Far(0, 1),
      Cmd(0, 0, 1, FALSE), Symbol(0, 4)>>)
NoSuchType ==
  Block(3, <<2, 1, 1>>, <<1, 1, 1>>, 2, 2, 0, 0,
    <<Cmd(0, 2, 1, FALSE), Lit(0, "a"), Switch("literals", 4, 1), Lit(1, "a")>>)

MCBlocks == {Plain, Typed, Cycle, Dictionaries, LongInsert, LongCopy,
             ZeroDistance, NoSuchType}
MCPieces == {1, 2, 5}
=============================================================================
