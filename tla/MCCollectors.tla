----------------------------- MODULE MCCollectors -----------------------------
EXTENDS Collectors, TLC

a == <<1, 2, 3, 1, 1, 2>>
b == <<2, 2, 3, 1, 3>>
c == <<3, 1, 2, 1, 1, 1, 3, 2>>
Phrases == {a, b, c, a \o b}
MCInputs ==
  {p \o q \o r \o s : p \in {a, b}, q \in Phrases, r \in Phrases, s \in Phrases}
    \cup {<<>>, a, b \o <<1, 1, 1, 1, 1, 1, 1, 1, 1>>, a \o a \o <<3, 3>>,
          c \o c, a \o b \o b}

MCDictionary ==
  [len \in {4, 6, 14} |->
    CASE len = 4 -> <<<<1, 2, 3, 3>>, <<2, 2, 3, 1>>>>
      [] len = 6 -> <<<<1, 2, 3, 1, 1, 2>>, <<3, 1, 2, 1, 1, 1>>,
                      <<2, 2, 3, 1, 3, 1>>>>
      [] len = 14 -> <<<<1, 1, 2, 3, 3, 3, 3, 3, 3, 3, 3, 3, 3, 3>>,
                       <<3, 1, 3, 1, 2, 1, 1, 1, 3, 2, 1, 2, 3, 3>>>>]

MCHashOf(bytes) == (bytes[1] + 3 * bytes[3] + 5 * bytes[4]) % 16

Item(len, index) == [len |-> len, index |-> index]
MCItemsOf(bytes) ==
  CASE bytes[1] = 1 /\ bytes[2] = 2 -> <<Item(6, 0), Item(4, 0)>>
    [] bytes[1] = 2 -> <<Item(4, 1), Item(6, 2)>>
    [] bytes[1] = 3 /\ bytes[2] = 1 /\ bytes[3] = 2 -> <<Item(6, 1), Item(14, 1)>>
    [] bytes[1] = 3 -> <<Item(14, 1), Item(0, 0)>>
    [] bytes[1] = 1 /\ bytes[2] = 1 -> <<Item(14, 0), Item(4, 2)>>
    [] OTHER -> <<Item(0, 0), Item(0, 0)>>

MCEngines == Q2Engines \cup Q3Engines \cup Q4Engines \cup Q5Engines
MCScanners ==
  {OnePass, WriteLong, CollectLong(5, 5), CollectLong(6, 4), WithU16Table,
   WithU32Table, SparseStride(3), CollectTokens(1), CollectTokens(2)}

MCStartRings == {<<4, 11, 15, 16>>, <<3, 4, 5, 6>>}
=============================================================================
