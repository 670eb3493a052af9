--------------------------- MODULE MetaBlockProofs ---------------------------
(***************************************************************************)
(* Theorems of MetaBlock: for any well-formed meta-blocks and however the  *)
(* input arrives, the steps are turns of decode_commands.                  *)
(***************************************************************************)
EXTENDS MetaBlock, TLAPS, SequenceTheorems, FiniteSetTheorems, WellFoundedInduction

(***************************************************************************)
(* Induction, stated of sets.                                              *)
(***************************************************************************)
\* A bounded set of naturals that is not empty has a largest member.
LEMMA BoundedSetHasLargest ==
  ASSUME NEW S \in SUBSET Nat, S # {}, NEW n \in Nat, \A x \in S : x <= n
  PROVE  \E x \in S : \A y \in S : y <= x
  <1> DEFINE Above(x) == {y \in S : y > x}
             Aboves == {Above(x) : x \in S}
  <1>1. Aboves \subseteq FiniteSubsetsOf(S)
    <2>1. IsFiniteSet(S)
      BY FS_BoundedSetOfNaturals
    <2>2. \A x \in S : IsFiniteSet(Above(x))
      BY <2>1, FS_Subset
    <2> QED
      BY <2>2 DEF FiniteSubsetsOf
  <1>2. \E A \in Aboves :
          \A B \in Aboves : ~ (<<B, A>> \in StrictSubsetOrdering(S))
    <2>1. Aboves # {}
      OBVIOUS
    <2> HIDE DEF Aboves
    <2> QED
      BY <1>1, <2>1, FS_StrictSubsetOrderingWellFounded, WFMin
  <1>3. PICK x \in S :
          \A y \in S : ~ (<<Above(y), Above(x)>> \in StrictSubsetOrdering(S))
    BY <1>2
  <1>4. ASSUME NEW y \in S, ~(y <= x)
        PROVE  FALSE
    <2>1. S \subseteq Nat /\ y \in Nat /\ x \in Nat /\ x < y
      BY <1>4
    <2>2. Above(y) \subseteq Above(x) /\ y \in Above(x) /\ y \notin Above(y)
      <3>1. y \in Above(x) /\ y \notin Above(y)
        BY <1>4, <2>1
      <3>2. \A z \in Above(y) : z \in Above(x)
        BY <2>1
      <3> QED
        BY <3>1, <3>2
    <2>3. <<Above(y), Above(x)>> \in StrictSubsetOrdering(S)
      BY <2>2 DEF StrictSubsetOrdering
    <2> QED
      BY <1>3, <2>3
  <1> QED
    BY <1>4

\* Induction.
LEMMA AllNaturals ==
  ASSUME NEW S, 0 \in S, \A n \in Nat : n \in S => n + 1 \in S,
         NEW n \in Nat
  PROVE  n \in S
  <1> SUFFICES ASSUME n \notin S PROVE FALSE
    OBVIOUS
  <1> DEFINE Below == {k \in 0 .. n : k \in S /\ k < n}
  <1>1. n # 0
    OBVIOUS
  <1>2. DEFINE Begun == {k \in Nat : \A j \in 0 .. k : j \in S}
  <1>3. Begun \in SUBSET Nat /\ 0 \in Begun
    OBVIOUS
  <1>4. \A k \in Begun : k <= n
    OBVIOUS
  <1>5. PICK m \in Begun : \A k \in Begun : k <= m
    <2> HIDE DEF Begun
    <2> QED
      BY <1>3, <1>4, BoundedSetHasLargest
  <1>6. m + 1 \in Begun
    <2>1. m \in Nat /\ \A j \in 0 .. m : j \in S
      OBVIOUS
    <2>2. m + 1 \in S
      BY <2>1
    <2>3. \A j \in 0 .. m + 1 : j \in S
      BY <2>1, <2>2
    <2> QED
      BY <2>1, <2>3
  <1>7. m \in Nat /\ m + 1 <= m
    BY <1>5, <1>6
  <1> QED
    BY <1>7

\* Induction up to a bound.
LEMMA UpTo ==
  ASSUME NEW N \in Nat, NEW S, 0 \in S,
         \A n \in Nat : n < N /\ n \in S => n + 1 \in S
  PROVE  \A n \in 0 .. N : n \in S
  <1> DEFINE T == {n \in Nat : n <= N => n \in S}
  <1>1. 0 \in T
    OBVIOUS
  <1>2. \A n \in Nat : n \in T => n + 1 \in T
    OBVIOUS
  <1> HIDE DEF T
  <1>3. \A n \in Nat : n \in T
    BY <1>1, <1>2, AllNaturals
  <1> QED
    BY <1>3 DEF T

(***************************************************************************)
(* Meta-blocks and the turns of decode_commands.                           *)
(***************************************************************************)
LEMMA BlockFacts ==
  ASSUME NEW b, WellFormed(b)
  PROVE  /\ b.len \in Nat /\ b.trees \in Nat \ {0} /\ b.distTrees \in Nat \ {0}
         /\ b.maxBits \in Nat /\ b.start \in Nat /\ b.base \in Nat
         /\ b.window \in Nat /\ b.raw \in Nat /\ b.affix \in Nat
         /\ b.types \in [Category -> Nat \ {0}] /\ b.first \in [Category -> Nat \ {0}]
         /\ Len(b.parts) \in Nat /\ DOMAIN b.parts = 1 .. Len(b.parts)
         /\ \A i \in 1 .. Len(b.parts) : PartOf(b.parts[i])
         /\ Needed(b) \in Nat /\ CodeCount(b) \in Nat /\ Turns(b) \in Nat
  <1>1. Len(b.parts) \in Nat /\ DOMAIN b.parts = 1 .. Len(b.parts)
    BY LenProperties DEF WellFormed
  <1>2. /\ b.len \in Nat /\ b.trees \in Nat \ {0} /\ b.distTrees \in Nat \ {0}
        /\ b.maxBits \in Nat /\ b.start \in Nat /\ b.base \in Nat
        /\ b.window \in Nat /\ b.raw \in Nat /\ b.affix \in Nat
        /\ b.types \in [Category -> Nat \ {0}] /\ b.first \in [Category -> Nat \ {0}]
        /\ \A i \in DOMAIN b.parts : PartOf(b.parts[i])
    BY DEF WellFormed
  <1>3. b.types["commands"] \in Nat /\ b.trees \in Nat /\ b.distTrees \in Nat
    BY <1>2 DEF Category
  <1>4. Needed(b) \in Nat /\ CodeCount(b) \in Nat /\ Turns(b) \in Nat
    <2>1. Len(b.parts) \in Nat /\ b.start \in Nat /\ b.len \in Nat
      BY <1>1, <1>2
    <2>2. Needed(b) \in Nat
      BY ONLY <2>1 DEF Needed
    <2>3. CodeCount(b) \in Nat
      BY ONLY <1>3 DEF CodeCount
    <2>4. Turns(b) \in Nat
      BY ONLY <2>1 DEF Turns
    <2> QED
      BY <2>2, <2>3, <2>4
  <1> QED
    BY <1>1, <1>2, <1>4

\* The loop is what its recursion says.
LEMMA LoopUnfold ==
  ASSUME NEW b, WellFormed(b)
  PROVE  Loop(b) = [n \in 0 .. Turns(b) |->
                      IF n = 0 THEN Begin(b) ELSE Turn(b, Loop(b)[n - 1])]
  <1> DEFINE N == Turns(b)
             Good(g, k) == g = [n \in 0 .. k |-> IF n = 0 THEN Begin(b)
                                                 ELSE Turn(b, g[n - 1])]
             Lengths == {k \in Nat : \E g : Good(g, k)}
  <1>1. 0 \in Lengths
    <2>1. Good([n \in 0 .. 0 |-> Begin(b)], 0)
      OBVIOUS
    <2> QED
      BY <2>1
  <1>2. ASSUME NEW k \in Nat, k \in Lengths PROVE k + 1 \in Lengths
    <2>1. PICK g : Good(g, k)
      BY <1>2
    <2> DEFINE h == [n \in 0 .. k + 1 |-> IF n = k + 1 THEN Turn(b, g[k]) ELSE g[n]]
    <2>2. \A n \in 0 .. k : g[n] = IF n = 0 THEN Begin(b) ELSE Turn(b, g[n - 1])
      <3>1. g = [n \in 0 .. k |-> IF n = 0 THEN Begin(b) ELSE Turn(b, g[n - 1])]
        BY <2>1
      <3> QED
        BY <3>1
    <2>3. ASSUME NEW n \in 0 .. k + 1
          PROVE  h[n] = IF n = 0 THEN Begin(b) ELSE Turn(b, h[n - 1])
      <3>1. CASE n = k + 1
        <4>1. n - 1 = k /\ k \in 0 .. k + 1 /\ k # k + 1 /\ n # 0
          BY <3>1
        <4>2. h[k] = g[k] /\ h[n] = Turn(b, g[k])
          BY <3>1, <4>1
        <4> QED
          BY <3>1, <4>1, <4>2
      <3>2. CASE n \in 0 .. k
        <4>1. h[n] = g[n] /\ (n # 0 => h[n - 1] = g[n - 1])
          BY <3>2
        <4> QED
          BY <2>2, <3>2, <4>1
      <3> QED
        BY <3>1, <3>2
    <2>4. h = [n \in 0 .. k + 1 |-> h[n]]
      OBVIOUS
    <2>5. Good(h, k + 1)
      <3> HIDE DEF h
      <3>1. [n \in 0 .. k + 1 |-> h[n]]
              = [n \in 0 .. k + 1 |-> IF n = 0 THEN Begin(b) ELSE Turn(b, h[n - 1])]
        BY <2>3
      <3> QED
        BY <2>4, <3>1
    <2> QED
      <3> HIDE DEF Good, h
      <3> QED
        BY <2>5
  <1>3. \E g : Good(g, N)
    <2>1. N \in Nat
      BY BlockFacts
    <2>2. N \in Lengths
      <3> HIDE DEF Lengths, N
      <3> QED
        BY <1>1, <1>2, <2>1, AllNaturals
    <2> HIDE DEF Good
    <2> QED
      BY <2>2
  <1>4. Loop(b) = CHOOSE g : Good(g, N)
    BY DEF Loop
  <1>5. Good(Loop(b), N)
    <2> HIDE DEF Good
    <2> QED
      BY <1>3, <1>4
  <1> QED
    BY <1>5

LEMMA LoopStep ==
  ASSUME NEW b, WellFormed(b)
  PROVE  /\ Loop(b)[0] = Begin(b)
         /\ \A n \in Nat : n < Turns(b) => Loop(b)[n + 1] = Turn(b, Loop(b)[n])
  <1>1. Turns(b) \in Nat
    BY BlockFacts
  <1> DEFINE body(n) == IF n = 0 THEN Begin(b) ELSE Turn(b, Loop(b)[n - 1])
  <1>2. \A n \in 0 .. Turns(b) : Loop(b)[n] = body(n)
    <2>1. Loop(b) = [n \in 0 .. Turns(b) |-> body(n)]
      BY LoopUnfold
    <2> HIDE DEF body
    <2> QED
      BY <2>1
  <1>3. Loop(b)[0] = Begin(b)
    BY <1>1, <1>2
  <1>4. ASSUME NEW n \in Nat, n < Turns(b)
        PROVE  Loop(b)[n + 1] = Turn(b, Loop(b)[n])
    <2>1. n + 1 \in 0 .. Turns(b) /\ n + 1 # 0 /\ (n + 1) - 1 = n
      BY <1>1, <1>4
    <2> QED
      BY <1>2, <2>1
  <1> QED
    BY <1>3, <1>4

(***************************************************************************)
(* The states of the loop.                                                 *)
(***************************************************************************)
BytesOf(b) ==
  {"earlier", "wrong", "raw", "word"}
    \cup {b.parts[i].byte : i \in {j \in DOMAIN b.parts : b.parts[j].kind = "literal"}}
Commands == [insert : Nat, copy : Nat, reuse : BOOLEAN]
Headers == [Category -> [current : Nat, previous : Nat, remaining : Nat]]
Lefts == [Category -> Nat]
Distances == [1 .. 4 -> Int]

States(b) ==
  [header : Headers, at : Nat, out : Seq(BytesOf(b)), ring : Distances,
   result : {"running", "done", "error"}, left : Lefts,
   phase : {"command", "literals", "distance"}, command : Commands, todo : Nat]

\* The block types in force.
TypesOf(h) == [category \in Category |-> <<h[category].current, h[category].previous>>]

Extends(more, out) ==
  Len(more) >= Len(out) /\ \A i \in 1 .. Len(out) : more[i] = out[i]

\* The part a running state reads is the one that is due.
Fed(b, s) ==
  Reads(b, s) => /\ s.at \in 1 .. Len(b.parts)
                 /\ There(b, s.at) = DueIn(b, s.phase, s.left, s.header)

\* A turn that goes on adds at least one.
Rank(s) ==
  3 * s.at + CASE s.phase = "command" -> 2
               [] s.phase = "literals" -> 0
               [] s.phase = "distance" -> 1

Retyped(types, category, new, old) == [types EXCEPT ![category] = <<new, old>>]

LEMMA SwitchFacts ==
  ASSUME NEW b, WellFormed(b), NEW h \in Headers, NEW part, PartOf(part),
         part.kind = "switch"
  PROVE  /\ part.category \in Category /\ part.count \in Nat \ {0}
         /\ NextType(b, h, part) \in Nat
         /\ Switched(b, h, part) \in Headers
         /\ Switched(b, h, part)[part.category].remaining = part.count
         /\ TypesOf(Switched(b, h, part)) =
              Retyped(TypesOf(h), part.category, NextType(b, h, part),
                      h[part.category].current)
  <1>1. /\ part.category \in Category /\ part.count \in Nat \ {0}
        /\ part.symbol \in Nat
    BY DEF PartOf
  <1>2. h[part.category] \in [current : Nat, previous : Nat, remaining : Nat]
    BY <1>1 DEF Headers
  <1>3. NextType(b, h, part) \in Nat
    <2>1. b.types[part.category] \in Nat \ {0}
      BY <1>1, BlockFacts
    <2>2. (h[part.category].current + 1) % b.types[part.category] \in Nat
      BY <1>2, <2>1
    <2>3. part.symbol # 0 /\ part.symbol # 1 => part.symbol - 2 \in Nat
      BY <1>1
    <2> QED
      BY <1>2, <2>2, <2>3 DEF NextType
  <1> DEFINE new == [current |-> NextType(b, h, part),
                     previous |-> h[part.category].current,
                     remaining |-> part.count]
  <1>4. new \in [current : Nat, previous : Nat, remaining : Nat]
    BY <1>1, <1>2, <1>3
  <1>5. Switched(b, h, part) = [h EXCEPT ![part.category] = new]
    BY DEF Switched
  <1> HIDE DEF new
  <1>6. Switched(b, h, part) \in Headers
    BY <1>1, <1>4, <1>5 DEF Headers
  <1>7. /\ Switched(b, h, part)[part.category] = new
        /\ \A category \in Category :
             category # part.category => Switched(b, h, part)[category] = h[category]
    BY <1>1, <1>5 DEF Headers
  <1>8. TypesOf(Switched(b, h, part)) =
          [TypesOf(h) EXCEPT ![part.category] =
             <<NextType(b, h, part), h[part.category].current>>]
    <2> DEFINE t(category) == <<Switched(b, h, part)[category].current,
                                Switched(b, h, part)[category].previous>>
               u(category) == <<h[category].current, h[category].previous>>
               v == <<NextType(b, h, part), h[part.category].current>>
    <2>1. t(part.category) = v
      BY <1>7 DEF new
    <2>2. \A category \in Category :
            category # part.category => t(category) = u(category)
      BY <1>7
    <2>3. /\ TypesOf(Switched(b, h, part)) = [category \in Category |-> t(category)]
          /\ TypesOf(h) = [category \in Category |-> u(category)]
      BY DEF TypesOf
    <2> HIDE DEF t, u, v
    <2>4. TypesOf(Switched(b, h, part)) = [TypesOf(h) EXCEPT ![part.category] = v]
      BY <1>1, <2>1, <2>2, <2>3
    <2> QED
      BY <2>4 DEF v
  <1>9. Switched(b, h, part)[part.category].remaining = part.count
    BY <1>7 DEF new
  <1> QED
    BY <1>1, <1>3, <1>6, <1>8, <1>9 DEF Retyped

\* The types alone say what the next type is.
LEMMA SameNextType ==
  ASSUME NEW b, NEW h \in Headers, NEW g \in Headers, TypesOf(h) = TypesOf(g),
         NEW part, part.category \in Category
  PROVE  /\ NextType(b, h, part) = NextType(b, g, part)
         /\ \A category \in Category : h[category].current = g[category].current
  <1>1. \A category \in Category : /\ h[category].current = g[category].current
                                   /\ h[category].previous = g[category].previous
    <2>1. ASSUME NEW category \in Category
          PROVE  /\ h[category].current = g[category].current
                 /\ h[category].previous = g[category].previous
      <3>1. /\ TypesOf(h)[category] = <<h[category].current, h[category].previous>>
            /\ TypesOf(g)[category] = <<g[category].current, g[category].previous>>
        BY DEF TypesOf
      <3> QED
        BY <3>1
    <2> QED
      BY <2>1
  <1> QED
    BY <1>1 DEF NextType

\* A copy goes on from what is there, and it makes no new letters.
LEMMA CopiedFacts ==
  ASSUME NEW S, NEW out \in Seq(S), NEW len \in Nat, NEW distance \in Int,
         NEW source, source = "output" => distance \in 1 .. Len(out),
         source # "output" => source \in S
  PROVE  /\ Copied(out, source, distance, len) \in Seq(S)
         /\ Len(Copied(out, source, distance, len)) = Len(out) + len
         /\ Extends(Copied(out, source, distance, len), out)
  <1> DEFINE N == Len(out) + len
             Value(g, i) == IF i <= Len(out) THEN out[i]
                            ELSE IF source = "output" THEN g[i - distance] ELSE source
             Good(g, k) == g = [i \in 1 .. k |-> Value(g, i)]
             Lengths == {k \in Nat : \E g : Good(g, k)}
             copy == CHOOSE g : Good(g, N)
  <1>1. Len(out) \in Nat /\ N \in Nat /\ \A i \in 1 .. Len(out) : out[i] \in S
    BY LenProperties, ElementOfSeq
  <1>2. 0 \in Lengths
    <2> DEFINE g == [i \in 1 .. 0 |-> 0]
    <2>1. Good(g, 0)
      <3>1. \A f : [i \in 1 .. 0 |-> Value(f, i)] = g
        OBVIOUS
      <3> QED
        BY <3>1
    <2> HIDE DEF Good, g
    <2> QED
      BY <2>1
  <1>3. ASSUME NEW k \in Nat, k \in Lengths PROVE k + 1 \in Lengths
    <2>1. PICK g : Good(g, k)
      BY <1>3
    <2> DEFINE h == [i \in 1 .. k + 1 |-> IF i = k + 1 THEN Value(g, k + 1) ELSE g[i]]
    <2>2. \A i \in 1 .. k : g[i] = Value(g, i) /\ h[i] = g[i]
      <3>1. g = [i \in 1 .. k |-> Value(g, i)]
        BY <2>1
      <3>2. \A i \in 1 .. k : g[i] = Value(g, i)
        BY <3>1
      <3> HIDE DEF Value
      <3> QED
        BY <3>2
    <2>3. ASSUME NEW i \in 1 .. k + 1, i > Len(out), source = "output"
          PROVE  i - distance \in 1 .. k
      BY <1>1, <2>3
    <2>4. \A i \in 1 .. k + 1 : Value(g, i) = Value(h, i)
      BY <1>1, <2>2, <2>3
    <2>5. h[k + 1] = Value(g, k + 1)
      OBVIOUS
    <2>6. \A i \in 1 .. k + 1 : h[i] = Value(h, i)
      <3> HIDE DEF Value, h
      <3> QED
        BY <2>2, <2>4, <2>5
    <2>7. h = [i \in 1 .. k + 1 |-> h[i]]
      OBVIOUS
    <2>8. Good(h, k + 1)
      <3> HIDE DEF h, Value
      <3>1. [i \in 1 .. k + 1 |-> h[i]] = [i \in 1 .. k + 1 |-> Value(h, i)]
        BY <2>6
      <3> QED
        BY <2>7, <3>1
    <2> HIDE DEF Good, h
    <2> QED
      BY <2>8
  <1>4. Good(copy, N)
    <2> HIDE DEF Lengths, N
    <2>1. N \in Lengths
      BY <1>1, <1>2, <1>3, AllNaturals
    <2> HIDE DEF Good
    <2>2. \E g : Good(g, N)
      BY <2>1 DEF Lengths
    <2> QED
      BY <2>2
  <1>5. \A i \in 1 .. N : copy[i] = Value(copy, i)
    <2>1. copy = [i \in 1 .. N |-> Value(copy, i)]
      BY <1>4
    <2> HIDE DEF copy, N, Value
    <2> QED
      BY <2>1
  <1>6. Copied(out, source, distance, len) = [i \in 1 .. N |-> copy[i]]
    BY DEF Copied
  <1> HIDE DEF copy, Good
  <1>7. \A i \in 1 .. N : copy[i] \in S
    <2> DEFINE T == {k \in Nat : \A i \in 1 .. k : i <= N => copy[i] \in S}
    <2>1. 0 \in T
      OBVIOUS
    <2>2. ASSUME NEW k \in Nat, k \in T PROVE k + 1 \in T
      <3>1. \A i \in 1 .. k : i <= N => copy[i] \in S
        BY <2>2
      <3>2. k + 1 <= N => copy[k + 1] \in S
        <4>1. CASE k + 1 <= Len(out)
          BY <1>1, <1>5, <4>1
        <4>2. CASE k + 1 > Len(out) /\ source = "output" /\ k + 1 <= N
          <5>1. (k + 1) - distance \in 1 .. k /\ (k + 1) - distance <= N
            BY <1>1, <4>2
          <5> QED
            BY <1>1, <1>5, <3>1, <4>2, <5>1
        <4>3. CASE k + 1 > Len(out) /\ source # "output"
          BY <1>1, <1>5, <4>3
        <4> QED
          BY <1>1, <4>1, <4>2, <4>3
      <3>3. \A i \in 1 .. k + 1 : i <= N => copy[i] \in S
        BY <3>1, <3>2
      <3> QED
        BY <3>3
    <2>3. N \in T
      <3> HIDE DEF T, N
      <3> QED
        BY <1>1, <2>1, <2>2, AllNaturals
    <2> QED
      BY <2>3
  <1>8. \A i \in 1 .. Len(out) : copy[i] = out[i]
    BY <1>1, <1>5
  <1> DEFINE whole == [i \in 1 .. N |-> copy[i]]
  <1>9. whole \in Seq(S) /\ Len(whole) = N /\ \A i \in 1 .. N : whole[i] = copy[i]
    <2> HIDE DEF N
    <2> QED
      BY <1>1, <1>7
  <1> QED
    BY <1>1, <1>6, <1>8, <1>9 DEF Extends

LEMMA RingFacts ==
  ASSUME NEW ring \in Distances
  PROVE  /\ \A symbol \in 0 .. 15 : Resolve(ring, symbol) \in Nat
         /\ \A symbol \in Nat, distance \in Int : \A source :
              RingAfter(ring, symbol, source, distance) \in Distances
  <1>1. ASSUME NEW symbol \in 0 .. 15
        PROVE  Resolve(ring, symbol) \in Nat
    <2>1. SlotOf(symbol) \in 1 .. 4
      BY DEF SlotOf, Near
    <2>2. OffsetOf(symbol) \in Int
      <3>1. /\ symbol < 4 => OffsetOf(symbol) = 0
            /\ symbol >= 4 /\ symbol < 10 => OffsetOf(symbol) = Offset[symbol - 3]
            /\ symbol >= 10 => OffsetOf(symbol) = Offset[symbol - 9]
        BY DEF OffsetOf
      <3>2. \A i \in 1 .. 6 : Offset[i] \in Int
        BY DEF Offset
      <3>3. /\ symbol >= 4 /\ symbol < 10 => symbol - 3 \in 1 .. 6
            /\ symbol >= 10 => symbol - 9 \in 1 .. 6
        OBVIOUS
      <3> QED
        BY <3>1, <3>2, <3>3
    <2>3. ring[SlotOf(symbol)] \in Int
      BY <2>1 DEF Distances
    <2> HIDE DEF OffsetOf
    <2> QED
      BY <2>2, <2>3 DEF Resolve
  <1>2. ASSUME NEW symbol \in Nat, NEW source, NEW distance \in Int
        PROVE  RingAfter(ring, symbol, source, distance) \in Distances
    <2>1. ring[2] \in Int /\ ring[3] \in Int /\ ring[4] \in Int
      BY DEF Distances
    <2>2. <<ring[2], ring[3], ring[4], distance>> \in [1 .. 4 -> Int]
      BY <2>1
    <2> QED
      BY <2>2 DEF RingAfter, Distances, Push
  <1> QED
    BY <1>1, <1>2

\* A copy from the output is from within it.
LEMMA SourceFacts ==
  ASSUME NEW b, WellFormed(b), NEW pos \in Nat, NEW distance \in Int
  PROVE  /\ Source(b, pos, distance) = "output" => distance \in 1 .. pos
         /\ Source(b, pos, distance) \in {"output", "raw", "word", "invalid"}
         /\ \A len \in Nat : CopyLen(b, Source(b, pos, distance), len) \in Nat
  <1>1. /\ b.window \in Nat /\ b.base \in Nat /\ b.raw \in Nat /\ b.affix \in Nat
    BY BlockFacts
  <1>2. Smaller(pos, b.window) <= pos /\ Smaller(pos, b.window) \in Nat
    BY <1>1 DEF Smaller
  <1> DEFINE reach == Smaller(b.window, b.base + pos)
  <1>3. Source(b, pos, distance) =
          CASE distance \in 1 .. Smaller(pos, b.window) -> "output"
            [] distance > reach /\ distance <= reach + b.raw -> "raw"
            [] distance > reach + b.raw -> "word"
            [] OTHER -> "invalid"
    BY DEF Source
  <1> HIDE DEF reach
  <1>4. Source(b, pos, distance) \in {"output", "raw", "word", "invalid"}
    BY <1>3
  <1>5. Source(b, pos, distance) = "output" => distance \in 1 .. pos
    BY <1>2, <1>3
  <1>6. \A len \in Nat : CopyLen(b, Source(b, pos, distance), len) \in Nat
    BY <1>1 DEF CopyLen
  <1> QED
    BY <1>4, <1>5, <1>6

(***************************************************************************)
(* Turns.                                                                  *)
(***************************************************************************)
LEMMA BeginFacts ==
  ASSUME NEW b, WellFormed(b), Unlimited \in Nat
  PROVE  /\ Begin(b) \in States(b)
         /\ Begin(b).result = "running" /\ Begin(b).phase = "command"
         /\ Begin(b).at = 2 + CodeCount(b) /\ Begin(b).out = Earlier(b)
         /\ Begin(b).ring = LAST_DISTANCES
         /\ Begin(b).left = [category \in Category |-> HeaderOf(b)[category].remaining]
         /\ Begin(b).header = HeaderOf(b)
         /\ HeaderOf(b) \in Headers
         /\ Earlier(b) \in Seq(BytesOf(b)) /\ Len(Earlier(b)) = b.start
         /\ Rank(Begin(b)) >= 8
  <1>1. b.start \in Nat /\ CodeCount(b) \in Nat
    BY BlockFacts
  <1>2. HeaderOf(b) \in Headers
    BY BlockFacts DEF HeaderOf, Headers
  <1>3. [category \in Category |-> HeaderOf(b)[category].remaining] \in Lefts
    BY <1>2 DEF Headers, Lefts
  <1>4. Earlier(b) \in Seq(BytesOf(b)) /\ Len(Earlier(b)) = b.start
    BY <1>1 DEF Earlier, BytesOf
  <1>5. LAST_DISTANCES \in Distances
    BY DEF LAST_DISTANCES, Distances
  <1>6. NoCommand \in Commands
    BY DEF NoCommand, Commands
  <1>7. Begin(b) \in States(b)
    BY <1>1, <1>2, <1>3, <1>4, <1>5, <1>6 DEF Begin, States
  <1>8. /\ Begin(b).result = "running" /\ Begin(b).phase = "command"
        /\ Begin(b).at = 2 + CodeCount(b) /\ Begin(b).out = Earlier(b)
        /\ Begin(b).ring = LAST_DISTANCES
        /\ Begin(b).left = [category \in Category |-> HeaderOf(b)[category].remaining]
        /\ Begin(b).header = HeaderOf(b)
    BY DEF Begin
  <1>9. Rank(Begin(b)) >= 8
    BY <1>1, <1>8 DEF Rank
  <1> QED
    BY <1>2, <1>4, <1>7, <1>8, <1>9

\* A block begins, and a symbol of it is read.
Refilled(l, category, count) == [l EXCEPT ![category] = count]
OneLess(l, category) == [l EXCEPT ![category] = l[category] - 1]

\* A turn that ends the loop.
EndsAs(t, s, how) ==
  t.result = how /\ t.out = s.out /\ t.at = s.at /\ t.ring = s.ring

LEMMA LeftFacts ==
  ASSUME NEW l \in Lefts, NEW category \in Category
  PROVE  /\ \A count \in Nat : Refilled(l, category, count) \in Lefts
         /\ l[category] # 0 => OneLess(l, category) \in Lefts
         /\ OneLess(l, category)[category] = l[category] - 1
         /\ \A other \in Category :
              other # category => OneLess(l, category)[other] = l[other]
  BY DEF Lefts, Refilled, OneLess

LEMMA NextBlockFacts ==
  ASSUME NEW b, WellFormed(b), NEW s \in States(b), s.result = "running",
         NEW category \in Category, s.at \in 1 .. Len(b.parts),
         There(b, s.at) = <<"switch", category>>,
         NEW part, part = b.parts[s.at], NEW t, t = NextBlock(b, s, category)
  PROVE  /\ part.kind = "switch" /\ part.category = category /\ PartOf(part)
         /\ t \in States(b) /\ t.out = s.out /\ t.ring = s.ring
         /\ BadType(b, part) => EndsAs(t, s, "error")
         /\ ~BadType(b, part) =>
              /\ t.header = Switched(b, s.header, part) /\ t.at = s.at + 1
              /\ t.left = Refilled(s.left, category, part.count)
              /\ t.phase = s.phase /\ t.command = s.command
              /\ t.todo = s.todo /\ t.result = "running"
  <1>1. part.kind = "switch" /\ part.category = category
    BY DEF There
  <1>2. PartOf(part)
    BY BlockFacts
  <1>3. s.header \in Headers /\ s.left \in Lefts /\ s.at \in Nat
    BY DEF States
  <1>4. /\ Switched(b, s.header, part) \in Headers
        /\ Refilled(s.left, category, part.count) \in Lefts
    <2>1. Switched(b, s.header, part) \in Headers /\ part.count \in Nat
      BY <1>1, <1>2, <1>3, SwitchFacts
    <2> QED
      BY <1>3, <2>1, LeftFacts
  <1>5. CASE BadType(b, part)
    <2>1. t = [s EXCEPT !.result = "error"]
      BY <1>5 DEF NextBlock
    <2>2. t \in States(b)
      BY <2>1 DEF States
    <2>3. EndsAs(t, s, "error")
      BY <2>1 DEF States, EndsAs
    <2> QED
      BY <1>1, <1>2, <1>5, <2>2, <2>3 DEF EndsAs
  <1>6. CASE ~BadType(b, part)
    <2>1. t = [s EXCEPT !.header = Switched(b, s.header, part), !.at = s.at + 1,
                        !.left = Refilled(s.left, category, part.count)]
      BY <1>1, <1>6 DEF NextBlock, Refilled
    <2>2. t \in States(b)
      <3> DEFINE h == Switched(b, s.header, part)
                 l == Refilled(s.left, category, part.count)
                 n == s.at + 1
      <3>1. h \in Headers /\ l \in Lefts /\ n \in Nat
        BY <1>3, <1>4
      <3>2. t = [s EXCEPT !.header = h, !.at = n, !.left = l]
        BY <2>1
      <3> HIDE DEF h, l, n
      <3> QED
        BY <3>1, <3>2 DEF States
    <2>3. /\ t.header = Switched(b, s.header, part) /\ t.at = s.at + 1
          /\ t.left = Refilled(s.left, category, part.count)
          /\ t.phase = s.phase /\ t.command = s.command /\ t.ring = s.ring
          /\ t.todo = s.todo /\ t.result = "running" /\ t.out = s.out
      <3> QED
        BY <2>1 DEF States
    <2> QED
      BY <1>1, <1>2, <1>6, <2>2, <2>3
  <1> QED
    BY <1>5, <1>6

\* A turn at a command header.
LEMMA CommandTurn ==
  ASSUME NEW b, WellFormed(b), NEW s \in States(b), Fed(b, s),
         s.result = "running", s.phase = "command",
         NEW part, part = b.parts[s.at], NEW t, t = Turn(b, s)
  PROVE  /\ t \in States(b)
         /\ Len(s.out) >= Needed(b) => EndsAs(t, s, "done")
         /\ Len(s.out) < Needed(b) => s.at \in 1 .. Len(b.parts)
         /\ Len(s.out) < Needed(b) /\ s.left["commands"] = 0 =>
              /\ t = NextBlock(b, s, "commands")
              /\ There(b, s.at) = <<"switch", "commands">>
         /\ Len(s.out) < Needed(b) /\ s.left["commands"] # 0 =>
              /\ part.kind = "command" /\ CommandOf(part) \in Commands
              /\ part.insert > Needed(b) - Len(s.out) =>
                   EndsAs(t, s, "error")
              /\ part.insert <= Needed(b) - Len(s.out) =>
                   /\ t.at = s.at + 1 /\ t.phase = "literals"
                   /\ t.left = OneLess(s.left, "commands")
                   /\ t.command = CommandOf(part) /\ t.todo = part.insert
                   /\ t.header = s.header /\ t.ring = s.ring
                   /\ t.out = s.out /\ t.result = "running"
  <1>0. s.result \in {"running", "done", "error"}
    BY DEF States
  <1>1. t = TakeCommand(b, s)
    BY DEF Turn
  <1>2. /\ Needed(b) \in Nat /\ Len(s.out) \in Nat /\ s.left \in Lefts /\ s.at \in Nat
        /\ s.left["commands"] \in Nat
    BY BlockFacts, LenProperties DEF States, Lefts, Category
  <1>3. CASE Len(s.out) >= Needed(b)
    <2>1. t = [s EXCEPT !.result = "done"]
      BY <1>1, <1>3 DEF TakeCommand
    <2>2. t \in States(b)
      BY <2>1 DEF States
    <2>3. EndsAs(t, s, "done")
      BY <2>1 DEF States, EndsAs
    <2> QED
      BY ONLY <1>2, <1>3, <2>2, <2>3
  <1>4. CASE Len(s.out) < Needed(b)
    <2>1. /\ s.at \in 1 .. Len(b.parts)
          /\ There(b, s.at) = DueIn(b, "command", s.left, s.header)
      BY <1>4 DEF Fed, Reads
    <2>2. CASE s.left["commands"] = 0
      <3>1. t = NextBlock(b, s, "commands")
        BY <1>1, <1>2, <1>4, <2>2 DEF TakeCommand
      <3>2. There(b, s.at) = <<"switch", "commands">>
        BY <2>1, <2>2 DEF DueIn
      <3>3. NextBlock(b, s, "commands") \in States(b)
        <4>1. "commands" \in Category
          BY DEF Category
        <4> QED
          BY <2>1, <3>2, <4>1, NextBlockFacts
      <3> QED
        BY <1>2, <1>4, <2>1, <2>2, <3>1, <3>2, <3>3
    <2>3. CASE s.left["commands"] # 0
      <3>1. part.kind = "command"
        <4>1. There(b, s.at) = <<"command", s.header["commands"].current>>
          BY <2>1, <2>3 DEF DueIn
        <4> QED
          BY <4>1 DEF There
      <3>2. PartOf(part)
        BY <2>1, BlockFacts
      <3>3. part.insert \in Nat /\ CommandOf(part) \in Commands
        <4> QED
          BY <3>1, <3>2 DEF PartOf, CommandOf, Commands
      <3>4. CASE part.insert > Needed(b) - Len(s.out)
        <4>1. t = [s EXCEPT !.result = "error"]
          BY <1>1, <1>2, <1>4, <2>3, <3>4 DEF TakeCommand
        <4>2. t \in States(b)
          BY <4>1 DEF States
        <4>3. EndsAs(t, s, "error")
          BY <4>1 DEF States, EndsAs
        <4> QED
          BY ONLY <1>2, <1>4, <2>1, <2>3, <3>1, <3>3, <3>4, <4>2, <4>3
      <3>5. CASE part.insert <= Needed(b) - Len(s.out)
        <4> DEFINE l == OneLess(s.left, "commands")
                   n == s.at + 1
                   m == CommandOf(part)
                   i == part.insert
        <4>1. t = [s EXCEPT !.at = n, !.left = l, !.phase = "literals",
                            !.command = m, !.todo = i]
          BY <1>1, <1>2, <1>4, <2>3, <3>3, <3>5 DEF TakeCommand, OneLess
        <4>2. l \in Lefts /\ n \in Nat /\ m \in Commands /\ i \in Nat
          <5>1. l \in Lefts
            <6>1. "commands" \in Category
              BY DEF Category
            <6> QED
              BY <1>2, <2>3, <6>1, LeftFacts
          <5> HIDE DEF l
          <5> QED
            BY <1>2, <3>3, <5>1
        <4>3. t \in States(b)
          <5> HIDE DEF l, n, m, i
          <5>1. t = [header |-> s.header, at |-> n, out |-> s.out, ring |-> s.ring,
                     result |-> s.result, left |-> l, phase |-> "literals",
                     command |-> m, todo |-> i]
            BY <4>1 DEF States
          <5>2. /\ s.header \in Headers /\ s.out \in Seq(BytesOf(b))
                /\ s.ring \in Distances
            BY DEF States
          <5> QED
            BY ONLY <1>0, <4>2, <5>1, <5>2 DEF States
        <4>4. /\ t.at = n /\ t.phase = "literals" /\ t.left = l
              /\ t.command = m /\ t.todo = i /\ t.header = s.header
              /\ t.ring = s.ring /\ t.out = s.out /\ t.result = "running"
          <5> HIDE DEF l, n, m, i
          <5> QED
            BY <4>1, <4>2 DEF States
        <4> QED
          BY ONLY <1>2, <1>4, <2>1, <2>3, <3>1, <3>3, <3>5, <4>3, <4>4
      <3> QED
        BY <1>2, <3>3, <3>4, <3>5
    <2> QED
      BY <2>2, <2>3
  <1> QED
    BY <1>2, <1>3, <1>4

\* What follows the last literal.
LEMMA LiteralsEndTurn ==
  ASSUME NEW b, WellFormed(b), NEW s \in States(b),
         s.result = "running", s.phase = "literals", s.todo = 0,
         NEW t, t = Turn(b, s)
  PROVE  /\ t \in States(b)
         /\ Len(s.out) = Needed(b) => EndsAs(t, s, "done")
         /\ Len(s.out) # Needed(b) =>
              /\ t.phase = "distance" /\ t.at = s.at /\ t.left = s.left
              /\ t.command = s.command /\ t.todo = s.todo /\ t.header = s.header
              /\ t.ring = s.ring /\ t.out = s.out /\ t.result = "running"
  <1>1. t = TakeLiteral(b, s)
    BY DEF Turn
  <1>2. CASE Len(s.out) = Needed(b)
    <2>1. t = [s EXCEPT !.result = "done"]
      BY <1>1, <1>2 DEF TakeLiteral
    <2>2. t \in States(b)
      BY <2>1 DEF States
    <2>3. EndsAs(t, s, "done")
      BY <2>1 DEF States, EndsAs
    <2> QED
      BY ONLY <1>2, <2>2, <2>3
  <1>3. CASE Len(s.out) # Needed(b)
    <2>1. t = [s EXCEPT !.phase = "distance"]
      BY <1>1, <1>3 DEF TakeLiteral
    <2>2. t \in States(b)
      BY <2>1 DEF States
    <2>3. /\ t.phase = "distance" /\ t.at = s.at /\ t.left = s.left
          /\ t.command = s.command /\ t.todo = s.todo /\ t.header = s.header
          /\ t.ring = s.ring /\ t.out = s.out /\ t.result = "running"
      BY <2>1 DEF States
    <2> QED
      BY ONLY <1>3, <2>2, <2>3
  <1> QED
    BY ONLY <1>2, <1>3

\* A turn at a literal.
LEMMA LiteralTurn ==
  ASSUME NEW b, WellFormed(b), NEW s \in States(b), Fed(b, s),
         s.result = "running", s.phase = "literals", s.todo # 0,
         NEW part, part = b.parts[s.at], NEW t, t = Turn(b, s)
  PROVE  /\ t \in States(b)
         /\ s.at \in 1 .. Len(b.parts)
         /\ ~SingleLiteralCode(b) /\ s.left["literals"] = 0 =>
              /\ t = NextBlock(b, s, "literals")
              /\ There(b, s.at) = <<"switch", "literals">>
         /\ SingleLiteralCode(b) \/ s.left["literals"] # 0 =>
              /\ part.kind = "literal"
              /\ t.at = s.at + 1 /\ t.phase = "literals" /\ t.todo = s.todo - 1
              /\ t.out = Append(s.out, LiteralAt(b, s.at, s.header))
              /\ LiteralAt(b, s.at, s.header) \in BytesOf(b)
              /\ t.left = IF SingleLiteralCode(b) THEN s.left
                          ELSE OneLess(s.left, "literals")
              /\ t.command = s.command /\ t.header = s.header
              /\ t.ring = s.ring /\ t.result = "running"
  <1>1. t = TakeLiteral(b, s)
    BY DEF Turn
  <1>2. /\ s.at \in 1 .. Len(b.parts)
        /\ There(b, s.at) = DueIn(b, "literals", s.left, s.header)
    BY DEF Fed, Reads
  <1>3. /\ s.left \in Lefts /\ s.at \in Nat /\ s.todo \in Nat
        /\ "literals" \in Category
    BY DEF States, Category
  <1>4. CASE ~SingleLiteralCode(b) /\ s.left["literals"] = 0
    <2>1. t = NextBlock(b, s, "literals")
      BY <1>1, <1>4 DEF TakeLiteral
    <2>2. There(b, s.at) = <<"switch", "literals">>
      BY <1>2, <1>4 DEF DueIn
    <2>3. NextBlock(b, s, "literals") \in States(b)
      BY <1>2, <1>3, <2>2, NextBlockFacts
    <2> QED
      BY <1>2, <1>4, <2>1, <2>2, <2>3
  <1>5. CASE SingleLiteralCode(b) \/ s.left["literals"] # 0
    <2>1. part.kind = "literal"
      <3>1. There(b, s.at) = <<"literal", s.header["literals"].current>>
        BY <1>2, <1>5 DEF DueIn
      <3> QED
        BY <3>1 DEF There
    <2> DEFINE l == IF SingleLiteralCode(b) THEN s.left
                    ELSE OneLess(s.left, "literals")
               byte == LiteralAt(b, s.at, s.header)
               n == s.at + 1
               i == s.todo - 1
               o == Append(s.out, byte)
    <2>2. t = [s EXCEPT !.at = n, !.todo = i, !.out = o, !.left = l]
      <3>1. t = [s EXCEPT !.at = n, !.todo = i, !.out = o,
                   !.left["literals"] = IF SingleLiteralCode(b) THEN @ ELSE @ - 1]
        BY <1>1, <1>5 DEF TakeLiteral
      <3>2. CASE SingleLiteralCode(b)
        <4>1. [s.left EXCEPT !["literals"] = s.left["literals"]] = s.left
          BY <1>3 DEF Lefts
        <4> QED
          BY <3>1, <3>2, <4>1
      <3>3. CASE ~SingleLiteralCode(b)
        BY <3>1, <3>3 DEF OneLess
      <3> QED
        BY <3>2, <3>3
    <2>3. byte \in BytesOf(b)
      BY <1>2, BlockFacts DEF LiteralAt, BytesOf
    <2>4. l \in Lefts
      BY <1>3, <1>5, LeftFacts
    <2>5. o \in Seq(BytesOf(b)) /\ n \in Nat /\ i \in Nat
      <3>1. s.out \in Seq(BytesOf(b))
        BY DEF States
      <3> HIDE DEF byte
      <3> QED
        BY <1>3, <2>3, <3>1
    <2> HIDE DEF l, byte, n, i, o
    <2>6. t \in States(b)
      <3>1. t = [header |-> s.header, at |-> n, out |-> o, ring |-> s.ring,
                 result |-> s.result, left |-> l, phase |-> s.phase,
                 command |-> s.command, todo |-> i]
        BY <2>2 DEF States
      <3>2. /\ s.header \in Headers /\ s.command \in Commands
            /\ s.ring \in Distances
        BY DEF States
      <3> QED
        BY <2>4, <2>5, <3>1, <3>2 DEF States
    <2>7. /\ t.at = n /\ t.phase = "literals" /\ t.todo = i /\ t.out = o
          /\ t.left = l /\ t.command = s.command /\ t.header = s.header
          /\ t.ring = s.ring /\ t.result = "running"
      BY <2>2 DEF States
    <2> USE DEF l, byte, n, i, o
    <2> QED
      BY ONLY <1>2, <1>5, <2>1, <2>3, <2>6, <2>7
  <1> QED
    BY ONLY <1>2, <1>4, <1>5

\* What the copy of a command uses.
SymbolOf(b, s) == IF s.command.reuse THEN 0 ELSE b.parts[s.at].symbol
DistanceIn(b, s) ==
  IF s.command.reuse THEN Resolve(s.ring, 0) ELSE DistanceOf(b.parts[s.at], s.ring)
SourceIn(b, s) == Source(b, Len(s.out), DistanceIn(b, s))
LenIn(b, s) == CopyLen(b, SourceIn(b, s), s.command.copy)
Refused(b, s) ==
  SourceIn(b, s) = "invalid" \/ LenIn(b, s) > Needed(b) - Len(s.out)

\* A turn at a copy.
LEMMA CopyTurn ==
  ASSUME NEW b, WellFormed(b), NEW s \in States(b), Fed(b, s),
         s.result = "running", s.phase = "distance",
         NEW part, part = b.parts[s.at], NEW t, t = Turn(b, s)
  PROVE  /\ t \in States(b)
         /\ ~s.command.reuse => s.at \in 1 .. Len(b.parts)
         /\ ~s.command.reuse /\ s.left["distances"] = 0 =>
              /\ t = NextBlock(b, s, "distances")
              /\ There(b, s.at) = <<"switch", "distances">>
         /\ ~s.command.reuse /\ s.left["distances"] # 0 => part.kind = "distance"
         /\ s.command.reuse \/ s.left["distances"] # 0 =>
              /\ Refused(b, s) => EndsAs(t, s, "error")
              /\ ~Refused(b, s) =>
                   /\ t.out = Copied(s.out, SourceIn(b, s), DistanceIn(b, s), LenIn(b, s))
                   /\ Len(t.out) = Len(s.out) + LenIn(b, s) /\ LenIn(b, s) \in Nat
                   /\ Extends(t.out, s.out)
                   /\ t.ring = RingAfter(s.ring, SymbolOf(b, s), SourceIn(b, s),
                                         DistanceIn(b, s))
                   /\ t.at = IF s.command.reuse THEN s.at ELSE s.at + 1
                   /\ t.left = IF s.command.reuse THEN s.left
                               ELSE OneLess(s.left, "distances")
                   /\ t.phase = "command" /\ t.command = s.command
                   /\ t.header = s.header /\ t.todo = s.todo
                   /\ t.result = "running"
  <1>1. t = TakeCopy(b, s)
    BY DEF Turn
  <1>2. ~s.command.reuse => /\ s.at \in 1 .. Len(b.parts)
                            /\ There(b, s.at) = DueIn(b, "distance", s.left, s.header)
    BY DEF Fed, Reads
  <1>3. /\ s.left \in Lefts /\ s.at \in Nat /\ s.todo \in Nat /\ s.ring \in Distances
        /\ s.command.copy \in Nat /\ s.command.reuse \in BOOLEAN
        /\ s.out \in Seq(BytesOf(b)) /\ Len(s.out) \in Nat
        /\ "distances" \in Category
    BY LenProperties DEF States, Category, Commands
  <1>4. CASE ~s.command.reuse /\ s.left["distances"] = 0
    <2>1. t = NextBlock(b, s, "distances")
      BY <1>1, <1>4 DEF TakeCopy
    <2>2. There(b, s.at) = <<"switch", "distances">>
      BY <1>2, <1>4 DEF DueIn
    <2>3. NextBlock(b, s, "distances") \in States(b)
      BY <1>2, <1>3, <1>4, <2>2, NextBlockFacts
    <2> QED
      BY <1>2, <1>4, <2>1, <2>2, <2>3
  <1>5. CASE s.command.reuse \/ s.left["distances"] # 0
    <2>1. ~s.command.reuse => part.kind = "distance" /\ PartOf(part)
      <3>1. ~s.command.reuse =>
              There(b, s.at) = <<"distance", s.header["distances"].current>>
        BY <1>2, <1>5 DEF DueIn
      <3> QED
        BY <1>2, <3>1, BlockFacts DEF There
    <2>2. SymbolOf(b, s) \in Nat /\ DistanceIn(b, s) \in Nat
      <3>1. ~s.command.reuse => part.symbol \in Nat /\ part.distance \in Nat
        BY <2>1 DEF PartOf
      <3>2. \A symbol \in 0 .. 15 : Resolve(s.ring, symbol) \in Nat
        BY <1>3, RingFacts
      <3>3. 0 \in 0 .. 15 /\ \A symbol \in Nat : symbol < 16 => symbol \in 0 .. 15
        OBVIOUS
      <3>4. CASE s.command.reuse
        BY <3>2, <3>3, <3>4 DEF SymbolOf, DistanceIn
      <3>5. CASE ~s.command.reuse
        <4>1. SymbolOf(b, s) = part.symbol /\ DistanceIn(b, s) = DistanceOf(part, s.ring)
          BY <3>5 DEF SymbolOf, DistanceIn
        <4>2. DistanceOf(part, s.ring) \in Nat
          BY <3>1, <3>2, <3>3, <3>5 DEF DistanceOf
        <4> QED
          BY <3>1, <3>5, <4>1, <4>2
      <3> QED
        BY <3>4, <3>5
    <2>3. /\ SourceIn(b, s) = "output" => DistanceIn(b, s) \in 1 .. Len(s.out)
          /\ SourceIn(b, s) \in {"output", "raw", "word", "invalid"}
          /\ LenIn(b, s) \in Nat
      <3> DEFINE d == DistanceIn(b, s)
                 n == Len(s.out)
      <3>1. d \in Int /\ n \in Nat
        BY <1>3, <2>2
      <3>2. SourceIn(b, s) = Source(b, n, d)
            /\ LenIn(b, s) = CopyLen(b, Source(b, n, d), s.command.copy)
        BY DEF SourceIn, LenIn
      <3> HIDE DEF d, n
      <3>3. /\ Source(b, n, d) = "output" => d \in 1 .. n
            /\ Source(b, n, d) \in {"output", "raw", "word", "invalid"}
            /\ \A len \in Nat : CopyLen(b, Source(b, n, d), len) \in Nat
        BY <3>1, SourceFacts
      <3> USE DEF d, n
      <3> QED
        BY <1>3, <3>2, <3>3
    <2> DEFINE u == Refused(b, s)
               o == Copied(s.out, SourceIn(b, s), DistanceIn(b, s), LenIn(b, s))
               r == RingAfter(s.ring, SymbolOf(b, s), SourceIn(b, s), DistanceIn(b, s))
               n == IF s.command.reuse THEN s.at ELSE s.at + 1
               l == IF s.command.reuse THEN s.left
                    ELSE OneLess(s.left, "distances")
    <2>4. t = IF u THEN [s EXCEPT !.result = "error"]
              ELSE [s EXCEPT !.out = o, !.ring = r, !.at = n, !.left = l,
                             !.phase = "command"]
      <3>1. t = IF u THEN [s EXCEPT !.result = "error"]
                ELSE [s EXCEPT !.out = o, !.ring = r, !.at = n,
                        !.left["distances"] = IF s.command.reuse THEN @ ELSE @ - 1,
                        !.phase = "command"]
        BY <1>1, <1>5
        DEF TakeCopy, Refused, SymbolOf, DistanceIn, SourceIn, LenIn
      <3>2. [s.left EXCEPT !["distances"] = s.left["distances"]] = s.left
        BY <1>3 DEF Lefts
      <3> HIDE DEF u, o, r, n
      <3> QED
        BY <1>3, <3>1, <3>2 DEF OneLess
    <2>5. CASE u
      <3>1. t = [s EXCEPT !.result = "error"]
        BY <2>4, <2>5
      <3>2. t \in States(b)
        BY <3>1 DEF States
      <3>3. EndsAs(t, s, "error")
        BY <3>1 DEF States, EndsAs
      <3> QED
        BY ONLY <1>2, <1>5, <2>1, <2>5, <3>2, <3>3
    <2>6. CASE ~u
      <3>1. l \in Lefts
        BY <1>3, <1>5, LeftFacts
      <3>2. r \in Distances
        <4>1. PICK x \in Nat, y \in Int : x = SymbolOf(b, s) /\ y = DistanceIn(b, s)
          BY <2>2
        <4>2. \A z : RingAfter(s.ring, x, z, y) \in Distances
          BY ONLY <1>3, x \in Nat, y \in Int, RingFacts
        <4> QED
          BY <4>1, <4>2
      <3>3. o \in Seq(BytesOf(b)) /\ Len(o) = Len(s.out) + LenIn(b, s) /\ Extends(o, s.out)
        <4>1. SourceIn(b, s) # "output" => SourceIn(b, s) \in BytesOf(b)
          BY <2>3, <2>6 DEF Refused, BytesOf
        <4>2. DistanceIn(b, s) \in Int
          BY <2>2
        <4> QED
          BY <1>3, <2>3, <4>1, <4>2, CopiedFacts
      <3>4. n \in Nat
        BY <1>3
      <3>5. t = [s EXCEPT !.out = o, !.ring = r, !.at = n, !.left = l,
                          !.phase = "command"]
        BY <2>4, <2>6
      <3> HIDE DEF u, o, r, n, l
      <3>6. t \in States(b)
        <4>1. t = [header |-> s.header, at |-> n, out |-> o, ring |-> r,
                   result |-> s.result, left |-> l, phase |-> "command",
                   command |-> s.command, todo |-> s.todo]
          BY <3>5 DEF States
        <4>2. s.header \in Headers /\ s.command \in Commands
          BY DEF States
        <4> QED
          BY <1>3, <3>1, <3>2, <3>3, <3>4, <4>1, <4>2 DEF States
      <3>7. /\ t.out = o /\ t.ring = r /\ t.at = n /\ t.left = l
            /\ t.phase = "command" /\ t.command = s.command
            /\ t.header = s.header /\ t.todo = s.todo /\ t.result = "running"
        BY <3>5 DEF States
      <3> USE DEF u, o, r, n, l
      <3> QED
        BY ONLY <1>2, <1>5, <2>1, <2>3, <2>6, <3>3, <3>6, <3>7
    <2> QED
      BY <2>5, <2>6
  <1> QED
    BY ONLY <1>2, <1>4, <1>5

LEMMA SameExtends ==
  ASSUME NEW S, NEW out \in Seq(S)
  PROVE  Extends(out, out) /\ \A letter \in S : Extends(Append(out, letter), out)
  <1>1. Len(out) \in Nat
    BY LenProperties
  <1>2. Extends(out, out)
    BY <1>1 DEF Extends
  <1>3. ASSUME NEW letter \in S PROVE Extends(Append(out, letter), out)
    BY <1>1 DEF Extends
  <1> QED
    BY <1>2, <1>3

\* A turn keeps the output, and goes on to the end.
LEMMA TurnFacts ==
  ASSUME NEW b, WellFormed(b), NEW s \in States(b), Fed(b, s),
         NEW t, t = Turn(b, s)
  PROVE  /\ t \in States(b) /\ Extends(t.out, s.out)
         /\ s.result # "running" => t = s
         /\ s.result = "running" /\ t.result = "running" => Rank(t) >= Rank(s) + 1
         /\ t.at = s.at \/ t.at <= Len(b.parts) + 1
         /\ s.result = "running" /\ s.phase = "command" /\ t.result = "running" =>
              t.at <= Len(b.parts) + 1
  <1>0. PICK part : part = b.parts[s.at]
    OBVIOUS
  <1>1. /\ s.out \in Seq(BytesOf(b)) /\ s.at \in Nat /\ Len(b.parts) \in Nat
        /\ s.todo \in Nat /\ Len(s.out) \in Nat /\ Needed(b) \in Nat
        /\ s.phase \in {"command", "literals", "distance"} /\ s.left \in Lefts
        /\ s.command.reuse \in BOOLEAN
    BY BlockFacts, LenProperties DEF States, Commands
  <1>2. Extends(s.out, s.out)
    BY <1>1, SameExtends
  <1>3. CASE s.result # "running"
    <2>1. t = s
      BY <1>3 DEF Turn
    <2> QED
      BY <1>2, <1>3, <2>1
  <1>4. ASSUME EndsAs(t, s, "error") \/ EndsAs(t, s, "done")
        PROVE  t.out = s.out /\ t.at = s.at /\ t.result # "running"
    BY <1>4 DEF EndsAs
  <1>5. ASSUME s.result = "running", NEW category \in Category,
               s.at \in 1 .. Len(b.parts), There(b, s.at) = <<"switch", category>>,
               t = NextBlock(b, s, category)
        PROVE  /\ t \in States(b) /\ t.out = s.out
               /\ t.result = "running" => t.at = s.at + 1 /\ t.phase = s.phase
               /\ t.at = s.at \/ t.at = s.at + 1
    <2>1. /\ t \in States(b) /\ t.out = s.out
          /\ BadType(b, part) => EndsAs(t, s, "error")
          /\ ~BadType(b, part) => t.at = s.at + 1 /\ t.phase = s.phase
      BY <1>0, <1>5, NextBlockFacts
    <2> QED
      BY <1>4, <2>1
  <1>6. CASE s.result = "running" /\ s.phase = "command"
    <2>1. "commands" \in Category
      BY DEF Category
    <2>2. CASE Len(s.out) >= Needed(b)
      <3>1. EndsAs(t, s, "done") /\ t \in States(b)
        BY <1>0, <1>6, <2>2, CommandTurn
      <3> QED
        BY <1>2, <1>4, <1>6, <3>1
    <2>3. CASE Len(s.out) < Needed(b) /\ s.left["commands"] = 0
      <3>1. /\ s.at \in 1 .. Len(b.parts) /\ t = NextBlock(b, s, "commands")
            /\ There(b, s.at) = <<"switch", "commands">>
        BY <1>0, <1>6, <2>3, CommandTurn
      <3>2. /\ t \in States(b) /\ t.out = s.out
            /\ t.result = "running" => t.at = s.at + 1 /\ t.phase = s.phase
            /\ t.at = s.at \/ t.at = s.at + 1
        BY <1>5, <1>6, <2>1, <3>1
      <3>3. t.result = "running" => Rank(t) >= Rank(s) + 1
        <4>1. t.result = "running" => t.at = s.at + 1 /\ t.phase = "command"
          BY <1>6, <3>2
        <4>2. s.at \in Nat /\ s.phase = "command"
          BY <1>1, <1>6
        <4> QED
          BY ONLY <4>1, <4>2 DEF Rank
      <3>4. t.at = s.at \/ t.at <= Len(b.parts) + 1
        BY ONLY <1>1, <3>1, <3>2
      <3>5. t.result = "running" => t.at <= Len(b.parts) + 1
        BY ONLY <1>1, <3>1, <3>2
      <3> QED
        BY <1>2, <1>6, <3>2, <3>3, <3>4, <3>5
    <2>4. CASE Len(s.out) < Needed(b) /\ s.left["commands"] # 0
      <3>1. /\ s.at \in 1 .. Len(b.parts) /\ t \in States(b)
            /\ part.kind = "command" /\ CommandOf(part) \in Commands
            /\ part.insert > Needed(b) - Len(s.out) =>
                 EndsAs(t, s, "error")
            /\ part.insert <= Needed(b) - Len(s.out) =>
                 /\ t.at = s.at + 1 /\ t.phase = "literals" /\ t.out = s.out
        BY <1>0, <1>6, <2>4, CommandTurn
      <3>2. part.insert \in Nat
        <4>1. PartOf(part)
          BY <1>0, <3>1, BlockFacts
        <4> QED
          BY <3>1, <4>1 DEF PartOf
      <3>3. CASE part.insert > Needed(b) - Len(s.out)
        BY <1>2, <1>4, <1>6, <3>1, <3>3
      <3>4. CASE part.insert <= Needed(b) - Len(s.out)
        <4>1. /\ t.at = s.at + 1 /\ t.phase = "literals" /\ t.out = s.out
              /\ t \in States(b) /\ s.at \in 1 .. Len(b.parts)
          BY <3>1, <3>4
        <4>2. Rank(t) >= Rank(s) + 1
          BY ONLY <1>1, <1>6, <4>1 DEF Rank
        <4> QED
          BY ONLY <1>1, <1>2, <1>6, <4>1, <4>2
      <3> QED
        BY <1>1, <3>2, <3>3, <3>4
    <2> QED
      BY <1>1, <2>2, <2>3, <2>4
  <1>7. CASE s.result = "running" /\ s.phase = "literals"
    <2>1. "literals" \in Category
      BY DEF Category
    <2>2. CASE s.todo = 0
      <3>1. /\ t \in States(b)
            /\ Len(s.out) = Needed(b) => EndsAs(t, s, "done")
            /\ Len(s.out) # Needed(b) =>
                 t.out = s.out /\ t.at = s.at /\ t.phase = "distance"
        BY <1>7, <2>2, LiteralsEndTurn
      <3>2. CASE Len(s.out) = Needed(b)
        <4>1. t.out = s.out /\ t.at = s.at /\ t.result # "running"
          BY <1>4, <3>1, <3>2
        <4> QED
          BY <1>2, <1>7, <3>1, <4>1
      <3>3. CASE Len(s.out) # Needed(b)
        <4>1. t.out = s.out /\ t.at = s.at /\ t.phase = "distance"
          BY <3>1, <3>3
        <4> QED
          BY <1>1, <1>2, <1>7, <3>1, <4>1 DEF Rank
      <3> QED
        BY <3>2, <3>3
    <2>3. CASE s.todo # 0 /\ ~SingleLiteralCode(b) /\ s.left["literals"] = 0
      <3>1. /\ s.at \in 1 .. Len(b.parts) /\ t = NextBlock(b, s, "literals")
            /\ There(b, s.at) = <<"switch", "literals">>
        BY <1>0, <1>7, <2>3, LiteralTurn
      <3>2. /\ t \in States(b) /\ t.out = s.out
            /\ t.result = "running" => t.at = s.at + 1 /\ t.phase = s.phase
            /\ t.at = s.at \/ t.at = s.at + 1
        BY <1>5, <1>7, <2>1, <3>1
      <3> QED
        BY <1>1, <1>2, <1>7, <3>1, <3>2 DEF Rank
    <2>4. CASE s.todo # 0 /\ (SingleLiteralCode(b) \/ s.left["literals"] # 0)
      <3>1. /\ s.at \in 1 .. Len(b.parts) /\ t \in States(b)
            /\ t.at = s.at + 1 /\ t.phase = "literals"
            /\ t.out = Append(s.out, LiteralAt(b, s.at, s.header))
            /\ LiteralAt(b, s.at, s.header) \in BytesOf(b)
        BY <1>0, <1>7, <2>4, LiteralTurn
      <3>2. Extends(t.out, s.out)
        BY <1>1, <3>1, SameExtends
      <3>3. Rank(t) >= Rank(s) + 1
        BY <1>1, <1>7, <3>1 DEF Rank
      <3> QED
        BY <1>1, <1>7, <3>1, <3>2, <3>3
    <2> QED
      BY <2>2, <2>3, <2>4
  <1>8. CASE s.result = "running" /\ s.phase = "distance"
    <2>1. "distances" \in Category
      BY DEF Category
    <2>2. CASE ~s.command.reuse /\ s.left["distances"] = 0
      <3>1. /\ s.at \in 1 .. Len(b.parts) /\ t = NextBlock(b, s, "distances")
            /\ There(b, s.at) = <<"switch", "distances">>
        BY <1>0, <1>8, <2>2, CopyTurn
      <3>2. /\ t \in States(b) /\ t.out = s.out
            /\ t.result = "running" => t.at = s.at + 1 /\ t.phase = s.phase
            /\ t.at = s.at \/ t.at = s.at + 1
        BY <1>5, <1>8, <2>1, <3>1
      <3> QED
        BY <1>1, <1>2, <1>8, <3>1, <3>2 DEF Rank
    <2>3. CASE s.command.reuse \/ s.left["distances"] # 0
      <3>1. /\ t \in States(b)
            /\ ~s.command.reuse => s.at \in 1 .. Len(b.parts)
            /\ Refused(b, s) => EndsAs(t, s, "error")
            /\ ~Refused(b, s) =>
                 /\ Extends(t.out, s.out) /\ t.phase = "command"
                 /\ t.at = IF s.command.reuse THEN s.at ELSE s.at + 1
        BY <1>0, <1>8, <2>3, CopyTurn
      <3>2. CASE Refused(b, s)
        <4>1. t.out = s.out /\ t.at = s.at /\ t.result # "running"
          BY <1>4, <3>1, <3>2
        <4> QED
          BY <1>2, <1>8, <3>1, <4>1
      <3>3. CASE ~Refused(b, s)
        <4>1. /\ Extends(t.out, s.out) /\ t.phase = "command" /\ t \in States(b)
              /\ t.at = IF s.command.reuse THEN s.at ELSE s.at + 1
              /\ ~s.command.reuse => s.at \in 1 .. Len(b.parts)
          BY <3>1, <3>3
        <4>2. Rank(t) >= Rank(s) + 1
          BY ONLY <1>1, <1>8, <4>1 DEF Rank
        <4> QED
          BY ONLY <1>1, <1>8, <4>1, <4>2
      <3> QED
        BY <3>2, <3>3
    <2> QED
      BY <1>1, <2>2, <2>3
  <1> QED
    BY <1>1, <1>3, <1>6, <1>7, <1>8

(***************************************************************************)
(* The whole loop.                                                         *)
(***************************************************************************)
LEMMA ExtendsOn ==
  ASSUME NEW S, NEW x \in Seq(S), NEW y \in Seq(S), NEW z \in Seq(S),
         Extends(y, x), Extends(z, y)
  PROVE  Extends(z, x)
  <1>1. Len(x) \in Nat /\ Len(y) \in Nat /\ Len(z) \in Nat
    BY LenProperties
  <1> QED
    BY <1>1 DEF Extends

LEMMA LoopStates ==
  ASSUME NEW b, WellFormed(b), Unlimited \in Nat
  PROVE  \A n \in 0 .. Turns(b) :
           /\ Loop(b)[n] \in States(b) /\ Fed(b, Loop(b)[n])
           /\ Loop(b)[n].result = "running" => Rank(Loop(b)[n]) >= n + 8
           /\ Loop(b)[n].result = "running" =>
                n = 0 \/ Loop(b)[n].at <= Len(b.parts) + 1
  <1> DEFINE L(n) == Loop(b)[n]
             Good(n) == /\ L(n) \in States(b)
                        /\ L(n).result = "running" => Rank(L(n)) >= n + 8
                        /\ L(n).result = "running" =>
                             n = 0 \/ L(n).at <= Len(b.parts) + 1
             Goods == {n \in Nat : Good(n)}
  <1>1. Turns(b) \in Nat /\ Len(b.parts) \in Nat
    BY BlockFacts
  <1>2. L(0) = Begin(b) /\ \A n \in Nat : n < Turns(b) => L(n + 1) = Turn(b, L(n))
    BY LoopStep
  <1>3. \A n \in 0 .. Turns(b) : Fed(b, L(n))
    <2>1. InForce(b)
      BY DEF WellFormed
    <2> QED
      BY <2>1 DEF InForce, Fed
  <1> HIDE DEF L
  <1>4. 0 \in Goods
    <2>1. L(0) \in States(b) /\ Rank(L(0)) >= 0 + 8
      <3>1. Begin(b) \in States(b) /\ Rank(Begin(b)) >= 8
        BY BeginFacts
      <3>2. L(0) = Begin(b)
        BY <1>2
      <3> QED
        BY ONLY <3>1, <3>2
    <2>2. Good(0)
      BY <2>1
    <2> QED
      BY <2>2
  <1>5. ASSUME NEW n \in Nat, n < Turns(b), n \in Goods
        PROVE  n + 1 \in Goods
    <2> DEFINE s == L(n)
               t == L(n + 1)
    <2>1. Good(n) /\ Fed(b, s) /\ t = Turn(b, s)
      BY <1>1, <1>2, <1>3, <1>5
    <2> HIDE DEF s, t
    <2>2. s \in States(b)
      BY <2>1 DEF s
    <2>3. /\ t \in States(b)
          /\ s.result # "running" => t = s
          /\ s.result = "running" /\ t.result = "running" => Rank(t) >= Rank(s) + 1
          /\ t.at = s.at \/ t.at <= Len(b.parts) + 1
          /\ s.result = "running" /\ s.phase = "command" /\ t.result = "running" =>
               t.at <= Len(b.parts) + 1
      BY <2>1, <2>2, TurnFacts
    <2>4. s.at \in Nat /\ t.at \in Nat /\ s.phase \in {"command", "literals", "distance"}
          /\ t.phase \in {"command", "literals", "distance"}
      BY <2>2, <2>3 DEF States
    <2>5. Rank(s) \in Nat /\ Rank(t) \in Nat
      BY <2>4 DEF Rank
    <2>6. t.result = "running" => s.result = "running"
      BY <2>3
    <2>7. t.result = "running" => Rank(t) >= (n + 1) + 8
      <3>1. s.result = "running" => Rank(s) >= n + 8
        BY <2>1 DEF s
      <3> QED
        BY <2>3, <2>5, <2>6, <3>1
    <2>8. t.result = "running" => t.at <= Len(b.parts) + 1
      <3>1. CASE t.result = "running" /\ t.at = s.at
        <4>1. n # 0 => s.at <= Len(b.parts) + 1
          <5>1. s.result = "running" =>
                  n = 0 \/ s.at <= Len(b.parts) + 1
            BY <2>1 DEF s
          <5> QED
            BY <2>6, <3>1, <5>1
        <4>2. n = 0 => s.phase = "command"
          <5>1. L(0) = Begin(b) /\ Begin(b).phase = "command"
            BY <1>2, BeginFacts
          <5> QED
            BY <5>1 DEF s
        <4> QED
          BY <2>3, <2>6, <3>1, <4>1, <4>2
      <3> QED
        BY <2>3, <3>1
    <2>9. Good(n + 1)
      BY <2>3, <2>7, <2>8 DEF t
    <2> QED
      BY <2>9
  <1> HIDE DEF Good
  <1>6. \A n \in 0 .. Turns(b) : n \in Goods
    <2> HIDE DEF Goods
    <2> QED
      BY <1>1, <1>4, <1>5, UpTo
  <1> QED
    BY <1>3, <1>6 DEF Good, L

\* A loop that runs goes on, and has ended at the last turn.
LEMMA LoopGoesOn ==
  ASSUME NEW b, WellFormed(b), Unlimited \in Nat,
         NEW n \in 0 .. Turns(b), Loop(b)[n].result = "running"
  PROVE  /\ n < Turns(b) /\ n + 1 \in 0 .. Turns(b)
         /\ Loop(b)[n + 1] = Turn(b, Loop(b)[n])
  <1> DEFINE s == Loop(b)[n]
  <1>1. Turns(b) \in Nat /\ Len(b.parts) \in Nat
    BY BlockFacts
  <1>2. /\ s \in States(b) /\ Rank(s) >= n + 8
        /\ n = 0 \/ s.at <= Len(b.parts) + 1
    BY LoopStates
  <1>3. s.at \in Nat /\ s.phase \in {"command", "literals", "distance"}
    BY <1>2 DEF States
  <1> HIDE DEF s
  <1>4. n < Turns(b)
    <2>1. PICK x \in Nat, y \in Nat : x = s.at /\ y = Len(b.parts)
      BY <1>1, <1>3
    <2>2. Rank(s) <= 3 * x + 2
      <3>1. s.at \in Nat /\ s.at = x
        BY <1>3, <2>1
      <3> QED
        BY ONLY <1>3, <3>1 DEF Rank
    <2>3. Rank(s) \in Int
      BY ONLY <1>3 DEF Rank
    <2>4. Rank(s) >= n + 8 /\ (n = 0 \/ x <= y + 1) /\ x \in Nat /\ y \in Nat /\ n \in Nat
      BY <1>1, <1>2, <2>1
    <2>5. n < 3 * (y + 1)
      BY ONLY <2>2, <2>3, <2>4
    <2> QED
      BY <2>1, <2>5 DEF Turns
  <1>5. Loop(b)[n + 1] = Turn(b, Loop(b)[n])
    BY <1>4, LoopStep
  <1> QED
    BY <1>1, <1>4, <1>5

\* What has ended stays, and what is decoded stays.
LEMMA LoopKeeps ==
  ASSUME NEW b, WellFormed(b), Unlimited \in Nat, NEW n \in 0 .. Turns(b)
  PROVE  /\ OneShot(b) \in States(b)
         /\ Extends(OneShot(b).out, Loop(b)[n].out)
         /\ Loop(b)[n].result # "running" => OneShot(b) = Loop(b)[n]
  <1> DEFINE L(k) == Loop(b)[k]
             Good(k) == k \in n .. Turns(b) =>
                          /\ Extends(L(k).out, L(n).out)
                          /\ L(n).result # "running" => L(k) = L(n)
             Goods == {k \in Nat : Good(k)}
  <1>1. Turns(b) \in Nat /\ Turns(b) \in 0 .. Turns(b)
    BY BlockFacts
  <1>2. \A k \in Nat : k < Turns(b) => L(k + 1) = Turn(b, L(k))
    BY LoopStep
  <1>3. \A k \in 0 .. Turns(b) : L(k) \in States(b) /\ Fed(b, L(k))
    BY LoopStates
  <1> HIDE DEF L
  <1>4. \A k \in 0 .. Turns(b) : L(k).out \in Seq(BytesOf(b))
    BY <1>3 DEF States
  <1>5. Extends(L(n).out, L(n).out)
    BY <1>4, SameExtends
  <1>6. 0 \in Goods
    BY <1>5
  <1>7. ASSUME NEW k \in Nat, k \in Goods
        PROVE  k + 1 \in Goods
    <2>1. CASE ~(k + 1 \in n .. Turns(b))
      BY <2>1
    <2>2. CASE k + 1 = n
      BY <1>5, <2>2
    <2>3. CASE k + 1 \in n .. Turns(b) /\ k + 1 # n
      <3>1. k \in n .. Turns(b) /\ k < Turns(b) /\ k \in 0 .. Turns(b)
            /\ k + 1 \in 0 .. Turns(b)
        BY <1>1, <2>3
      <3>2. /\ Extends(L(k).out, L(n).out)
            /\ L(n).result # "running" => L(k) = L(n)
        BY <1>7, <3>1
      <3>3. /\ Extends(L(k + 1).out, L(k).out)
            /\ L(k).result # "running" => L(k + 1) = L(k)
        BY <1>2, <1>3, <3>1, TurnFacts
      <3>4. Extends(L(k + 1).out, L(n).out)
        BY <1>4, <3>1, <3>2, <3>3, ExtendsOn
      <3>5. Good(k + 1)
        BY <3>2, <3>3, <3>4
      <3> QED
        BY <3>5
    <2> QED
      BY <2>1, <2>2, <2>3
  <1>8. Good(Turns(b))
    <2>1. Turns(b) \in Goods
      <3> HIDE DEF Goods
      <3> QED
        BY <1>1, <1>6, <1>7, AllNaturals
    <2> QED
      BY <2>1
  <1>9. OneShot(b) = L(Turns(b))
    BY DEF OneShot, L
  <1> QED
    BY <1>1, <1>3, <1>8, <1>9 DEF L

(***************************************************************************)
(* The invariant: a step is at a turn of decode_commands, and leaves a     *)
(* checkpoint that is one.                                                 *)
(***************************************************************************)
Visits(b) == {Loop(b)[n] : n \in 0 .. Turns(b)}

Cursors ==
  [pos : Nat, types : [Category -> Nat \X Nat], left : Lefts, ring : Distances,
   pending : [kind : {"header", "literals", "distance"}, command : Commands,
              left : Nat]]

\* Where part i starts is within what has arrived.
Within(i) == i \in 1 .. Len(block.parts) + 1 /\ BitsTo(i) \in Nat /\ BitsTo(i) <= avail

Typed ==
  /\ block \in Blocks /\ avail \in Nat
  /\ Within(bit_pos) /\ Within(at)
  /\ stage \in {"header", "codes", "body"}
  /\ pc \in {"idle", "header", "command", "literals", "distance"}
  /\ result \in {"more", "running", "stopped", "endOfInput", "done", "error"}
  /\ header \in Headers
  /\ output \in Seq(BytesOf(block))
  /\ stage # "header" => cursor \in Cursors
  /\ pc # "idle" => c \in Cursors /\ command \in Commands /\ left \in Nat

\* The checkpoint is the state s of the loop, up to where in the input it is.
Keeps(s) ==
  /\ s.result = "running"
  /\ Len(s.out) = cursor.pos /\ Extends(output, s.out)
  /\ s.ring = cursor.ring /\ s.left = cursor.left
  /\ TypesOf(s.header) = cursor.types
  /\ IF cursor.pending.kind = "header" THEN s.phase = "command"
     ELSE /\ s.phase = "literals" /\ s.command = cursor.pending.command
          /\ s.todo = cursor.pending.left

\* The step is at the state s of the loop.
Follows(s) ==
  /\ s.result = "running"
  /\ s.at = at /\ s.out = output /\ Len(output) = c.pos
  /\ s.ring = c.ring /\ s.left = c.left /\ TypesOf(s.header) = BlockTypes
  /\ s.phase = IF pc \in {"header", "command"} THEN "command" ELSE pc
  /\ pc \in {"literals", "distance"} => s.command = command /\ s.todo = left

\* Codes read before the next one.
CodesBefore(b, group, index) ==
  index + CASE group = 0 -> 0
            [] group = 1 -> b.trees
            [] group = 2 -> b.trees + b.types["commands"]

Preparing ==
  /\ stage = "header" =>
       /\ pc = "idle" /\ bit_pos = 1 /\ output = Earlier(block)
       /\ cursor.pos = block.start /\ distances = LAST_DISTANCES /\ result = "more"
  /\ stage = "codes" =>
       /\ pc = "idle" /\ result = "more" /\ Keeps(Begin(block))
       /\ \E group \in 0 .. 2 : \E index \in 0 .. GroupCount(group) - 1 :
            /\ next = <<group, index>>
            /\ bit_pos = 2 + CodesBefore(block, group, index)

Saved == \E s \in Visits(block) : s.at = bit_pos /\ Keeps(s)
Current == \E s \in Visits(block) : Follows(s)

Decoding ==
  /\ stage = "body" /\ result \notin {"done", "error"} => Saved
  /\ pc # "idle" <=> result = "running"
  /\ pc # "idle" => stage = "body" /\ Current
  /\ pc = "command" => c.pos < Needed(block)

Ended ==
  result \in {"done", "error"} =>
    /\ stage = "body" /\ result = OneShot(block).result
    /\ output = OneShot(block).out /\ cursor.pos = Len(output)
    /\ result = "done" =>
         distances = OneShot(block).ring /\ bit_pos = OneShot(block).at

\* The input holds all that is read before the next checkpoint.
Ahead(i) == i = bit_pos \/ avail - BitsTo(i) >= StepBits
AheadBy(category) ==
  \/ Ahead(at)
  \/ /\ at - 1 \in 1 .. Len(block.parts) /\ Ahead(at - 1)
     /\ block.parts[at - 1].kind = "switch"
     /\ block.parts[at - 1].category = category
     /\ c.left[category] # 0

Behind ==
  /\ pc = "command" => AheadBy("commands")
  /\ pc = "distance" => AheadBy("distances")
  /\ RedecodesOnePart

IInv == Typed /\ Preparing /\ Decoding /\ Ended /\ Behind

(***************************************************************************)
(* Where the parts start.                                                  *)
(***************************************************************************)
LEMMA OffsetsFacts ==
  ASSUME NEW b, WellFormed(b)
  PROVE  /\ Offsets(b)[1] = 0
         /\ \A i \in 1 .. Len(b.parts) + 1 : Offsets(b)[i] \in Nat
         /\ \A i \in 1 .. Len(b.parts) :
              /\ b.parts[i].bits \in Nat
              /\ Offsets(b)[i + 1] = Offsets(b)[i] + b.parts[i].bits
  <1> DEFINE N == Len(b.parts) + 1
             Value(g, j) == IF j = 1 THEN 0 ELSE g[j - 1] + b.parts[j - 1].bits
             Good(g, k) == g = [j \in 1 .. k |-> Value(g, j)]
             Lengths == {k \in Nat : \E g : Good(g, k)}
             O == Offsets(b)
  <1>1. N \in Nat /\ Len(b.parts) \in Nat /\ \A i \in 1 .. Len(b.parts) : b.parts[i].bits \in Nat
    BY BlockFacts DEF PartOf
  <1>2. 0 \in Lengths
    <2> DEFINE g == [i \in 1 .. 0 |-> 0]
    <2>1. Good(g, 0)
      <3>1. \A f : [i \in 1 .. 0 |-> Value(f, i)] = g
        OBVIOUS
      <3> QED
        BY <3>1
    <2> HIDE DEF Good, g
    <2> QED
      BY <2>1
  <1>3. ASSUME NEW k \in Nat, k \in Lengths PROVE k + 1 \in Lengths
    <2>1. PICK g : Good(g, k)
      BY <1>3
    <2> DEFINE h == [j \in 1 .. k + 1 |-> IF j = k + 1 THEN Value(g, k + 1) ELSE g[j]]
    <2>2. \A j \in 1 .. k : g[j] = Value(g, j) /\ h[j] = g[j]
      <3>1. g = [j \in 1 .. k |-> Value(g, j)]
        BY <2>1
      <3>2. \A j \in 1 .. k : g[j] = Value(g, j)
        BY <3>1
      <3> HIDE DEF Value
      <3> QED
        BY <3>2
    <2>4. \A j \in 1 .. k + 1 : Value(g, j) = Value(h, j)
      BY <2>2
    <2>5. h[k + 1] = Value(g, k + 1)
      OBVIOUS
    <2>6. \A j \in 1 .. k + 1 : h[j] = Value(h, j)
      <3> HIDE DEF Value, h
      <3> QED
        BY <2>2, <2>4, <2>5
    <2>7. h = [j \in 1 .. k + 1 |-> h[j]]
      OBVIOUS
    <2>8. Good(h, k + 1)
      <3> HIDE DEF h, Value
      <3>1. [j \in 1 .. k + 1 |-> h[j]] = [j \in 1 .. k + 1 |-> Value(h, j)]
        BY <2>6
      <3> QED
        BY <2>7, <3>1
    <2> HIDE DEF Good, h
    <2> QED
      BY <2>8
  <1>4. Good(O, N)
    <2> HIDE DEF Lengths, N
    <2>1. N \in Lengths
      BY <1>1, <1>2, <1>3, AllNaturals
    <2>2. O = CHOOSE g : Good(g, N)
      BY DEF Offsets, N
    <2> HIDE DEF Good, O
    <2>3. \E g : Good(g, N)
      BY <2>1 DEF Lengths
    <2> QED
      BY <2>2, <2>3
  <1> HIDE DEF O
  <1>5. \A j \in 1 .. N : O[j] = Value(O, j)
    <2>1. O = [j \in 1 .. N |-> Value(O, j)]
      BY <1>4
    <2> HIDE DEF N, Value
    <2> QED
      BY <2>1
  <1>6. \A i \in 1 .. Len(b.parts) : O[i + 1] = O[i] + b.parts[i].bits
    BY <1>1, <1>5
  <1>7. O[1] = 0
    BY <1>1, <1>5
  <1>8. \A i \in 1 .. N : O[i] \in Nat
    <2> DEFINE T == {k \in Nat : k + 1 <= N => O[k + 1] \in Nat}
    <2>1. 0 \in T
      BY <1>7
    <2>2. ASSUME NEW k \in Nat, k \in T PROVE k + 1 \in T
      <3> SUFFICES ASSUME (k + 1) + 1 <= N PROVE O[(k + 1) + 1] \in Nat
        OBVIOUS
      <3>1. k + 1 \in 1 .. Len(b.parts) /\ k + 1 <= N
        BY <1>1
      <3>2. O[k + 1] \in Nat
        BY <2>2, <3>1
      <3>3. /\ b.parts[k + 1].bits \in Nat
            /\ O[(k + 1) + 1] = O[k + 1] + b.parts[k + 1].bits
        BY <1>1, <1>6, <3>1
      <3> QED
        BY ONLY <3>2, <3>3
    <2>3. \A k \in Nat : k \in T
      <3> HIDE DEF T
      <3> QED
        BY <2>1, <2>2, AllNaturals
    <2>4. ASSUME NEW i \in 1 .. N PROVE O[i] \in Nat
      <3>1. i - 1 \in Nat /\ (i - 1) + 1 = i
        OBVIOUS
      <3>2. i - 1 \in T
        BY <2>3, <3>1
      <3> QED
        BY <1>1, <3>1, <3>2
    <2> QED
      BY <2>4
  <1> QED
    BY <1>1, <1>6, <1>7, <1>8 DEF O

\* A run of literals takes no more than the longest code for each.
LEMMA LiteralBits ==
  ASSUME NEW b, WellFormed(b), Covered(b), NEW i \in Nat, NEW n \in Nat,
         i >= 1, i + n <= Len(b.parts) + 1,
         \A j \in 0 .. n - 1 : b.parts[i + j].kind = "literal"
  PROVE  Offsets(b)[i + n] <= Offsets(b)[i] + n * b.maxBits
  <1> DEFINE O(j) == Offsets(b)[j]
             m == b.maxBits
             Good(k) == k <= n => O(i + k) <= O(i) + k * m
             T == {k \in Nat : Good(k)}
  <1>1. /\ Len(b.parts) \in Nat /\ m \in Nat
        /\ \A j \in 1 .. Len(b.parts) + 1 : O(j) \in Nat
        /\ \A j \in 1 .. Len(b.parts) : /\ b.parts[j].bits \in Nat
                                        /\ O(j + 1) = O(j) + b.parts[j].bits
    BY BlockFacts, OffsetsFacts
  <1>2. \A j \in 1 .. Len(b.parts) : b.parts[j].kind = "literal" => b.parts[j].bits <= m
    BY BlockFacts DEF Covered
  <1> HIDE DEF O, m
  <1>3. 0 \in T
    <2>1. i \in 1 .. Len(b.parts) + 1
      BY <1>1
    <2>2. O(i + 0) = O(i) /\ O(i) \in Nat /\ 0 * m = 0
      BY <1>1, <2>1
    <2> QED
      BY <2>2
  <1>4. ASSUME NEW k \in Nat, k \in T PROVE k + 1 \in T
    <2>1. CASE k + 1 <= n
      <3>1. i + k \in 1 .. Len(b.parts) /\ i + (k + 1) = (i + k) + 1 /\ k \in 0 .. n - 1
            /\ i \in 1 .. Len(b.parts) + 1 /\ i + (k + 1) \in 1 .. Len(b.parts) + 1
        BY <1>1, <2>1
      <3>2. O(i + k) <= O(i) + k * m
        BY <1>4, <2>1
      <3>3. b.parts[i + k].bits <= m /\ b.parts[i + k].bits \in Nat
        BY <1>1, <1>2, <3>1
      <3>4. O(i + (k + 1)) = O(i + k) + b.parts[i + k].bits
        BY <1>1, <3>1
      <3>5. (k + 1) * m = k * m + m /\ k * m \in Nat
        BY <1>1
      <3>6. O(i) \in Nat /\ O(i + k) \in Nat /\ O(i + (k + 1)) \in Nat
        BY <1>1, <3>1
      <3>7. O(i + (k + 1)) <= O(i) + (k + 1) * m
        <4>1. PICK x \in Nat : x = k * m
          BY <3>5
        <4> DEFINE o == O(i)  p == O(i + k)  q == O(i + (k + 1))
                   bits == b.parts[i + k].bits
        <4>3. p <= o + x
          BY ONLY <3>2, <4>1
        <4>4. /\ o \in Nat /\ p \in Nat /\ q \in Nat /\ bits \in Nat /\ m \in Nat
              /\ bits <= m /\ q = p + bits
          BY <1>1, <3>3, <3>4, <3>6
        <4> HIDE DEF o, p, q, bits
        <4>5. q <= o + (x + m)
          BY ONLY <4>1, <4>3, <4>4
        <4>2. O(i + (k + 1)) <= O(i) + (x + m)
          BY <4>5 DEF o, q
        <4> QED
          BY ONLY <3>5, <4>1, <4>2
      <3> QED
        BY <3>7
    <2> QED
      BY <2>1
  <1>5. n \in T
    <2> HIDE DEF T
    <2> QED
      BY <1>3, <1>4, AllNaturals
  <1> QED
    BY <1>5 DEF O, m

(***************************************************************************)
(* States of the loop, wherever in it.                                     *)
(***************************************************************************)
LEMMA VisitFacts ==
  ASSUME NEW b, WellFormed(b), Unlimited \in Nat, NEW s \in Visits(b)
  PROVE  /\ s \in States(b) /\ Fed(b, s)
         /\ Extends(OneShot(b).out, s.out) /\ OneShot(b) \in States(b)
         /\ s.result = "running" => Turn(b, s) \in Visits(b)
         /\ s.result # "running" => OneShot(b) = s
  <1>1. PICK n \in 0 .. Turns(b) : s = Loop(b)[n]
    BY DEF Visits
  <1>2. s \in States(b) /\ Fed(b, s)
    BY <1>1, LoopStates
  <1>3. /\ Extends(OneShot(b).out, s.out) /\ OneShot(b) \in States(b)
        /\ s.result # "running" => OneShot(b) = s
    BY <1>1, LoopKeeps
  <1>4. s.result = "running" => Turn(b, s) \in Visits(b)
    BY <1>1, LoopGoesOn DEF Visits
  <1> QED
    BY <1>2, <1>3, <1>4

LEMMA VisitsBegin ==
  ASSUME NEW b, WellFormed(b), Unlimited \in Nat
  PROVE  Begin(b) \in Visits(b)
  <1>1. Turns(b) \in Nat /\ Loop(b)[0] = Begin(b)
    BY BlockFacts, LoopStep
  <1> QED
    BY <1>1 DEF Visits

LessBy(l, category, n) == [l EXCEPT ![category] = l[category] - n]
LiteralsAt(b, s, n) == [i \in 1 .. n |-> LiteralAt(b, s.at + i - 1, s.header)]

\* t is s after n literals.
AfterRun(b, s, t, n) ==
  /\ t.result = "running" /\ t.phase = "literals" /\ t.at = s.at + n
  /\ t.todo = s.todo - n /\ t.command = s.command /\ t.header = s.header
  /\ t.ring = s.ring /\ t.out = s.out \o LiteralsAt(b, s, n)
  /\ t.left = IF SingleLiteralCode(b) THEN s.left
              ELSE LessBy(s.left, "literals", n)
  /\ \A j \in 0 .. n - 1 : b.parts[s.at + j].kind = "literal"
  /\ n # 0 => s.at >= 1 /\ s.at + n <= Len(b.parts) + 1

Onward(x, y, z) == Append(x \o y, z) = x \o Append(y, z)

LEMMA AppendOnward ==
  ASSUME NEW S, NEW x \in Seq(S), NEW y \in Seq(S), NEW z \in S
  PROVE  Onward(x, y, z)
  <1>1. Append(y, z) = y \o <<z>> /\ <<z>> \in Seq(S) /\ x \o y \in Seq(S)
    BY AppendIsConcat
  <1>2. Append(x \o y, z) = (x \o y) \o <<z>>
    BY <1>1, AppendIsConcat
  <1>3. (x \o y) \o <<z>> = x \o (y \o <<z>>)
    BY <1>1, ConcatAssociative
  <1> QED
    BY <1>1, <1>2, <1>3 DEF Onward

LEMMA LiteralRunFacts ==
  ASSUME NEW b, WellFormed(b), Unlimited \in Nat, NEW s \in Visits(b),
         s.result = "running", s.phase = "literals", NEW n \in Nat, n <= s.todo,
         SingleLiteralCode(b) \/ n <= s.left["literals"]
  PROVE  /\ \E t \in Visits(b) : AfterRun(b, s, t, n)
         /\ LiteralsAt(b, s, n) \in Seq(BytesOf(b))
  <1> DEFINE T == {k \in Nat : k <= n =>
                     /\ LiteralsAt(b, s, k) \in Seq(BytesOf(b))
                     /\ \E t \in Visits(b) : AfterRun(b, s, t, k)}
  <1>1. /\ s \in States(b) /\ s.at \in Nat /\ s.todo \in Nat /\ s.left \in Lefts
        /\ s.out \in Seq(BytesOf(b)) /\ "literals" \in Category
        /\ Len(b.parts) \in Nat
    BY VisitFacts, BlockFacts DEF States, Category
  <1>2. 0 \in T
    <2>1. LiteralsAt(b, s, 0) = <<>>
      <3>1. LiteralsAt(b, s, 0) = [i \in 1 .. 0 |-> LiteralAt(b, s.at + i - 1, s.header)]
        BY DEF LiteralsAt
      <3>2. \A f : [i \in 1 .. 0 |-> f[i]] = <<>>
        OBVIOUS
      <3> QED
        BY <3>1
    <2>2. LessBy(s.left, "literals", 0) = s.left
      BY <1>1 DEF LessBy, Lefts
    <2>3. s.out \o <<>> = s.out /\ <<>> \in Seq(BytesOf(b))
      BY <1>1
    <2>4. AfterRun(b, s, s, 0)
      BY <1>1, <2>1, <2>2, <2>3 DEF AfterRun
    <2> QED
      BY <2>1, <2>3, <2>4
  <1>3. ASSUME NEW k \in Nat, k \in T PROVE k + 1 \in T
    <2> SUFFICES ASSUME k + 1 <= n
                 PROVE  /\ LiteralsAt(b, s, k + 1) \in Seq(BytesOf(b))
                        /\ \E t \in Visits(b) : AfterRun(b, s, t, k + 1)
      OBVIOUS
    <2> DEFINE bytes == LiteralsAt(b, s, k)
    <2>1. bytes \in Seq(BytesOf(b))
      BY <1>3
    <2>2. PICK r \in Visits(b) : AfterRun(b, s, r, k)
      BY <1>3
    <2> HIDE DEF bytes, T
    <2>3. r \in States(b) /\ Fed(b, r) /\ r.result = "running"
          /\ Turn(b, r) \in Visits(b)
      BY <2>2, VisitFacts DEF AfterRun
    <2>4. PICK t \in Visits(b) : t = Turn(b, r)
      BY <2>3
    <2>5. /\ r.phase = "literals" /\ r.todo # 0 /\ r.at = s.at + k
          /\ r.todo = s.todo - k /\ r.header = s.header
          /\ SingleLiteralCode(b) \/ r.left["literals"] # 0
      <3>1. /\ r.phase = "literals" /\ r.todo = s.todo - k /\ r.at = s.at + k
            /\ r.header = s.header
            /\ r.left = IF SingleLiteralCode(b) THEN s.left
                        ELSE LessBy(s.left, "literals", k)
        BY <2>2 DEF AfterRun
      <3>2. LessBy(s.left, "literals", k)["literals"] = s.left["literals"] - k
        BY <1>1 DEF LessBy, Lefts
      <3>3. s.left["literals"] \in Nat
        BY <1>1 DEF Lefts
      <3> QED
        BY <1>1, <3>1, <3>2, <3>3
    <2> DEFINE part == b.parts[r.at]
               byte == LiteralAt(b, r.at, r.header)
    <2>6. /\ r.at \in 1 .. Len(b.parts) /\ part.kind = "literal"
          /\ t.at = r.at + 1 /\ t.phase = "literals" /\ t.todo = r.todo - 1
          /\ t.out = Append(r.out, byte) /\ byte \in BytesOf(b)
          /\ t.left = IF SingleLiteralCode(b) THEN r.left
                      ELSE OneLess(r.left, "literals")
          /\ t.command = r.command /\ t.header = r.header
          /\ t.ring = r.ring /\ t.result = "running"
      <3>1. PICK p : p = part
        OBVIOUS
      <3> QED
        BY ONLY WellFormed(b), <2>3, <2>4, <2>5, <3>1, LiteralTurn
    <2>7. LiteralsAt(b, s, k + 1) = Append(bytes, byte)
      <3> DEFINE f(i) == LiteralAt(b, s.at + i - 1, s.header)
      <3>1. bytes = [i \in 1 .. k |-> f(i)]
            /\ LiteralsAt(b, s, k + 1) = [i \in 1 .. k + 1 |-> f(i)]
        BY DEF LiteralsAt, bytes
      <3>2. byte = f(k + 1)
        <4>1. s.at + (k + 1) - 1 = s.at + k
          BY <1>1
        <4> QED
          BY <2>5, <4>1
      <3> HIDE DEF f, byte
      <3>3. Append([i \in 1 .. k |-> f(i)], f(k + 1)) = [i \in 1 .. k + 1 |-> f(i)]
        OBVIOUS
      <3> QED
        BY <3>1, <3>2, <3>3
    <2> HIDE DEF byte
    <2>8. Append(bytes, byte) \in Seq(BytesOf(b))
      BY <2>1, <2>6
    <2>9. t.out = s.out \o Append(bytes, byte)
      <3>1. r.out = s.out \o bytes
        BY <2>2 DEF AfterRun, bytes
      <3>2. Append(s.out \o bytes, byte) = s.out \o Append(bytes, byte)
        <4>1. /\ s.out \in Seq(BytesOf(b)) /\ bytes \in Seq(BytesOf(b))
              /\ byte \in BytesOf(b)
          BY <1>1, <2>1, <2>6
        <4>2. Onward(s.out, bytes, byte)
          BY ONLY <4>1, AppendOnward
        <4> QED
          BY <4>2 DEF Onward
      <3> QED
        BY <2>6, <3>1, <3>2
    <2>10. t.left = IF SingleLiteralCode(b) THEN s.left
                    ELSE LessBy(s.left, "literals", k + 1)
      <3>1. r.left = IF SingleLiteralCode(b) THEN s.left
                     ELSE LessBy(s.left, "literals", k)
        BY <2>2 DEF AfterRun
      <3>2. OneLess(LessBy(s.left, "literals", k), "literals")
              = LessBy(s.left, "literals", k + 1)
        <4>1. (s.left["literals"] - k) - 1 = s.left["literals"] - (k + 1)
          BY <1>1 DEF Lefts
        <4> QED
          BY <1>1, <4>1 DEF OneLess, LessBy, Lefts
      <3> QED
        BY <2>6, <3>1, <3>2
    <2>11. \A j \in 0 .. (k + 1) - 1 : b.parts[s.at + j].kind = "literal"
      <3>1. \A j \in 0 .. k - 1 : b.parts[s.at + j].kind = "literal"
        BY <2>2 DEF AfterRun
      <3>2. b.parts[s.at + k].kind = "literal"
        BY <2>5, <2>6
      <3> QED
        BY <3>1, <3>2
    <2>12. s.at >= 1 /\ s.at + (k + 1) <= Len(b.parts) + 1
      <3>1. k # 0 => s.at >= 1
        BY <2>2 DEF AfterRun
      <3>2. r.at \in 1 .. Len(b.parts) /\ r.at = s.at + k
        BY <2>5, <2>6
      <3>3. s.at \in Nat /\ Len(b.parts) \in Nat
        BY <1>1
      <3> QED
        BY ONLY <3>1, <3>2, <3>3, k \in Nat
    <2>13. /\ t.at = s.at + (k + 1) /\ t.todo = s.todo - (k + 1)
           /\ t.command = s.command /\ t.header = s.header /\ t.ring = s.ring
      <3>1. r.command = s.command /\ r.ring = s.ring
        BY <2>2 DEF AfterRun
      <3>2. (s.at + k) + 1 = s.at + (k + 1) /\ (s.todo - k) - 1 = s.todo - (k + 1)
        <4>1. s.at \in Nat /\ s.todo \in Nat
          BY <1>1
        <4> QED
          BY ONLY <4>1, k \in Nat
      <3>3. /\ t.at = (s.at + k) + 1 /\ t.todo = (s.todo - k) - 1
            /\ t.command = r.command /\ t.header = s.header /\ t.ring = r.ring
        BY <2>5, <2>6
      <3> QED
        BY ONLY <3>1, <3>2, <3>3
    <2>14. AfterRun(b, s, t, k + 1)
      BY <2>6, <2>7, <2>9, <2>10, <2>11, <2>12, <2>13 DEF AfterRun
    <2> QED
      BY <2>7, <2>8, <2>14
  <1>4. n \in T
    <2> HIDE DEF T
    <2> QED
      BY <1>2, <1>3, AllNaturals
  <1> QED
    BY <1>4

(***************************************************************************)
(* The invariant holds at first, and before decode_body.                   *)
(***************************************************************************)
LEMMA BlockOK ==
  ASSUME block \in Blocks
  PROVE  /\ WellFormed(block) /\ Covered(block)
         /\ Unlimited \in Nat /\ StepBits \in Nat
         /\ Len(block.parts) \in Nat /\ Needed(block) \in Nat
  <1>1. WellFormed(block) /\ Covered(block) /\ Unlimited \in Nat /\ StepBits \in Nat
    BY MetaBlockAssumption
  <1> QED
    BY <1>1, BlockFacts

LEMMA InitInv == Init => IInv
  <1> SUFFICES ASSUME Init PROVE IInv
    OBVIOUS
  <1>1. /\ WellFormed(block) /\ Unlimited \in Nat /\ Len(block.parts) \in Nat
        /\ block \in Blocks
    BY BlockOK DEF Init
  <1>2. /\ HeaderOf(block) \in Headers /\ Earlier(block) \in Seq(BytesOf(block))
    BY <1>1, BeginFacts
  <1>3. Within(1)
    BY <1>1, OffsetsFacts DEF Within, BitsTo, Init
  <1>4. Typed
    BY <1>1, <1>2, <1>3 DEF Typed, Init
  <1>5. Preparing /\ Decoding /\ Ended /\ Behind
    BY DEF Preparing, Decoding, Ended, Behind, RedecodesOnePart, Init
  <1> QED
    BY <1>4, <1>5 DEF IInv

LEMMA ArriveInv ==
  ASSUME IInv, NEW bits \in Pieces, Arrive(bits)
  PROVE  IInv'
  <1>1. bits \in Nat
    BY MetaBlockAssumption
  <1>2. /\ pc = "idle" /\ avail' = avail + bits
        /\ block' = block /\ bit_pos' = bit_pos /\ stage' = stage /\ next' = next
        /\ header' = header /\ cursor' = cursor /\ at' = at /\ c' = c
        /\ command' = command /\ left' = left /\ pc' = pc /\ output' = output
        /\ distances' = distances /\ result' = result
    BY DEF Arrive, stepVars
  <1>3. Typed'
    <2>1. Typed
      BY DEF IInv
    <2>2. \A i : Within(i) => Within(i)'
      BY <1>1, <1>2, <2>1 DEF Within, BitsTo, Typed
    <2> QED
      BY <1>1, <1>2, <2>1, <2>2 DEF Typed
  <1>4. Preparing'
    BY <1>2 DEF IInv, Preparing, Keeps, GroupCount
  <1>5. Decoding'
    BY <1>2 DEF IInv, Decoding, Saved, Current, Keeps
  <1>6. Ended'
    BY <1>2 DEF IInv, Ended
  <1>7. Behind'
    BY <1>2 DEF IInv, Behind, RedecodesOnePart
  <1> QED
    BY <1>3, <1>4, <1>5, <1>6, <1>7 DEF IInv

LEMMA WithinNext ==
  ASSUME block \in Blocks, NEW i \in Nat \ {0}, Arrived(i)
  PROVE  Within(i + 1) /\ i \in 1 .. Len(block.parts)
  <1>1. i \in 1 .. Len(block.parts) /\ i + 1 \in 1 .. Len(block.parts) + 1
    BY BlockOK DEF Arrived
  <1>2. Offsets(block)[i + 1] \in Nat
    BY <1>1, BlockOK, OffsetsFacts
  <1> QED
    BY <1>1, <1>2 DEF Within, Arrived, BitsTo

LEMMA GroupFacts ==
  ASSUME block \in Blocks
  PROVE  /\ \A group \in 0 .. 2 : GroupCount(group) \in Nat \ {0}
         /\ GroupCount(0) = block.trees
         /\ GroupCount(1) = block.types["commands"]
         /\ GroupCount(2) = block.distTrees
         /\ CodeCount(block) = GroupCount(0) + GroupCount(1) + GroupCount(2)
  <1>1. /\ block.trees \in Nat \ {0} /\ block.distTrees \in Nat \ {0}
        /\ block.types["commands"] \in Nat \ {0}
    BY BlockOK, BlockFacts DEF Category
  <1>2. /\ GroupCount(0) = block.trees
        /\ GroupCount(1) = block.types["commands"]
        /\ GroupCount(2) = block.distTrees
    BY DEF GroupCount
  <1> QED
    BY <1>1, <1>2 DEF CodeCount

LEMMA ReadHeaderInv ==
  ASSUME IInv, ReadHeader
  PROVE  IInv'
  <1>1. /\ block \in Blocks /\ stage = "header" /\ pc = "idle" /\ bit_pos = 1
        /\ output = Earlier(block) /\ distances = LAST_DISTANCES
        /\ Within(at) /\ avail \in Nat /\ Arrived(bit_pos)
    BY DEF ReadHeader, IInv, Typed, Preparing
  <1>2. WellFormed(block) /\ Unlimited \in Nat
    BY <1>1, BlockOK
  <1> DEFINE H == HeaderOf(block)
             T == [category \in Category |-> <<0, 1>>]
             L == [category \in Category |-> H[category].remaining]
  <1>3. /\ stage' = "codes" /\ next' = <<0, 0>> /\ header' = H
        /\ cursor' = [pos |-> block.start, types |-> T, left |-> L,
                      ring |-> distances, pending |-> HeaderPending]
        /\ bit_pos' = 2 /\ result' = "more"
        /\ block' = block /\ avail' = avail /\ at' = at /\ c' = c
        /\ command' = command /\ left' = left /\ pc' = pc /\ output' = output
        /\ distances' = distances
    BY <1>1 DEF ReadHeader, stepVars
  <1>4. /\ H \in Headers /\ Earlier(block) \in Seq(BytesOf(block))
        /\ Len(Earlier(block)) = block.start /\ block.start \in Nat
        /\ Begin(block).result = "running" /\ Begin(block).phase = "command"
        /\ Begin(block).out = Earlier(block) /\ Begin(block).ring = LAST_DISTANCES
        /\ Begin(block).left = L /\ Begin(block).header = H
        /\ Begin(block) \in States(block)
    BY <1>2, BeginFacts, BlockFacts
  <1>5. TypesOf(H) = T
    <2>1. \A category \in Category :
            H[category].current = 0 /\ H[category].previous = 1
      BY DEF HeaderOf
    <2> QED
      BY <2>1 DEF TypesOf
  <1> HIDE DEF H, L
  <1>6. Within(2)'
    <2>1. Within(2)
      BY <1>1, WithinNext
    <2> QED
      BY <1>3, <2>1 DEF Within, BitsTo
  <1>7. Typed'
    <2>1. Within(at)'
      BY <1>1, <1>3 DEF Within, BitsTo
    <2>2. cursor' \in Cursors
      <3>1. T \in [Category -> Nat \X Nat]
        OBVIOUS
      <3>2. L \in Lefts /\ LAST_DISTANCES \in Distances
        BY <1>4 DEF States
      <3>3. HeaderPending \in [kind : {"header", "literals", "distance"},
                               command : Commands, left : Nat]
        BY DEF HeaderPending, NoCommand, Commands
      <3> HIDE DEF T
      <3> QED
        BY <1>1, <1>3, <1>4, <3>1, <3>2, <3>3 DEF Cursors
    <2>3. pc' = "idle" /\ output' \in Seq(BytesOf(block')) /\ header' \in Headers
      BY <1>1, <1>3, <1>4
    <2> QED
      BY <1>1, <1>3, <1>6, <2>1, <2>2, <2>3 DEF Typed
  <1>8. Preparing'
    <2>1. Extends(output, Begin(block).out)
      BY <1>1, <1>4, SameExtends
    <2>2. Keeps(Begin(block))'
      <3>1. cursor'.pending.kind = "header" /\ cursor'.pos = block.start
            /\ cursor'.ring = LAST_DISTANCES /\ cursor'.left = L /\ cursor'.types = T
        BY <1>1, <1>3 DEF HeaderPending
      <3>2. Extends(output', Begin(block').out)
        BY <1>3, <2>1
      <3> QED
        BY <1>3, <1>4, <1>5, <3>1, <3>2 DEF Keeps
    <2>3. 0 \in 0 .. 2 /\ 0 \in 0 .. GroupCount(0)' - 1
      <3>1. GroupCount(0)' = GroupCount(0)
        BY <1>3 DEF GroupCount
      <3> QED
        BY <1>1, <3>1, GroupFacts
    <2>4. next' = <<0, 0>> /\ bit_pos' = 2 + CodesBefore(block', 0, 0)
      BY <1>3 DEF CodesBefore
    <2> QED
      BY <1>1, <1>3, <2>2, <2>3, <2>4 DEF Preparing
  <1>9. Decoding' /\ Ended' /\ Behind'
    BY <1>1, <1>3 DEF Decoding, Ended, Behind, RedecodesOnePart
  <1> QED
    BY <1>7, <1>8, <1>9 DEF IInv

LEMMA ReadCodeInv ==
  ASSUME IInv, ReadCode
  PROVE  IInv'
  <1>1. /\ block \in Blocks /\ stage = "codes" /\ pc = "idle" /\ result = "more"
        /\ Keeps(Begin(block)) /\ Within(at) /\ Within(bit_pos) /\ avail \in Nat
        /\ Arrived(bit_pos) /\ header \in Headers /\ cursor \in Cursors
        /\ output \in Seq(BytesOf(block))
    BY DEF ReadCode, IInv, Typed, Preparing
  <1>2. PICK group \in 0 .. 2 : \E index \in 0 .. GroupCount(group) - 1 :
          next = <<group, index>> /\ bit_pos = 2 + CodesBefore(block, group, index)
    BY <1>1 DEF IInv, Preparing
  <1>3. PICK index \in 0 .. GroupCount(group) - 1 :
          next = <<group, index>> /\ bit_pos = 2 + CodesBefore(block, group, index)
    BY <1>2
  <1>4. /\ bit_pos' = bit_pos + 1 /\ result' = "more" /\ next' = NextCode(group, index)
        /\ stage' = (IF next' = <<>> THEN "body" ELSE "codes")
        /\ block' = block /\ avail' = avail /\ at' = at /\ c' = c
        /\ command' = command /\ left' = left /\ pc' = pc /\ output' = output
        /\ distances' = distances /\ header' = header /\ cursor' = cursor
    BY <1>3 DEF ReadCode, stepVars
  <1>5. Within(bit_pos + 1) /\ bit_pos \in Nat \ {0}
    BY <1>1, WithinNext DEF Within
  <1>6. Typed'
    <2>1. Within(at)' /\ Within(bit_pos)'
      BY <1>1, <1>4, <1>5 DEF Within, BitsTo
    <2> QED
      BY <1>1, <1>4, <2>1 DEF Typed
  <1>7. Keeps(Begin(block))'
    BY <1>1, <1>4 DEF Keeps
  <1>8. /\ \A g \in 0 .. 2 : GroupCount(g) \in Nat \ {0} /\ GroupCount(g)' = GroupCount(g)
        /\ CodesBefore(block, 0, index) = index
        /\ CodesBefore(block, 1, index) = index + GroupCount(0)
        /\ CodesBefore(block, 2, index) = index + (GroupCount(0) + GroupCount(1))
        /\ CodesBefore(block, 1, 0) = GroupCount(0)
        /\ CodesBefore(block, 2, 0) = GroupCount(0) + GroupCount(1)
        /\ CodesBefore(block, 0, index + 1) = index + 1
        /\ CodesBefore(block, 1, index + 1) = (index + 1) + GroupCount(0)
        /\ CodesBefore(block, 2, index + 1) = (index + 1) + (GroupCount(0) + GroupCount(1))
        /\ CodeCount(block) = (GroupCount(0) + GroupCount(1)) + GroupCount(2)
    BY <1>1, <1>4, GroupFacts DEF CodesBefore, GroupCount
  <1> DEFINE n(g) == GroupCount(g)
  <1>9. CASE index + 1 < n(group)
    <2>1. next' = <<group, index + 1>> /\ stage' = "codes"
      <3>1. NextCode(group, index) = <<group, index + 1>>
        BY <1>8, <1>9 DEF NextCode
      <3>2. <<group, index + 1>> # <<>>
        OBVIOUS
      <3> QED
        BY <1>4, <3>1, <3>2
    <2>2. bit_pos' = 2 + CodesBefore(block, group, index + 1)
      <3>1. CodesBefore(block, group, index + 1) = CodesBefore(block, group, index) + 1
            /\ CodesBefore(block, group, index) \in Nat
        <4>1. group = 0 \/ group = 1 \/ group = 2
          OBVIOUS
        <4> QED
          BY <1>8, <4>1
      <3> QED
        BY <1>3, <1>4, <3>1
    <2>3. index + 1 \in 0 .. n(group)' - 1
      BY <1>8, <1>9
    <2>4. Preparing'
      BY <1>1, <1>4, <1>7, <2>1, <2>2, <2>3 DEF Preparing
    <2>5. Decoding' /\ Ended' /\ Behind'
      BY <1>1, <1>4, <2>1 DEF Decoding, Ended, Behind, RedecodesOnePart
    <2> QED
      BY <1>6, <2>4, <2>5 DEF IInv
  <1>10. CASE index + 1 >= n(group) /\ group < 2
    <2>1. next' = <<group + 1, 0>> /\ stage' = "codes" /\ group + 1 \in 0 .. 2
      BY <1>4, <1>8, <1>10 DEF NextCode
    <2>2. bit_pos' = 2 + CodesBefore(block, group + 1, 0)
      <3>1. index + 1 = n(group)
        BY <1>8, <1>10
      <3>2. CodesBefore(block, group + 1, 0) = CodesBefore(block, group, index) + 1
            /\ CodesBefore(block, group, index) \in Nat
        <4>1. group = 0 \/ group = 1
          BY <1>10
        <4> QED
          BY <1>8, <3>1, <4>1
      <3> QED
        BY <1>3, <1>4, <3>2
    <2>3. 0 \in 0 .. n(group + 1)' - 1
      BY <1>8, <2>1
    <2>4. Preparing'
      BY <1>1, <1>4, <1>7, <2>1, <2>2, <2>3 DEF Preparing
    <2>5. Decoding' /\ Ended' /\ Behind'
      BY <1>1, <1>4, <2>1 DEF Decoding, Ended, Behind, RedecodesOnePart
    <2> QED
      BY <1>6, <2>4, <2>5 DEF IInv
  <1>11. CASE index + 1 >= n(group) /\ group = 2
    <2>1. next' = <<>> /\ stage' = "body"
      BY <1>4, <1>8, <1>11 DEF NextCode
    <2>2. bit_pos' = Begin(block).at
      <3>1. index + 1 = n(2) /\ n(2) \in Nat
        BY <1>8, <1>11
      <3>2. Begin(block).at = 2 + CodeCount(block)
        BY <1>1, BlockOK, BeginFacts
      <3>3. bit_pos = 2 + (index + (n(0) + n(1)))
        BY <1>3, <1>8, <1>11
      <3>4. PICK x \in Nat, y \in Nat, z \in Nat : x = n(0) /\ y = n(1) /\ z = n(2)
        BY <1>8
      <3>5. /\ index + 1 = z /\ bit_pos = 2 + (index + (x + y)) /\ bit_pos' = bit_pos + 1
            /\ Begin(block).at = 2 + ((x + y) + z)
        BY <1>4, <1>8, <3>1, <3>2, <3>3, <3>4
      <3> QED
        BY ONLY <3>5, x \in Nat, y \in Nat, z \in Nat, index \in Int
    <2>3. Begin(block') \in Visits(block')
      BY <1>1, <1>4, BlockOK, VisitsBegin
    <2>4. Saved'
      BY <1>4, <1>7, <2>2, <2>3 DEF Saved
    <2>5. Preparing' /\ Decoding' /\ Ended' /\ Behind'
      BY <1>1, <1>4, <2>1, <2>4 DEF Preparing, Decoding, Ended, Behind, RedecodesOnePart
    <2> QED
      BY <1>6, <2>5 DEF IInv
  <1> QED
    BY <1>8, <1>9, <1>10, <1>11

\* Output up to the checkpoint is the checkpoint's, and the types it keeps are
\* put back.
LEMMA Reopened ==
  ASSUME NEW S, NEW more \in Seq(S), NEW out \in Seq(S), Extends(more, out)
  PROVE  SubSeq(more, 1, Len(out)) = out
  BY DEF Extends

LEMMA RestoredFacts ==
  ASSUME header \in Headers, cursor \in Cursors
  PROVE  Restored \in Headers /\ TypesOf(Restored) = cursor.types
  <1>1. cursor.types \in [Category -> Nat \X Nat]
    BY DEF Cursors
  <1> DEFINE r(category) == [header[category] EXCEPT !.current = cursor.types[category][1],
                                                     !.previous = cursor.types[category][2]]
  <1>2. ASSUME NEW category \in Category
        PROVE  /\ r(category) \in [current : Nat, previous : Nat, remaining : Nat]
               /\ r(category).current = cursor.types[category][1]
               /\ r(category).previous = cursor.types[category][2]
    <2>1. header[category] \in [current : Nat, previous : Nat, remaining : Nat]
      BY DEF Headers
    <2>2. cursor.types[category][1] \in Nat /\ cursor.types[category][2] \in Nat
      BY <1>1
    <2> QED
      BY <2>1, <2>2
  <1>3. Restored = [category \in Category |-> r(category)]
    BY DEF Restored
  <1> HIDE DEF r
  <1>4. Restored \in Headers
    BY <1>2, <1>3 DEF Headers
  <1>5. TypesOf(Restored) = [category \in Category |-> cursor.types[category]]
    <2>1. ASSUME NEW category \in Category
          PROVE  <<Restored[category].current, Restored[category].previous>>
                   = cursor.types[category]
      <3>1. Restored[category] = r(category)
        BY <1>3
      <3>2. cursor.types[category]
              = <<cursor.types[category][1], cursor.types[category][2]>>
        BY <1>1
      <3> QED
        BY <1>2, <3>1, <3>2
    <2> QED
      BY <2>1 DEF TypesOf
  <1> QED
    BY <1>1, <1>4, <1>5

LEMMA BeginBodyInv ==
  ASSUME IInv, NEW stop, BeginBody(stop)
  PROVE  IInv'
  <1>1. /\ block \in Blocks /\ stage = "body" /\ pc = "idle" /\ avail \in Nat
        /\ result \notin {"done", "error"} /\ Saved
        /\ Within(bit_pos) /\ header \in Headers /\ cursor \in Cursors
        /\ output \in Seq(BytesOf(block))
    BY DEF BeginBody, IInv, Typed, Decoding
  <1>2. WellFormed(block) /\ Unlimited \in Nat
    BY <1>1, BlockOK
  <1>3. PICK s \in Visits(block) : s.at = bit_pos /\ Keeps(s)
    BY <1>1 DEF Saved
  <1>4. s \in States(block) /\ s.out \in Seq(BytesOf(block))
    <2>1. s \in States(block)
      BY <1>2, VisitFacts
    <2> QED
      BY <2>1 DEF States
  <1>5. /\ header' = Restored /\ at' = bit_pos /\ c' = cursor
        /\ command' = cursor.pending.command /\ left' = cursor.pending.left
        /\ pc' = (IF cursor.pending.kind = "header" THEN "header" ELSE "literals")
        /\ output' = SubSeq(output, 1, cursor.pos) /\ result' = "running"
        /\ block' = block /\ avail' = avail /\ bit_pos' = bit_pos /\ stage' = stage
        /\ next' = next /\ cursor' = cursor /\ distances' = distances
    BY DEF BeginBody
  <1>6. header' \in Headers /\ TypesOf(header') = cursor.types
    BY <1>1, <1>5, RestoredFacts
  <1>7. output' = s.out /\ Len(s.out) = cursor.pos
    <2>1. Len(s.out) = cursor.pos /\ Extends(output, s.out)
      BY <1>3 DEF Keeps
    <2> QED
      BY <1>1, <1>4, <1>5, <2>1, Reopened
  <1>8. command' \in Commands /\ left' \in Nat /\ cursor.pending.kind \in {"header", "literals", "distance"}
    BY <1>1, <1>5 DEF Cursors
  <1>9. Typed'
    <2>1. Within(at)' /\ Within(bit_pos)'
      BY <1>1, <1>5 DEF Within, BitsTo
    <2>2. output' \in Seq(BytesOf(block')) /\ pc' \in {"header", "literals"}
      BY <1>4, <1>5, <1>7
    <2> QED
      BY <1>1, <1>5, <1>6, <1>8, <2>1, <2>2 DEF Typed
  <1>10. Current'
    <2>1. Follows(s)'
      <3>1. /\ s.result = "running" /\ s.at = at' /\ s.out = output'
            /\ Len(output') = cursor.pos
            /\ s.ring = cursor.ring /\ s.left = cursor.left
            /\ TypesOf(s.header) = TypesOf(header')
        BY <1>3, <1>5, <1>6, <1>7 DEF Keeps
      <3>2. /\ s.phase = (IF pc' \in {"header", "command"} THEN "command" ELSE pc')
            /\ pc' \in {"literals", "distance"} => s.command = command' /\ s.todo = left'
        BY <1>3, <1>5 DEF Keeps
      <3> QED
        BY <1>5, <3>1, <3>2 DEF Follows, BlockTypes, TypesOf
    <2> QED
      BY <1>3, <1>5, <2>1 DEF Current
  <1>11. Saved'
    <2>1. Extends(s.out, s.out)
      BY <1>4, SameExtends
    <2>2. Keeps(s)'
      BY <1>3, <1>5, <1>7, <2>1 DEF Keeps
    <2> QED
      BY <1>3, <1>5, <2>2 DEF Saved
  <1>12. Preparing' /\ Decoding' /\ Ended' /\ Behind'
    <2>1. pc' \in {"header", "literals"} /\ stage' = "body" /\ result' = "running"
      BY <1>1, <1>5
    <2> QED
      BY <1>10, <1>11, <2>1 DEF Preparing, Decoding, Ended, Behind, RedecodesOnePart
  <1> QED
    BY <1>9, <1>12 DEF IInv

(***************************************************************************)
(* What a step of the loop has to show: where it goes on, where it stops,  *)
(* and where it ends.                                                      *)
(***************************************************************************)
LEMMA FollowFacts ==
  ASSUME IInv, NEW s \in Visits(block), Follows(s), NEW t, t = Turn(block, s)
  PROVE  /\ block \in Blocks /\ WellFormed(block) /\ Covered(block)
         /\ s \in States(block) /\ Fed(block, s) /\ s.result = "running"
         /\ t \in Visits(block) /\ t \in States(block)
         /\ t.result # "running" => OneShot(block) = t
         /\ s.at = at /\ s.out = output /\ Len(s.out) = c.pos
         /\ s.ring = c.ring /\ s.left = c.left /\ TypesOf(s.header) = TypesOf(header)
         /\ s.header \in Headers /\ header \in Headers
         /\ \A category \in Category :
              s.header[category].current = header[category].current
  <1>1. block \in Blocks /\ header \in Headers
    BY DEF IInv, Typed
  <1>2. WellFormed(block) /\ Covered(block) /\ Unlimited \in Nat
    BY <1>1, BlockOK
  <1>3. /\ s.result = "running" /\ s.at = at /\ s.out = output /\ Len(s.out) = c.pos
        /\ s.ring = c.ring /\ s.left = c.left /\ TypesOf(s.header) = TypesOf(header)
    BY DEF Follows, BlockTypes, TypesOf
  <1>4. s \in States(block) /\ Fed(block, s) /\ t \in Visits(block)
    BY <1>2, <1>3, VisitFacts
  <1>5. t \in States(block) /\ (t.result # "running" => OneShot(block) = t)
    BY <1>2, <1>4, VisitFacts
  <1>6. s.header \in Headers
    BY <1>4 DEF States
  <1>7. \A category \in Category :
          s.header[category].current = header[category].current
    <2> DEFINE part == [category |-> "literals"]
    <2>1. part.category \in Category
      BY DEF Category
    <2> HIDE DEF part
    <2> QED
      BY <1>1, <1>3, <1>6, <2>1, SameNextType
  <1> QED
    BY <1>1, <1>2, <1>3, <1>4, <1>5, <1>6, <1>7

LEMMA StepFacts ==
  ASSUME IInv, pc # "idle"
  PROVE  /\ block \in Blocks /\ WellFormed(block) /\ avail \in Nat
         /\ stage = "body" /\ result = "running" /\ Saved /\ Current
         /\ header \in Headers /\ output \in Seq(BytesOf(block))
         /\ cursor \in Cursors /\ c \in Cursors /\ command \in Commands /\ left \in Nat
         /\ Within(bit_pos) /\ Within(at) /\ at \in Nat \ {0}
  <1>1. stage = "body" /\ result = "running" /\ Current
    BY DEF IInv, Decoding
  <1>2. Saved
    BY <1>1 DEF IInv, Decoding
  <1>3. /\ block \in Blocks /\ avail \in Nat /\ header \in Headers
        /\ output \in Seq(BytesOf(block)) /\ c \in Cursors /\ cursor \in Cursors
        /\ command \in Commands /\ left \in Nat /\ Within(bit_pos) /\ Within(at)
    BY <1>1 DEF IInv, Typed
  <1>4. at \in Nat \ {0}
    BY <1>3 DEF Within
  <1>5. WellFormed(block)
    BY <1>3, BlockOK
  <1> QED
    BY <1>1, <1>2, <1>3, <1>4, <1>5

LEMMA GoesOn ==
  ASSUME IInv, pc # "idle", UNCHANGED loopVars, result' = result,
         pc' \in {"header", "command", "literals", "distance"},
         header' \in Headers, output' \in Seq(BytesOf(block)), c' \in Cursors,
         command' \in Commands, left' \in Nat, cursor' \in Cursors,
         Within(at'), Within(bit_pos'), Saved', Current',
         pc' = "command" => c'.pos < Needed(block),
         pc' = "command" => AheadBy("commands")',
         pc' = "distance" => AheadBy("distances")'
  PROVE  IInv'
  <1>1. /\ block \in Blocks /\ avail \in Nat /\ stage = "body" /\ result = "running"
    BY StepFacts
  <1>2. /\ block' = block /\ avail' = avail /\ stage' = stage /\ distances' = distances
    BY DEF loopVars
  <1>3. Within(at)' /\ Within(bit_pos)'
    BY <1>2 DEF Within, BitsTo
  <1>4. Typed'
    BY <1>1, <1>2, <1>3 DEF Typed
  <1>5. Preparing' /\ Decoding' /\ Ended'
    BY <1>1, <1>2 DEF Preparing, Decoding, Ended
  <1>6. Behind'
    BY <1>1 DEF Behind, RedecodesOnePart
  <1> QED
    BY <1>4, <1>5, <1>6 DEF IInv

LEMMA GoesIdle ==
  ASSUME IInv, pc # "idle", UNCHANGED <<block, avail, stage>>, pc' = "idle",
         result' \in {"stopped", "endOfInput"}, header' \in Headers,
         output' = output, cursor' \in Cursors, at' = at, Within(bit_pos'), Saved',
         result' = "endOfInput" => RedecodesOnePart'
  PROVE  IInv'
  <1>1. /\ block \in Blocks /\ avail \in Nat /\ stage = "body" /\ Within(at)
        /\ output \in Seq(BytesOf(block))
    BY StepFacts
  <1>2. block' = block /\ avail' = avail /\ stage' = stage
    OBVIOUS
  <1>3. Within(at)' /\ Within(bit_pos)'
    BY <1>1, <1>2 DEF Within, BitsTo
  <1>4. Typed'
    BY <1>1, <1>2, <1>3 DEF Typed
  <1>5. Preparing' /\ Decoding' /\ Ended'
    BY <1>1, <1>2 DEF Preparing, Decoding, Ended
  <1>6. Behind'
    BY DEF Behind, RedecodesOnePart
  <1> QED
    BY <1>4, <1>5, <1>6 DEF IInv

\* A turn that ends the loop ends the step the same way.
LEMMA GoesEnd ==
  ASSUME IInv, pc # "idle", NEW s \in Visits(block), Follows(s),
         NEW t, t = Turn(block, s), NEW how, EndsAs(t, s, how),
         how \in {"done", "error"}, UNCHANGED <<block, avail, stage>>,
         pc' = "idle", result' = how, header' = header, output' = output,
         cursor' \in Cursors, cursor'.pos = c.pos, at' = at, Within(bit_pos'),
         how = "done" => distances' = c.ring /\ bit_pos' = at
  PROVE  IInv'
  <1>1. /\ block \in Blocks /\ avail \in Nat /\ stage = "body" /\ Within(at)
        /\ header \in Headers /\ output \in Seq(BytesOf(block))
    BY StepFacts
  <1>2. block' = block /\ avail' = avail /\ stage' = stage
    OBVIOUS
  <1>3. Within(at)' /\ Within(bit_pos)'
    BY <1>1, <1>2 DEF Within, BitsTo
  <1>4. Typed'
    BY <1>1, <1>2, <1>3 DEF Typed
  <1>5. /\ s.at = at /\ s.out = output /\ Len(s.out) = c.pos /\ s.ring = c.ring
        /\ t.result # "running" => OneShot(block) = t
    BY FollowFacts
  <1>6. t.result = how /\ t.out = s.out /\ t.ring = s.ring /\ t.at = s.at
    BY DEF EndsAs
  <1>7. OneShot(block) = t
    BY <1>5, <1>6
  <1>8. Ended'
    BY <1>1, <1>2, <1>5, <1>6, <1>7 DEF Ended
  <1>9. Preparing' /\ Decoding' /\ Behind'
    BY <1>1, <1>2 DEF Preparing, Decoding, Behind, RedecodesOnePart
  <1> QED
    BY <1>4, <1>8, <1>9 DEF IInv

\* Where the loop may be taken up from.
Pendings == [kind : {"header", "literals", "distance"}, command : Commands, left : Nat]
Stands(s, pending) ==
  IF pending.kind = "header" THEN s.phase = "command"
  ELSE s.phase = "literals" /\ s.command = pending.command /\ s.todo = pending.left

LEMMA KeptFacts ==
  ASSUME IInv, pc # "idle", NEW pending \in Pendings
  PROVE  /\ Kept(pending) \in Cursors /\ Kept(pending).pos = c.pos
         /\ Kept(pending).ring = c.ring /\ Kept(pending).left = c.left
         /\ Kept(pending).types = TypesOf(header) /\ Kept(pending).pending = pending
  <1>1. c \in Cursors /\ header \in Headers
    BY StepFacts
  <1>2. BlockTypes = TypesOf(header) /\ BlockTypes \in [Category -> Nat \X Nat]
    <2>1. \A category \in Category :
            header[category].current \in Nat /\ header[category].previous \in Nat
      BY <1>1 DEF Headers
    <2>2. BlockTypes \in [Category -> Nat \X Nat]
      BY <2>1 DEF BlockTypes
    <2>3. BlockTypes = TypesOf(header)
      BY DEF BlockTypes, TypesOf
    <2> QED
      BY <2>2, <2>3
  <1>3. Kept(pending) = [pos |-> c.pos, types |-> BlockTypes, left |-> c.left,
                         ring |-> c.ring, pending |-> pending]
    <2>1. PICK kept : kept = Kept(pending)
      OBVIOUS
    <2>2. kept = [pos |-> c.pos, types |-> BlockTypes, left |-> c.left,
                  ring |-> c.ring, pending |-> pending]
      BY <1>1, <2>1 DEF Kept, Cursors
    <2> QED
      BY <2>1, <2>2
  <1>4. c.pos \in Nat /\ c.left \in Lefts /\ c.ring \in Distances
    BY <1>1 DEF Cursors
  <1>5. pending \in [kind : {"header", "literals", "distance"}, command : Commands,
                     left : Nat]
    BY DEF Pendings
  <1> HIDE DEF BlockTypes
  <1> QED
    BY <1>2, <1>3, <1>4, <1>5 DEF Cursors

LEMMA CheckpointKeeps ==
  ASSUME IInv, pc # "idle", NEW s \in Visits(block), Follows(s),
         NEW pending \in Pendings, Stands(s, pending), block' = block,
         Extends(output', s.out), cursor' = Kept(pending), bit_pos' = at
  PROVE  Saved'
  <1>1. /\ s.result = "running" /\ s.at = at /\ Len(s.out) = c.pos
        /\ s.ring = c.ring /\ s.left = c.left /\ TypesOf(s.header) = TypesOf(header)
    BY FollowFacts
  <1>2. /\ cursor'.pos = c.pos /\ cursor'.ring = c.ring /\ cursor'.left = c.left
        /\ cursor'.types = TypesOf(header) /\ cursor'.pending = pending
    BY KeptFacts
  <1>3. Keeps(s)'
    BY <1>1, <1>2 DEF Keeps, Stands
  <1> QED
    BY <1>1, <1>3 DEF Saved

LEMMA SameOutput ==
  ASSUME IInv, pc # "idle", NEW s \in Visits(block), Follows(s), output' = output
  PROVE  Extends(output', output) /\ Extends(output', s.out)
  <1>1. s.out = output /\ output \in Seq(BytesOf(block))
    BY FollowFacts, StepFacts
  <1> QED
    BY <1>1, SameExtends

LEMMA StillSaved ==
  ASSUME IInv, pc # "idle", block' = block, cursor' = cursor, bit_pos' = bit_pos,
         output' \in Seq(BytesOf(block)), Extends(output', output)
  PROVE  Saved'
  <1>1. PICK s \in Visits(block) : s.at = bit_pos /\ Keeps(s)
    BY StepFacts DEF Saved
  <1>2. s \in States(block)
    BY <1>1, StepFacts, BlockOK, VisitFacts
  <1>3. Extends(output', s.out)
    <2>1. s.out \in Seq(BytesOf(block)) /\ Extends(output, s.out)
      BY <1>1, <1>2 DEF States, Keeps
    <2> QED
      BY <2>1, StepFacts, ExtendsOn
  <1>4. Keeps(s)'
    BY <1>1, <1>3 DEF Keeps
  <1> QED
    BY <1>1, <1>4 DEF Saved

LEMMA HeaderIsPending ==
  HeaderPending \in Pendings /\ HeaderPending.kind = "header"
  BY DEF HeaderPending, Pendings, NoCommand, Commands

(***************************************************************************)
(* The steps of decode_body.                                               *)
(***************************************************************************)
LEMMA DoneInv ==
  ASSUME IInv, Done
  PROVE  IInv'
  <1>1. pc \in {"header", "literals"} /\ pc # "idle"
    BY DEF Done
  <1>2. PICK s \in Visits(block) : Follows(s)
    BY <1>1, StepFacts DEF Current
  <1>3. PICK t \in Visits(block) : t = Turn(block, s)
    BY <1>2, FollowFacts
  <1>4. /\ WellFormed(block) /\ s \in States(block) /\ Fed(block, s)
        /\ s.result = "running" /\ Len(s.out) = c.pos /\ Len(s.out) \in Nat
        /\ Needed(block) \in Nat
    <2>1. /\ WellFormed(block) /\ s \in States(block) /\ Fed(block, s)
          /\ s.result = "running" /\ Len(s.out) = c.pos
      BY <1>2, <1>3, FollowFacts
    <2> QED
      BY <2>1, BlockFacts, LenProperties DEF States
  <1>5. EndsAs(t, s, "done")
    <2>1. CASE pc = "header" /\ c.pos >= Needed(block)
      <3>1. s.phase = "command"
        BY <1>2, <2>1 DEF Follows
      <3>2. PICK part : part = block.parts[s.at]
        OBVIOUS
      <3> QED
        BY <1>3, <1>4, <2>1, <3>1, <3>2, CommandTurn
    <2>2. CASE pc = "literals" /\ left = 0 /\ c.pos = Needed(block)
      <3>1. s.phase = "literals" /\ s.todo = 0
        BY <1>2, <2>2 DEF Follows
      <3> QED
        BY <1>3, <1>4, <2>2, <3>1, LiteralsEndTurn
    <2> QED
      BY <2>1, <2>2 DEF Done
  <1>6. /\ cursor' = Kept(HeaderPending) /\ bit_pos' = at /\ distances' = c.ring
        /\ pc' = "idle" /\ result' = "done" /\ header' = header /\ output' = output
        /\ at' = at /\ UNCHANGED <<block, avail, stage>>
    BY DEF Done, Checkpoint, Leave
  <1>7. cursor' \in Cursors /\ cursor'.pos = c.pos
    BY <1>1, <1>6, HeaderIsPending, KeptFacts
  <1>8. Within(at)
    BY <1>1, StepFacts
  <1> QED
    BY <1>1, <1>2, <1>3, <1>5, <1>6, <1>7, <1>8, GoesEnd

LEMMA StopInv ==
  ASSUME IInv, Stop
  PROVE  IInv'
  <1>1. pc = "header" /\ pc # "idle"
    BY DEF Stop
  <1>2. PICK s \in Visits(block) : Follows(s)
    BY <1>1, StepFacts DEF Current
  <1>3. Stands(s, HeaderPending)
    BY <1>1, <1>2, HeaderIsPending DEF Follows, Stands
  <1>4. /\ cursor' = Kept(HeaderPending) /\ bit_pos' = at
        /\ pc' = "idle" /\ result' = "stopped" /\ header' = header /\ output' = output
        /\ at' = at /\ UNCHANGED <<block, avail, stage>>
    BY DEF Stop, Checkpoint, Leave, loopVars
  <1>5. cursor' \in Cursors /\ Saved'
    BY <1>1, <1>2, <1>3, <1>4, HeaderIsPending, KeptFacts, CheckpointKeeps, SameOutput
  <1>6. Within(bit_pos') /\ header' \in Headers
    BY <1>1, <1>4, StepFacts
  <1> QED
    BY <1>1, <1>4, <1>5, <1>6, GoesIdle

LEMMA BeginCommandInv ==
  ASSUME IInv, BeginCommand
  PROVE  IInv'
  <1>1. pc = "header" /\ pc # "idle" /\ c.pos < Needed(block)
    BY DEF BeginCommand
  <1>2. PICK s \in Visits(block) : Follows(s)
    BY <1>1, StepFacts DEF Current
  <1>3. Stands(s, HeaderPending)
    BY <1>1, <1>2, HeaderIsPending DEF Follows, Stands
  <1>4. /\ pc' = "command" /\ UNCHANGED loopVars /\ header' = header
        /\ at' = at /\ c' = c /\ command' = command /\ left' = left
        /\ output' = output /\ result' = result /\ block' = block /\ avail' = avail
    BY DEF BeginCommand, loopVars
  <1>6. cursor' \in Cursors /\ Saved' /\ Within(bit_pos') /\ AheadBy("commands")'
    <2>1. Within(at) /\ Within(bit_pos) /\ avail \in Nat /\ cursor \in Cursors
          /\ output \in Seq(BytesOf(block))
      BY <1>1, StepFacts
    <2>2. CASE Short
      <3>1. cursor' = Kept(HeaderPending) /\ bit_pos' = at
        BY <2>2 DEF BeginCommand, CheckpointIf, Checkpoint
      <3>2. cursor' \in Cursors /\ Saved'
        BY <1>1, <1>2, <1>3, <1>4, <3>1, HeaderIsPending, KeptFacts, CheckpointKeeps,
           SameOutput
      <3> QED
        BY <1>4, <2>1, <3>1, <3>2 DEF AheadBy, Ahead
    <2>3. CASE ~Short
      <3>1. cursor' = cursor /\ bit_pos' = bit_pos
        BY <2>3 DEF BeginCommand, CheckpointIf
      <3>2. Extends(output', output)
        BY <1>1, <1>2, <1>4, SameOutput
      <3>3. Saved'
        BY <1>1, <1>4, <2>1, <3>1, <3>2, StillSaved
      <3>4. avail - BitsTo(at) >= StepBits
        <4>1. BitsTo(at) \in Nat /\ StepBits \in Nat
          BY <2>1, MetaBlockAssumption DEF Within
        <4> QED
          BY <2>1, <2>3, <4>1 DEF Short, RemainingBits
      <3>5. Ahead(at)'
        BY <1>4, <3>4 DEF Ahead, BitsTo
      <3> QED
        BY <2>1, <3>1, <3>3, <3>5 DEF AheadBy
    <2> QED
      BY <2>2, <2>3
  <1>7. Current'
    <2>1. Follows(s)'
      BY <1>1, <1>2, <1>4 DEF Follows, BlockTypes
    <2> QED
      BY <1>2, <1>4, <2>1 DEF Current
  <1>8. /\ header' \in Headers /\ output' \in Seq(BytesOf(block)) /\ c' \in Cursors
        /\ command' \in Commands /\ left' \in Nat /\ Within(at') /\ pc' = "command"
        /\ c'.pos < Needed(block)
    BY <1>1, <1>4, StepFacts
  <1> QED
    BY <1>1, <1>4, <1>6, <1>7, <1>8, GoesOn

\* The types of a switch are in force before its count is read.
LEMMA HalfSwitchedFacts ==
  ASSUME header \in Headers, WellFormed(block), NEW part, PartOf(part),
         part.kind = "switch"
  PROVE  HalfSwitched(part) \in Headers
  <1>1. part.category \in Category /\ NextType(block, header, part) \in Nat
    BY SwitchFacts
  <1>2. /\ header[part.category] \in [current : Nat, previous : Nat, remaining : Nat]
        /\ header[part.category].current \in Nat
    BY <1>1 DEF Headers
  <1>3. PICK n \in Nat : n = NextType(block, header, part)
    BY <1>1
  <1>4. PICK p \in Nat : p = header[part.category].current
    BY <1>2
  <1> DEFINE new == [header[part.category] EXCEPT !.current = n, !.previous = p]
  <1>5. new \in [current : Nat, previous : Nat, remaining : Nat]
    BY <1>2
  <1>6. [header EXCEPT ![part.category].current = n, ![part.category].previous = p]
          = [header EXCEPT ![part.category] = new]
    BY <1>1 DEF Headers
  <1>7. [header EXCEPT ![part.category] = new] \in Headers
    <2> HIDE DEF new
    <2> QED
      BY <1>1, <1>5 DEF Headers
  <1> QED
    BY <1>3, <1>4, <1>6, <1>7 DEF HalfSwitched

LEMMA SwitchSame ==
  ASSUME NEW b, WellFormed(b), NEW h \in Headers, NEW g \in Headers,
         TypesOf(h) = TypesOf(g), NEW part, PartOf(part), part.kind = "switch",
         NEW x, x = Switched(b, h, part), NEW y, y = Switched(b, g, part)
  PROVE  /\ TypesOf(x) = TypesOf(y) /\ x \in Headers
         /\ x[part.category].remaining = part.count /\ part.count \in Nat \ {0}
  <1>1. part.category \in Category
    BY SwitchFacts
  <1>2. /\ NextType(b, h, part) = NextType(b, g, part)
        /\ h[part.category].current = g[part.category].current
    BY <1>1, SameNextType
  <1>3. /\ x \in Headers /\ x[part.category].remaining = part.count
        /\ part.count \in Nat \ {0}
        /\ TypesOf(x) = Retyped(TypesOf(h), part.category, NextType(b, h, part),
                                h[part.category].current)
    BY SwitchFacts
  <1>4. TypesOf(y) = Retyped(TypesOf(g), part.category, NextType(b, g, part),
                             g[part.category].current)
    BY SwitchFacts
  <1> QED
    BY <1>2, <1>3, <1>4

Refill(saved, category, count) == [saved EXCEPT !.left[category] = count]

LEMMA Refills ==
  ASSUME NEW saved \in Cursors, NEW category \in Category, NEW count \in Nat
  PROVE  /\ Refill(saved, category, count) \in Cursors
         /\ Refill(saved, category, count).pos = saved.pos
         /\ Refill(saved, category, count).ring = saved.ring
         /\ Refill(saved, category, count).left = Refilled(saved.left, category, count)
         /\ Refilled(saved.left, category, count)[category] = count
  <1>1. PICK d : d = Refill(saved, category, count)
    OBVIOUS
  <1>2. d = [pos |-> saved.pos, types |-> saved.types,
             left |-> Refilled(saved.left, category, count),
             ring |-> saved.ring, pending |-> saved.pending]
    BY <1>1 DEF Cursors, Refilled, Refill
  <1>3. saved.left \in Lefts
    BY DEF Cursors
  <1>4. /\ Refilled(saved.left, category, count) \in Lefts
        /\ Refilled(saved.left, category, count)[category] = count
    BY <1>3, LeftFacts DEF Refilled, Lefts
  <1>5. /\ saved.pos \in Nat /\ saved.ring \in Distances
        /\ saved.types \in [Category -> Nat \X Nat]
        /\ saved.pending \in [kind : {"header", "literals", "distance"},
                              command : Commands, left : Nat]
    BY DEF Cursors
  <1>6. d \in Cursors
    BY ONLY <1>2, <1>4, <1>5 DEF Cursors
  <1>7. /\ d.pos = saved.pos /\ d.ring = saved.ring
        /\ d.left = Refilled(saved.left, category, count)
    BY <1>2
  <1> QED
    BY <1>1, <1>4, <1>6, <1>7

LEMMA Repositioned ==
  ASSUME NEW saved \in Cursors, NEW pos \in Nat, NEW d, d = [saved EXCEPT !.pos = pos]
  PROVE  d \in Cursors /\ d.pos = pos
  BY DEF Cursors

LEMMA SwitchInv ==
  ASSUME IInv, pc \in {"command", "literals", "distance"},
         NEW s \in Visits(block), Follows(s), NEW category \in Category,
         Turn(block, s) = NextBlock(block, s, category),
         at \in 1 .. Len(block.parts), There(block, at) = <<"switch", category>>,
         pc = "command" => category = "commands",
         pc = "distance" => category = "distances",
         NEW saved \in Cursors, NEW place, Within(place),
         SwitchBlock(category, saved, place), UNCHANGED loopVars,
         ~Arrived(at) => at = place,
         pc # "literals" => at = place \/ avail - BitsTo(at) >= StepBits,
         cursor' = saved /\ output' = output => Saved'
  PROVE  IInv'
  <1>1. pc # "idle" /\ bit_pos' = place /\ block' = block /\ avail' = avail
        /\ stage' = stage
    BY DEF SwitchBlock, loopVars
  <1>2. PICK t \in Visits(block) : t = Turn(block, s)
    BY FollowFacts
  <1>3. PICK part : part = block.parts[at]
    OBVIOUS
  <1>4. /\ WellFormed(block) /\ s \in States(block) /\ s.result = "running"
        /\ s.at = at /\ s.out = output /\ Len(s.out) = c.pos /\ s.ring = c.ring
        /\ s.left = c.left /\ TypesOf(s.header) = TypesOf(header)
        /\ s.header \in Headers /\ header \in Headers
    BY <1>2, FollowFacts
  <1>5. /\ part.kind = "switch" /\ part.category = category /\ PartOf(part)
        /\ t.out = s.out /\ t.ring = s.ring
        /\ BadType(block, part) => EndsAs(t, s, "error")
        /\ ~BadType(block, part) =>
              /\ t.header = Switched(block, s.header, part) /\ t.at = s.at + 1
              /\ t.left = Refilled(s.left, category, part.count)
              /\ t.phase = s.phase /\ t.command = s.command
              /\ t.todo = s.todo /\ t.result = "running"
    BY <1>2, <1>3, <1>4, NextBlockFacts
  <1>6. /\ c \in Cursors /\ c.pos \in Nat /\ output \in Seq(BytesOf(block))
        /\ command \in Commands /\ left \in Nat /\ at \in Nat \ {0}
        /\ block \in Blocks
    BY <1>1, StepFacts DEF Cursors
  <1>7. CASE ~Arrived(at)
    <2>1. /\ pc' = "idle" /\ result' = "endOfInput" /\ header' = HalfSwitched(part)
          /\ cursor' = saved /\ at' = at /\ output' = output
      BY <1>3, <1>7 DEF SwitchBlock, Leave
    <2>2. header' \in Headers
      BY <1>4, <1>5, <2>1, HalfSwitchedFacts
    <2>3. RedecodesOnePart'
      BY <1>1, <1>7, <2>1 DEF RedecodesOnePart
    <2> QED
      BY <1>1, <2>1, <2>2, <2>3, GoesIdle
  <1>8. CASE Arrived(at) /\ BadType(block, part)
    <2>1. /\ pc' = "idle" /\ result' = "error" /\ header' = header
          /\ cursor' = [saved EXCEPT !.pos = c.pos] /\ at' = at /\ output' = output
      BY <1>3, <1>8 DEF SwitchBlock, Leave
    <2>2. cursor' \in Cursors /\ cursor'.pos = c.pos
      BY <1>6, <2>1, Repositioned
    <2> QED
      BY <1>1, <1>2, <1>5, <1>8, <2>1, <2>2, GoesEnd
  <1>9. CASE Arrived(at) /\ ~BadType(block, part)
    <2>1. /\ header' = Switched(block, header, part) /\ at' = at + 1
          /\ c' = [c EXCEPT !.left[category] = header'[category].remaining]
          /\ cursor' = saved /\ command' = command /\ left' = left
          /\ output' = output /\ pc' = pc /\ result' = result
      BY <1>3, <1>9 DEF SwitchBlock
    <2>2. /\ header' \in Headers /\ header'[category].remaining = part.count
          /\ part.count \in Nat \ {0} /\ TypesOf(header') = TypesOf(t.header)
      BY <1>4, <1>5, <1>9, <2>1, SwitchSame
    <2>5. /\ c' \in Cursors /\ c'.pos = c.pos /\ c'.ring = c.ring
          /\ c'.left = Refilled(c.left, category, part.count)
          /\ c'.left[category] = part.count
      <3>1. c' = Refill(c, category, part.count)
        BY <2>1, <2>2 DEF Refill
      <3>2. PICK n \in Nat : n = part.count
        BY <2>2
      <3>3. c \in Cursors
        BY <1>6
      <3>4. /\ Refill(c, category, n) \in Cursors
            /\ Refill(c, category, n).pos = c.pos
            /\ Refill(c, category, n).ring = c.ring
            /\ Refill(c, category, n).left = Refilled(c.left, category, n)
            /\ Refilled(c.left, category, n)[category] = n
        BY ONLY <3>3, category \in Category, Refills
      <3> QED
        BY ONLY <3>1, <3>2, <3>4
    <2>6. Current'
      <3>1. t.result = "running" /\ t.at = at' /\ t.out = output'
            /\ Len(output') = c'.pos /\ t.ring = c'.ring /\ t.left = c'.left
        BY <1>4, <1>5, <1>9, <2>1, <2>5
      <3>2. t.phase = s.phase /\ t.command = s.command /\ t.todo = s.todo
        BY <1>5, <1>9
      <3>3. TypesOf(t.header) = BlockTypes'
        BY <2>2 DEF BlockTypes, TypesOf
      <3>4. Follows(t)'
        BY <2>1, <3>1, <3>2, <3>3 DEF Follows
      <3> QED
        BY <1>1, <1>2, <3>4 DEF Current
    <2>7. Within(at')
      BY <1>6, <1>9, <2>1, WithinNext
    <2>8. /\ pc' = "command" => AheadBy("commands")'
          /\ pc' = "distance" => AheadBy("distances")'
      <3> SUFFICES ASSUME pc # "literals" PROVE AheadBy(category)'
        BY <2>1
      <3>1. at' - 1 = at
        BY <1>6, <2>1
      <3>2. Ahead(at - 1)'
        BY <1>1, <3>1 DEF Ahead, BitsTo
      <3>3. /\ block'.parts[at' - 1] = part /\ at' - 1 \in 1 .. Len(block'.parts)
            /\ c'.left[category] # 0
        BY <1>1, <1>3, <2>2, <2>5, <3>1
      <3> QED
        BY <1>5, <3>2, <3>3 DEF AheadBy
    <2>9. pc' = "command" => c'.pos < Needed(block)
      BY <2>1, <2>5 DEF IInv, Decoding
    <2>10. Saved' /\ cursor' \in Cursors
      BY <2>1
    <2>11. /\ pc' \in {"header", "command", "literals", "distance"}
           /\ output' \in Seq(BytesOf(block)) /\ command' \in Commands /\ left' \in Nat
           /\ Within(bit_pos')
      BY <1>1, <1>6, <2>1
    <2> QED
      BY <1>1, <2>1, <2>2, <2>5, <2>6, <2>7, <2>8, <2>9, <2>10, <2>11, GoesOn
  <1> QED
    BY <1>7, <1>8, <1>9

\* What STEP_BITS covers.
LEMMA CoveredFacts ==
  ASSUME block \in Blocks, NEW i \in 1 .. Len(block.parts)
  PROVE  /\ BitsTo(i) \in Nat /\ block.parts[i].bits \in Nat
         /\ BitsTo(i + 1) = BitsTo(i) + block.parts[i].bits
         /\ block.parts[i].kind \in {"command", "distance"} =>
              block.parts[i].bits <= StepBits
         /\ block.parts[i].kind = "switch" => block.parts[i].bits <= StepBits
         /\ block.parts[i].kind = "switch" /\ i + 1 <= Len(block.parts) =>
              block.parts[i].bits + block.parts[i + 1].bits <= StepBits
  <1>1. WellFormed(block) /\ Covered(block) /\ StepBits \in Nat
        /\ Len(block.parts) \in Nat /\ DOMAIN block.parts = 1 .. Len(block.parts)
    BY BlockOK, BlockFacts
  <1>2. /\ BitsTo(i) \in Nat /\ block.parts[i].bits \in Nat
        /\ BitsTo(i + 1) = BitsTo(i) + block.parts[i].bits
    BY <1>1, OffsetsFacts DEF BitsTo
  <1>3. i + 1 <= Len(block.parts) => block.parts[i + 1].bits \in Nat
    BY <1>1, OffsetsFacts
  <1>4. /\ block.parts[i].kind \in {"command", "distance"} =>
             block.parts[i].bits <= StepBits
        /\ block.parts[i].kind = "switch" =>
             block.parts[i].bits
               + (IF i < Len(block.parts) THEN block.parts[i + 1].bits ELSE 0) <= StepBits
    BY <1>1 DEF Covered
  <1> QED
    BY <1>1, <1>2, <1>3, <1>4

LEMMA Reaches ==
  ASSUME block \in Blocks, avail \in Nat, NEW i \in 1 .. Len(block.parts),
         block.parts[i].bits <= avail - BitsTo(i)
  PROVE  Arrived(i)
  <1>1. /\ BitsTo(i) \in Nat /\ block.parts[i].bits \in Nat
        /\ BitsTo(i + 1) = BitsTo(i) + block.parts[i].bits
    BY CoveredFacts
  <1>2. i <= Len(block.parts)
    BY BlockOK
  <1> QED
    BY <1>1, <1>2 DEF Arrived

\* Behind a checkpoint there is at most a switch before the part that runs out.
LEMMA Supplied ==
  ASSUME IInv, pc # "idle", NEW category \in Category, AheadBy(category),
         at \in 1 .. Len(block.parts),
         \/ block.parts[at].kind = "switch" /\ c.left[category] = 0
         \/ block.parts[at].kind \in {"command", "distance"}
  PROVE  /\ c.left[category] = 0 => Ahead(at)
         /\ ~Arrived(at) =>
              \/ at = bit_pos
              \/ /\ at = bit_pos + 1 /\ block.parts[bit_pos].kind = "switch"
                 /\ block.parts[bit_pos].category = category
                 /\ c.left[category] # 0
  <1>1. /\ block \in Blocks /\ avail \in Nat /\ at \in Nat \ {0} /\ StepBits \in Nat
        /\ bit_pos \in Nat
    BY StepFacts, MetaBlockAssumption DEF Within
  <1>2. block.parts[at].bits <= StepBits /\ block.parts[at].bits \in Nat
        /\ BitsTo(at) \in Nat
    BY <1>1, CoveredFacts
  <1>3. avail - BitsTo(at) >= StepBits => Arrived(at)
    <2> SUFFICES ASSUME avail - BitsTo(at) >= StepBits PROVE Arrived(at)
      OBVIOUS
    <2>1. block.parts[at].bits <= avail - BitsTo(at)
      BY <1>1, <1>2
    <2> QED
      BY <1>1, <2>1, Reaches
  <1>4. CASE Ahead(at)
    BY <1>3, <1>4 DEF Ahead
  <1>5. CASE /\ at - 1 \in 1 .. Len(block.parts) /\ Ahead(at - 1)
             /\ block.parts[at - 1].kind = "switch"
             /\ block.parts[at - 1].category = category
             /\ c.left[category] # 0
    <2>1. CASE at - 1 = bit_pos
      <3>1. at = bit_pos + 1 /\ block.parts[bit_pos].kind = "switch"
            /\ block.parts[bit_pos].category = category
        BY <1>1, <1>5, <2>1
      <3> QED
        BY <1>5, <3>1
    <2>2. CASE avail - BitsTo(at - 1) >= StepBits
      <3>1. PICK i \in 1 .. Len(block.parts) : i = at - 1
        BY <1>5
      <3>2. i + 1 = at
        BY <1>1, <3>1
      <3>3. /\ BitsTo(i) \in Nat /\ block.parts[i].bits \in Nat
            /\ BitsTo(at) = BitsTo(i) + block.parts[i].bits
            /\ at <= Len(block.parts) =>
                 block.parts[i].bits + block.parts[at].bits <= StepBits
        BY <1>1, <1>5, <3>1, <3>2, CoveredFacts
      <3>4. avail - BitsTo(i) >= StepBits /\ at <= Len(block.parts)
        BY <2>2, <3>1, BlockOK, <1>1
      <3>5. block.parts[at].bits <= avail - BitsTo(at)
        <4>1. PICK x \in Nat, y \in Nat, z \in Nat :
                x = block.parts[i].bits /\ y = block.parts[at].bits /\ z = BitsTo(i)
          BY <1>2, <3>3
        <4>2. /\ x + y <= StepBits /\ avail - z >= StepBits
              /\ x \in Nat /\ y \in Nat /\ z \in Nat
          BY <3>3, <3>4, <4>1
        <4>3. y <= avail - (z + x)
          BY ONLY <1>1, <4>2
        <4> QED
          BY <3>3, <4>1, <4>3
      <3>6. Arrived(at)
        BY <1>1, <3>5, Reaches
      <3> QED
        BY <1>5, <3>6
    <2> QED
      BY <1>5, <2>1, <2>2 DEF Ahead
  <1> QED
    BY <1>4, <1>5 DEF AheadBy

\* A switch of a command or a distance, from the checkpoint as it is.
LEMMA SwitchHereInv ==
  ASSUME IInv, pc \in {"command", "distance"},
         NEW s \in Visits(block), Follows(s), NEW category \in Category,
         Turn(block, s) = NextBlock(block, s, category), c.left[category] = 0,
         at \in 1 .. Len(block.parts), There(block, at) = <<"switch", category>>,
         pc = "command" => category = "commands",
         pc = "distance" => category = "distances",
         SwitchBlock(category, cursor, bit_pos), UNCHANGED loopVars
  PROVE  IInv'
  <1>1. pc # "idle" /\ block' = block /\ bit_pos' = bit_pos
    BY DEF SwitchBlock, loopVars
  <1>2. /\ cursor \in Cursors /\ Within(bit_pos) /\ output \in Seq(BytesOf(block))
    BY <1>1, StepFacts
  <1>3. block.parts[at].kind = "switch"
    BY DEF There
  <1>4. AheadBy(category)
    BY DEF IInv, Behind
  <1>5. Ahead(at) /\ (~Arrived(at) => at = bit_pos)
    BY <1>1, <1>3, <1>4, Supplied
  <1>6. cursor' = cursor /\ output' = output => Saved'
    BY <1>1, <1>2, StillSaved, SameOutput
  <1>7. at = bit_pos \/ avail - BitsTo(at) >= StepBits
    BY <1>5 DEF Ahead
  <1> QED
    BY <1>1, <1>2, <1>5, <1>6, <1>7, SwitchInv

LEMMA SwitchCommandsInv ==
  ASSUME IInv, SwitchCommands
  PROVE  IInv'
  <1>1. /\ pc = "command" /\ c.left["commands"] = 0 /\ c.pos < Needed(block)
        /\ SwitchBlock("commands", cursor, bit_pos) /\ UNCHANGED loopVars
    BY DEF SwitchCommands, IInv, Decoding
  <1>2. PICK s \in Visits(block) : Follows(s)
    BY <1>1, StepFacts DEF Current
  <1>3. PICK t \in Visits(block) : t = Turn(block, s)
    BY <1>2, FollowFacts
  <1>4. /\ WellFormed(block) /\ s \in States(block) /\ Fed(block, s)
        /\ s.result = "running" /\ s.at = at /\ Len(s.out) = c.pos /\ s.left = c.left
    BY <1>2, <1>3, FollowFacts
  <1>5. s.phase = "command"
    BY <1>1, <1>2 DEF Follows
  <1>6. PICK part : part = block.parts[s.at]
    OBVIOUS
  <1>7. /\ t = NextBlock(block, s, "commands") /\ s.at \in 1 .. Len(block.parts)
        /\ There(block, s.at) = <<"switch", "commands">>
    BY <1>1, <1>3, <1>4, <1>5, <1>6, CommandTurn
  <1>8. "commands" \in Category
    BY DEF Category
  <1> QED
    BY <1>1, <1>2, <1>3, <1>4, <1>7, <1>8, SwitchHereInv

LEMMA SwitchDistancesInv ==
  ASSUME IInv, SwitchDistances
  PROVE  IInv'
  <1>1. /\ pc = "distance" /\ c.left["distances"] = 0 /\ ~command.reuse
        /\ SwitchBlock("distances", cursor, bit_pos) /\ UNCHANGED loopVars
    BY DEF SwitchDistances
  <1>2. PICK s \in Visits(block) : Follows(s)
    BY <1>1, StepFacts DEF Current
  <1>3. PICK t \in Visits(block) : t = Turn(block, s)
    BY <1>2, FollowFacts
  <1>4. /\ WellFormed(block) /\ s \in States(block) /\ Fed(block, s)
        /\ s.result = "running" /\ s.at = at /\ s.left = c.left
    BY <1>2, <1>3, FollowFacts
  <1>5. s.phase = "distance" /\ s.command = command
    BY <1>1, <1>2 DEF Follows
  <1>6. PICK part : part = block.parts[s.at]
    OBVIOUS
  <1>7. /\ t = NextBlock(block, s, "distances") /\ s.at \in 1 .. Len(block.parts)
        /\ There(block, s.at) = <<"switch", "distances">>
    BY <1>1, <1>3, <1>4, <1>5, <1>6, CopyTurn
  <1>8. "distances" \in Category
    BY DEF Category
  <1> QED
    BY <1>1, <1>2, <1>3, <1>4, <1>7, <1>8, SwitchHereInv

\* The cursor after part of a command.
With(saved, pos, l, ring) ==
  [pos |-> pos, types |-> saved.types, left |-> l, ring |-> ring,
   pending |-> saved.pending]

LEMMA WithFacts ==
  ASSUME NEW saved \in Cursors, NEW pos \in Nat, NEW l \in Lefts, NEW ring \in Distances
  PROVE  /\ With(saved, pos, l, ring) \in Cursors
         /\ With(saved, pos, l, ring).pos = pos
         /\ With(saved, pos, l, ring).left = l
         /\ With(saved, pos, l, ring).ring = ring
  <1>1. PICK d : d = With(saved, pos, l, ring)
    OBVIOUS
  <1>2. d = [pos |-> pos, types |-> saved.types, left |-> l, ring |-> ring,
             pending |-> saved.pending]
    BY <1>1 DEF With
  <1>3. /\ saved.types \in [Category -> Nat \X Nat]
        /\ saved.pending \in [kind : {"header", "literals", "distance"},
                              command : Commands, left : Nat]
        /\ pos \in Nat /\ l \in Lefts /\ ring \in Distances
    BY DEF Cursors
  <1>4. d \in Cursors
    BY ONLY <1>2, <1>3 DEF Cursors
  <1> QED
    BY <1>1, <1>2, <1>4

LEMMA ReadCommandInv ==
  ASSUME IInv, ReadCommand
  PROVE  IInv'
  <1>1. /\ pc = "command" /\ pc # "idle" /\ c.left["commands"] # 0
        /\ c.pos < Needed(block) /\ UNCHANGED loopVars /\ bit_pos' = bit_pos
        /\ block' = block /\ avail' = avail /\ stage' = stage
    BY DEF ReadCommand, IInv, Decoding, loopVars
  <1>2. PICK s \in Visits(block) : Follows(s)
    BY <1>1, StepFacts DEF Current
  <1>3. PICK t \in Visits(block) : t = Turn(block, s)
    BY <1>2, FollowFacts
  <1>4. /\ WellFormed(block) /\ s \in States(block) /\ Fed(block, s)
        /\ s.result = "running" /\ s.at = at /\ s.out = output
        /\ Len(s.out) = c.pos /\ s.ring = c.ring /\ s.left = c.left
        /\ TypesOf(s.header) = TypesOf(header)
    BY <1>2, <1>3, FollowFacts
  <1>5. s.phase = "command"
    BY <1>1, <1>2 DEF Follows
  <1>6. PICK part : part = block.parts[at]
    OBVIOUS
  <1>7. /\ at \in 1 .. Len(block.parts) /\ part.kind = "command"
        /\ CommandOf(part) \in Commands
        /\ part.insert > Needed(block) - c.pos => EndsAs(t, s, "error")
        /\ part.insert <= Needed(block) - c.pos =>
             /\ t.at = s.at + 1 /\ t.phase = "literals"
             /\ t.left = OneLess(s.left, "commands")
             /\ t.command = CommandOf(part) /\ t.todo = part.insert
             /\ t.header = s.header /\ t.ring = s.ring
             /\ t.out = s.out /\ t.result = "running"
    BY <1>1, <1>3, <1>4, <1>5, <1>6, CommandTurn
  <1>8. /\ c \in Cursors /\ cursor \in Cursors /\ c.pos \in Nat
        /\ c.left \in Lefts /\ c.ring \in Distances /\ at \in Nat \ {0}
        /\ Within(bit_pos) /\ header \in Headers /\ block \in Blocks
        /\ output \in Seq(BytesOf(block))
    BY <1>1, StepFacts DEF Cursors
  <1>9. part.insert \in Nat /\ "commands" \in Category
    <2>1. PartOf(part)
      BY <1>4, <1>6, <1>7, BlockFacts
    <2> QED
      BY <1>7, <2>1 DEF PartOf, Category
  <1>10. cursor' = cursor /\ output' = output => Saved'
    BY <1>1, <1>2, <1>8, StillSaved, SameOutput
  <1>11. CASE ~Arrived(at)
    <2>1. /\ pc' = "idle" /\ result' = "endOfInput" /\ header' = header
          /\ cursor' = cursor /\ at' = at /\ output' = output
      BY <1>11 DEF ReadCommand, RunOut, Leave
    <2>2. RedecodesOnePart'
      <3>1. AheadBy("commands")
        BY <1>1 DEF IInv, Behind
      <3>2. \/ at = bit_pos
            \/ /\ at = bit_pos + 1 /\ block.parts[bit_pos].kind = "switch"
               /\ block.parts[bit_pos].category = "commands"
        BY <1>1, <1>6, <1>7, <1>9, <1>11, <3>1, Supplied
      <3> QED
        BY <1>1, <2>1, <3>2 DEF RedecodesOnePart
    <2> QED
      BY <1>1, <1>8, <1>10, <2>1, <2>2, GoesIdle
  <1>12. CASE Arrived(at) /\ part.insert > Needed(block) - c.pos
    <2>1. /\ pc' = "idle" /\ result' = "error" /\ header' = header
          /\ cursor' = [cursor EXCEPT !.pos = c.pos] /\ at' = at /\ output' = output
      BY <1>6, <1>12 DEF ReadCommand, Fail, Leave
    <2>2. cursor' \in Cursors /\ cursor'.pos = c.pos
      BY <1>8, <2>1, Repositioned
    <2> QED
      BY <1>1, <1>2, <1>3, <1>7, <1>8, <1>12, <2>1, <2>2, GoesEnd
  <1>13. CASE Arrived(at) /\ ~(part.insert > Needed(block) - c.pos)
    <2>1. /\ at' = at + 1 /\ c' = [c EXCEPT !.left["commands"] = @ - 1]
          /\ command' = CommandOf(part) /\ left' = part.insert /\ pc' = "literals"
          /\ header' = header /\ cursor' = cursor /\ output' = output /\ result' = result
      BY <1>6, <1>13 DEF ReadCommand
    <2>2. part.insert <= Needed(block) - c.pos
      <3>1. Needed(block) \in Nat
        BY <1>4, BlockFacts
      <3> QED
        BY <1>8, <1>9, <1>13, <3>1
    <2>3. c' = With(c, c.pos, OneLess(c.left, "commands"), c.ring)
      BY <1>8, <2>1 DEF With, OneLess, Cursors
    <2>4. /\ c' \in Cursors /\ c'.pos = c.pos /\ c'.ring = c.ring
          /\ c'.left = OneLess(c.left, "commands")
      <3>1. OneLess(c.left, "commands") \in Lefts
        BY <1>1, <1>8, <1>9, LeftFacts
      <3> QED
        BY <1>8, <2>3, <3>1, WithFacts
    <2>5. Current'
      <3>1. Follows(t)'
        <4>1. BlockTypes' = TypesOf(header)
          BY <2>1 DEF BlockTypes, TypesOf
        <4> QED
          BY <1>4, <1>7, <2>1, <2>2, <2>4, <4>1 DEF Follows
      <3> QED
        BY <1>1, <1>3, <3>1 DEF Current
    <2>6. Within(at')
      BY <1>8, <1>13, <2>1, WithinNext
    <2>7. /\ pc' \in {"header", "command", "literals", "distance"}
          /\ pc' # "command" /\ pc' # "distance"
          /\ header' \in Headers /\ output' \in Seq(BytesOf(block)) /\ cursor' \in Cursors
          /\ command' \in Commands /\ left' \in Nat /\ Within(bit_pos') /\ Saved'
      BY <1>1, <1>7, <1>8, <1>9, <1>10, <2>1
    <2> QED
      BY <1>1, <2>1, <2>4, <2>5, <2>6, <2>7, GoesOn
  <1> QED
    BY <1>11, <1>12, <1>13

LEMMA AfterLiteralsInv ==
  ASSUME IInv, AfterLiterals
  PROVE  IInv'
  <1>1. /\ pc = "literals" /\ pc # "idle" /\ left = 0 /\ c.pos # Needed(block)
        /\ UNCHANGED loopVars /\ block' = block /\ avail' = avail /\ stage' = stage
        /\ pc' = "distance" /\ header' = header /\ at' = at /\ c' = c
        /\ command' = command /\ left' = left /\ output' = output /\ result' = result
    BY DEF AfterLiterals, loopVars
  <1>2. PICK s \in Visits(block) : Follows(s)
    BY <1>1, StepFacts DEF Current
  <1>3. PICK t \in Visits(block) : t = Turn(block, s)
    BY <1>2, FollowFacts
  <1>4. /\ WellFormed(block) /\ s \in States(block)
        /\ s.result = "running" /\ s.at = at /\ s.out = output
        /\ Len(s.out) = c.pos /\ s.ring = c.ring /\ s.left = c.left
        /\ TypesOf(s.header) = TypesOf(header)
    BY <1>2, <1>3, FollowFacts
  <1>5. s.phase = "literals" /\ s.command = command /\ s.todo = left
    BY <1>1, <1>2 DEF Follows
  <1>6. /\ t.phase = "distance" /\ t.at = s.at /\ t.left = s.left
        /\ t.command = s.command /\ t.todo = s.todo /\ t.header = s.header
        /\ t.ring = s.ring /\ t.out = s.out /\ t.result = "running"
    BY <1>1, <1>3, <1>4, <1>5, LiteralsEndTurn
  <1>7. PICK pending : pending = [kind |-> "distance", command |-> command, left |-> 0]
    OBVIOUS
  <1>8. /\ c \in Cursors /\ cursor \in Cursors /\ Within(at) /\ Within(bit_pos)
        /\ header \in Headers /\ output \in Seq(BytesOf(block)) /\ avail \in Nat
        /\ command \in Commands /\ left \in Nat
    BY <1>1, StepFacts
  <1>9. pending \in Pendings /\ Stands(s, pending)
    BY <1>1, <1>5, <1>7, <1>8 DEF Pendings, Stands
  <1>10. cursor' \in Cursors /\ Saved' /\ Within(bit_pos') /\ AheadBy("distances")'
    <2>1. CASE Short
      <3>1. cursor' = Kept(pending) /\ bit_pos' = at
        BY <1>7, <2>1 DEF AfterLiterals, CheckpointIf, Checkpoint
      <3>2. cursor' \in Cursors /\ Saved'
        BY <1>1, <1>2, <1>9, <3>1, KeptFacts, CheckpointKeeps, SameOutput
      <3> QED
        BY <1>1, <1>8, <3>1, <3>2 DEF AheadBy, Ahead
    <2>2. CASE ~Short
      <3>1. cursor' = cursor /\ bit_pos' = bit_pos
        BY <2>2 DEF AfterLiterals, CheckpointIf
      <3>2. Extends(output', output)
        BY <1>1, <1>2, SameOutput
      <3>3. Saved'
        BY <1>1, <1>8, <3>1, <3>2, StillSaved
      <3>4. avail - BitsTo(at) >= StepBits
        <4>1. BitsTo(at) \in Nat /\ StepBits \in Nat
          BY <1>8, MetaBlockAssumption DEF Within
        <4> QED
          BY <1>8, <2>2, <4>1 DEF Short, RemainingBits
      <3>5. Ahead(at)'
        BY <1>1, <3>4 DEF Ahead, BitsTo
      <3> QED
        BY <1>8, <3>1, <3>3, <3>5 DEF AheadBy
    <2> QED
      BY <2>1, <2>2
  <1>11. Current'
    <2>1. Follows(t)'
      <3>1. BlockTypes' = TypesOf(header)
        BY <1>1 DEF BlockTypes, TypesOf
      <3> QED
        BY <1>1, <1>4, <1>5, <1>6, <3>1 DEF Follows
    <2> QED
      BY <1>1, <1>3, <2>1 DEF Current
  <1> QED
    BY <1>1, <1>8, <1>10, <1>11, GoesOn

LEMMA LiteralsStand ==
  ASSUME IInv, pc = "literals", NEW s \in Visits(block), Follows(s)
  PROVE  LiteralsPending(left) \in Pendings /\ Stands(s, LiteralsPending(left))
  <1>1. command \in Commands /\ left \in Nat
    BY StepFacts
  <1>2. s.phase = "literals" /\ s.command = command /\ s.todo = left
    BY DEF Follows
  <1> QED
    BY <1>1, <1>2 DEF LiteralsPending, Pendings, Stands

LEMMA SwitchLiteralsInv ==
  ASSUME IInv, SwitchLiterals
  PROVE  IInv'
  <1>1. /\ pc = "literals" /\ pc # "idle" /\ left # 0 /\ ~SingleLiteralCode(block)
        /\ c.left["literals"] = 0 /\ UNCHANGED loopVars /\ block' = block
    BY DEF SwitchLiterals, loopVars
  <1>2. PICK s \in Visits(block) : Follows(s)
    BY <1>1, StepFacts DEF Current
  <1>3. PICK t \in Visits(block) : t = Turn(block, s)
    BY <1>2, FollowFacts
  <1>4. /\ WellFormed(block) /\ s \in States(block) /\ Fed(block, s)
        /\ s.result = "running" /\ s.at = at /\ s.left = c.left
    BY <1>2, <1>3, FollowFacts
  <1>5. s.phase = "literals" /\ s.todo = left
    BY <1>1, <1>2 DEF Follows
  <1>6. PICK part : part = block.parts[s.at]
    OBVIOUS
  <1>7. /\ t = NextBlock(block, s, "literals") /\ s.at \in 1 .. Len(block.parts)
        /\ There(block, s.at) = <<"switch", "literals">>
    BY <1>1, <1>3, <1>4, <1>5, <1>6, LiteralTurn
  <1>8. /\ cursor \in Cursors /\ Within(at) /\ Within(bit_pos) /\ avail \in Nat
        /\ "literals" \in Category /\ block \in Blocks
    BY <1>1, StepFacts DEF Category
  <1>9. CASE Short
    <2>1. SwitchBlock("literals", Kept(LiteralsPending(left)), at)
      BY <1>9 DEF SwitchLiterals
    <2>2. /\ LiteralsPending(left) \in Pendings /\ Stands(s, LiteralsPending(left))
      BY <1>1, <1>2, LiteralsStand
    <2>3. PICK saved \in Cursors : saved = Kept(LiteralsPending(left))
      BY <1>1, <2>2, KeptFacts
    <2>4. bit_pos' = at
      BY <2>1 DEF SwitchBlock
    <2>5. cursor' = saved /\ output' = output => Saved'
      BY <1>1, <1>2, <2>2, <2>3, <2>4, CheckpointKeeps, SameOutput
    <2> QED
      BY <1>1, <1>2, <1>3, <1>4, <1>7, <1>8, <2>1, <2>3, <2>5, SwitchInv
  <1>10. CASE ~Short
    <2>1. SwitchBlock("literals", cursor, bit_pos)
      BY <1>10 DEF SwitchLiterals
    <2>2. bit_pos' = bit_pos
      BY <2>1 DEF SwitchBlock
    <2>3. output \in Seq(BytesOf(block))
      BY <1>1, StepFacts
    <2>4. cursor' = cursor /\ output' = output => Saved'
      BY <1>1, <1>2, <2>2, <2>3, StillSaved, SameOutput
    <2>5. Arrived(at)
      <3>1. /\ at \in 1 .. Len(block.parts) /\ block.parts[at].kind = "switch"
        BY <1>4, <1>7 DEF There
      <3>2. /\ BitsTo(at) \in Nat /\ block.parts[at].bits \in Nat
            /\ block.parts[at].bits <= StepBits /\ StepBits \in Nat
        BY <1>8, <3>1, CoveredFacts, MetaBlockAssumption
      <3>3. block.parts[at].bits <= avail - BitsTo(at)
        BY <1>8, <1>10, <3>2 DEF Short, RemainingBits
      <3> QED
        BY <1>8, <3>1, <3>3, Reaches
    <2> QED
      BY <1>1, <1>2, <1>3, <1>4, <1>7, <1>8, <2>1, <2>4, <2>5, SwitchInv
  <1> QED
    BY <1>9, <1>10

\* A run of literals: as many as the input surely holds, and at least one.
LEMMA DivFacts ==
  ASSUME NEW x \in Nat, NEW m \in Nat \ {0}
  PROVE  x \div m \in Nat /\ (x \div m) * m <= x
  OBVIOUS

LEMMA TimesGrows ==
  ASSUME NEW x \in Nat, NEW y \in Nat, NEW m \in Nat, x <= y
  PROVE  x * m <= y * m
  OBVIOUS

LEMMA CountFacts ==
  ASSUME IInv, pc = "literals", left # 0,
         SingleLiteralCode(block) \/ c.left["literals"] # 0
  PROVE  /\ Run \in Nat /\ Run <= left
         /\ SingleLiteralCode(block) \/ Run <= c.left["literals"]
         /\ Count \in Nat /\ Count >= 1 /\ Count <= Run
         /\ Fits # 0 => Count * block.maxBits <= avail - BitsTo(at)
  <1>1. /\ left \in Nat /\ c.left["literals"] \in Nat
        /\ avail \in Nat /\ BitsTo(at) \in Nat /\ BitsTo(at) <= avail
        /\ block.maxBits \in Nat
    BY StepFacts, BlockFacts DEF Cursors, Lefts, Category, Within
  <1>2. /\ Run \in Nat /\ Run <= left /\ Run >= 1
        /\ SingleLiteralCode(block) \/ Run <= c.left["literals"]
    BY <1>1 DEF Run, Smaller
  <1>3. PICK r \in Nat : r = Run
    BY <1>2
  <1>4. PICK m \in Nat : m = block.maxBits
    BY <1>1
  <1>5. PICK x \in Nat : x = avail - BitsTo(at)
    BY <1>1
  <1>6. Fits = (IF r * m <= x THEN r ELSE x \div m)
    BY <1>3, <1>4, <1>5 DEF Fits, RemainingBits
  <1>7. PICK n : n = Fits
    OBVIOUS
  <1>8. n \in Nat /\ n <= r /\ n * m <= x
    <2>1. CASE r * m <= x
      BY <1>6, <1>7, <2>1
    <2>2. CASE ~(r * m <= x)
      <3>1. m # 0
        <4>1. m = 0 => r * m = 0
          OBVIOUS
        <4> QED
          BY <2>2, <4>1
      <3>2. n = x \div m
        BY <1>6, <1>7, <2>2
      <3>3. n \in Nat /\ n * m <= x
        BY <3>1, <3>2, DivFacts
      <3>4. n <= r
        <4>1. ASSUME r <= n PROVE r * m <= n * m
          BY <3>3, <4>1, TimesGrows
        <4>2. PICK y \in Nat, z \in Nat : y = r * m /\ z = n * m
          BY <3>3
        <4>3. ~(y <= x) /\ z <= x
          BY <2>2, <3>3, <4>2
        <4>4. r <= n => y <= z
          BY <4>1, <4>2
        <4>5. ~(r <= n)
          BY <4>3, <4>4
        <4> QED
          BY <3>3, <4>5
      <3> QED
        BY <3>3, <3>4
    <2> QED
      BY <2>1, <2>2
  <1>9. Count = IF n = 0 THEN 1 ELSE n
    BY <1>7 DEF Count
  <1>10. Fits # 0 => Count * block.maxBits <= avail - BitsTo(at)
    BY <1>4, <1>5, <1>7, <1>8, <1>9
  <1>11. Count \in Nat /\ Count >= 1 /\ Count <= Run
    BY <1>2, <1>3, <1>8, <1>9
  <1> QED
    BY <1>2, <1>10, <1>11

LEMMA ExtendedBy ==
  ASSUME NEW S, NEW out \in Seq(S), NEW more \in Seq(S)
  PROVE  /\ out \o more \in Seq(S) /\ Len(out \o more) = Len(out) + Len(more)
         /\ Extends(out \o more, out)
  <1>1. /\ out \o more \in Seq(S) /\ Len(out \o more) = Len(out) + Len(more)
        /\ Len(out) \in Nat /\ Len(more) \in Nat
    OBVIOUS
  <1>2. \A i \in 1 .. Len(out) : (out \o more)[i] = out[i]
    OBVIOUS
  <1> QED
    BY <1>1, <1>2 DEF Extends

\* The literals a step decodes are those of the loop, and the input holds them.
LEMMA RunMatches ==
  ASSUME IInv, pc = "literals", left # 0,
         SingleLiteralCode(block) \/ c.left["literals"] # 0,
         NEW s \in Visits(block), Follows(s), NEW t \in Visits(block),
         AfterRun(block, s, t, Count)
  PROVE  /\ LiteralsAt(block, s, Count)
              = [i \in 1 .. Count |-> LiteralAt(block, at + i - 1, header)]
         /\ at + Count - 1 \in 1 .. Len(block.parts)
         /\ Fits # 0 => Arrived(at + Count - 1)
  <1>1. /\ s.at = at /\ WellFormed(block) /\ Covered(block) /\ block \in Blocks
        /\ s.header["literals"].current = header["literals"].current
    <2>1. PICK u : u = Turn(block, s)
      OBVIOUS
    <2> QED
      BY <2>1, FollowFacts DEF Category
  <1>2. at \in Nat \ {0} /\ avail \in Nat /\ BitsTo(at) \in Nat
    BY StepFacts DEF Within
  <1>3. Count \in Nat /\ Count >= 1
    BY CountFacts
  <1>4. /\ at + Count <= Len(block.parts) + 1 /\ Len(block.parts) \in Nat
        /\ \A j \in 0 .. Count - 1 : block.parts[at + j].kind = "literal"
    BY <1>1, <1>3, BlockOK DEF AfterRun
  <1>5. LiteralsAt(block, s, Count)
          = [i \in 1 .. Count |-> LiteralAt(block, at + i - 1, header)]
    <2>1. ASSUME NEW i \in 1 .. Count
          PROVE  LiteralAt(block, at + i - 1, s.header) = LiteralAt(block, at + i - 1, header)
      BY <1>1 DEF LiteralAt
    <2> QED
      BY <1>1, <2>1 DEF LiteralsAt
  <1>6. at + Count - 1 \in 1 .. Len(block.parts)
    BY <1>2, <1>3, <1>4
  <1>7. ASSUME Fits # 0 PROVE Arrived(at + Count - 1)
    <2>1. Count * block.maxBits <= avail - BitsTo(at)
      BY <1>7, CountFacts
    <2>2. Offsets(block)[at + Count] <= Offsets(block)[at] + Count * block.maxBits
      <3>1. PICK n \in Nat : n = Count
        BY <1>3
      <3>2. /\ at \in Nat /\ at >= 1 /\ at + n <= Len(block.parts) + 1
            /\ \A j \in 0 .. n - 1 : block.parts[at + j].kind = "literal"
        BY <1>2, <1>4, <3>1
      <3>3. Offsets(block)[at + n] <= Offsets(block)[at] + n * block.maxBits
        BY ONLY <1>1, <3>2, n \in Nat, LiteralBits
      <3> QED
        BY <3>1, <3>3
    <2>3. /\ BitsTo(at + Count) <= BitsTo(at) + Count * block.maxBits
          /\ (at + Count - 1) + 1 = at + Count
      BY <1>2, <1>3, <2>2 DEF BitsTo
    <2>4. Count * block.maxBits \in Nat /\ BitsTo(at + Count) \in Nat
      <3>1. block.maxBits \in Nat
        BY <1>1, BlockFacts
      <3>2. at + Count \in 1 .. Len(block.parts) + 1
        BY <1>2, <1>3, <1>4
      <3> QED
        BY <1>1, <1>3, <3>1, <3>2, OffsetsFacts DEF BitsTo
    <2>5. PICK x \in Nat : x = Count * block.maxBits
      BY <2>4
    <2>6. BitsTo(at + Count) <= avail
      <3>1. BitsTo(at + Count) <= BitsTo(at) + x /\ x <= avail - BitsTo(at) /\ x \in Nat
        BY <2>1, <2>3, <2>5
      <3> QED
        BY ONLY <1>2, <2>4, <3>1
    <2> QED
      BY <1>4, <1>6, <2>3, <2>6 DEF Arrived
  <1> QED
    BY <1>5, <1>6, <1>7

LEMMA ReadLiteralsInv ==
  ASSUME IInv, ReadLiterals
  PROVE  IInv'
  <1>1. /\ pc = "literals" /\ pc # "idle" /\ left # 0
        /\ SingleLiteralCode(block) \/ c.left["literals"] # 0
        /\ UNCHANGED loopVars /\ block' = block /\ avail' = avail /\ stage' = stage
    BY DEF ReadLiterals, loopVars
  <1>2. PICK s \in Visits(block) : Follows(s)
    BY <1>1, StepFacts DEF Current
  <1>3. /\ WellFormed(block) /\ s \in States(block) /\ s.result = "running"
        /\ s.at = at /\ s.out = output /\ Len(s.out) = c.pos /\ s.ring = c.ring
        /\ s.left = c.left /\ TypesOf(s.header) = TypesOf(header)
    <2>1. PICK u : u = Turn(block, s)
      OBVIOUS
    <2> QED
      BY <1>2, <2>1, FollowFacts
  <1>4. s.phase = "literals" /\ s.command = command /\ s.todo = left
    BY <1>1, <1>2 DEF Follows
  <1>5. /\ Run \in Nat /\ Run <= left
        /\ SingleLiteralCode(block) \/ Run <= c.left["literals"]
        /\ Count \in Nat /\ Count >= 1 /\ Count <= Run
    BY <1>1, CountFacts
  <1>6. /\ c \in Cursors /\ cursor \in Cursors /\ c.pos \in Nat /\ c.left \in Lefts
        /\ c.ring \in Distances /\ Within(at) /\ Within(bit_pos) /\ at \in Nat \ {0}
        /\ header \in Headers /\ output \in Seq(BytesOf(block)) /\ block \in Blocks
        /\ command \in Commands /\ left \in Nat /\ "literals" \in Category
        /\ c.left["literals"] \in Nat
    BY <1>1, StepFacts DEF Cursors, Category, Lefts
  <1>7. PICK n \in Nat : n = Count
    BY <1>5
  <1>8. n <= s.todo /\ (SingleLiteralCode(block) \/ n <= s.left["literals"])
    BY <1>3, <1>4, <1>5, <1>6, <1>7
  <1>9. /\ LiteralsAt(block, s, n) \in Seq(BytesOf(block))
        /\ \E t \in Visits(block) : AfterRun(block, s, t, n)
    BY <1>2, <1>3, <1>4, <1>6, <1>8, BlockOK, LiteralRunFacts
  <1>10. PICK t \in Visits(block) : AfterRun(block, s, t, n)
    BY <1>9
  <1>11. PICK bytes \in Seq(BytesOf(block)) : bytes = LiteralsAt(block, s, n)
    BY <1>9
  <1>12. /\ bytes = [i \in 1 .. n |-> LiteralAt(block, at + i - 1, header)]
         /\ at + n - 1 \in 1 .. Len(block.parts)
         /\ Fits # 0 => Arrived(at + n - 1)
    BY <1>1, <1>2, <1>7, <1>10, <1>11, RunMatches
  <1>13. /\ LiteralsPending(left) \in Pendings /\ Stands(s, LiteralsPending(left))
    BY <1>1, <1>2, LiteralsStand
  <1>14. CASE ~Arrived(at + n - 1)
    <2>1. /\ pc' = "idle" /\ result' = "endOfInput" /\ header' = header
          /\ at' = at /\ output' = output
          /\ CheckpointIf(Fits = 0, LiteralsPending(left))
      BY <1>7, <1>14 DEF ReadLiterals, RunOut, Leave
    <2>2. cursor' = Kept(LiteralsPending(left)) /\ bit_pos' = at
      BY <1>12, <1>14, <2>1 DEF CheckpointIf, Checkpoint
    <2>3. cursor' \in Cursors /\ Saved'
      BY <1>1, <1>2, <1>13, <2>1, <2>2, KeptFacts, CheckpointKeeps, SameOutput
    <2>4. RedecodesOnePart'
      BY <2>1, <2>2 DEF RedecodesOnePart
    <2> QED
      BY <1>1, <1>6, <2>1, <2>2, <2>3, <2>4, GoesIdle
  <1>15. CASE Arrived(at + n - 1)
    <2>1. PICK decoded :
            decoded = [c EXCEPT !.pos = @ + n,
                                !.left["literals"] =
                                   IF SingleLiteralCode(block) THEN @ ELSE @ - n]
      OBVIOUS
    <2>2. /\ c' = decoded /\ at' = at + n /\ left' = left - n
          /\ output' = output \o bytes
          /\ header' = header /\ command' = command /\ pc' = pc /\ result' = result
          /\ n < Run =>
               /\ cursor' = [decoded EXCEPT !.pending = LiteralsPending(left - n),
                                            !.types = BlockTypes]
               /\ bit_pos' = at + n
          /\ ~(n < Run) => CheckpointIf(Fits = 0, LiteralsPending(left))
      BY <1>7, <1>12, <1>15, <2>1 DEF ReadLiterals
    <2>3. PICK l \in Lefts : l = IF SingleLiteralCode(block) THEN c.left
                                 ELSE LessBy(c.left, "literals", n)
      <3>1. ~SingleLiteralCode(block) => c.left["literals"] - n \in Nat
        BY <1>3, <1>6, <1>8
      <3>2. ~SingleLiteralCode(block) => LessBy(c.left, "literals", n) \in Lefts
        BY <1>6, <3>1 DEF LessBy, Lefts
      <3> QED
        BY <1>6, <3>2
    <2>4. decoded = With(c, c.pos + n, l, c.ring)
      <3>1. CASE SingleLiteralCode(block)
        <4>1. l = c.left /\ [c.left EXCEPT !["literals"] = @] = c.left
          BY <1>6, <2>3, <3>1 DEF Lefts
        <4>2. decoded = With(c, c.pos + n, [c.left EXCEPT !["literals"] = @], c.ring)
          BY <1>6, <2>1, <3>1 DEF With, Cursors
        <4> QED
          BY <4>1, <4>2
      <3>2. CASE ~SingleLiteralCode(block)
        BY <1>6, <2>1, <2>3, <3>2 DEF With, Cursors, LessBy
      <3> QED
        BY <3>1, <3>2
    <2>5. /\ decoded \in Cursors /\ decoded.pos = c.pos + n /\ decoded.left = l
          /\ decoded.ring = c.ring
      <3>1. c \in Cursors /\ c.pos + n \in Nat /\ l \in Lefts /\ c.ring \in Distances
        BY <1>6
      <3> QED
        BY ONLY <2>4, <3>1, WithFacts
    <2>6. /\ output' \in Seq(BytesOf(block)) /\ Len(output') = c.pos + n
          /\ Extends(output', output)
      <3>1. Len(bytes) = n
        BY <1>12
      <3>2. output' = output \o bytes /\ Len(output) = c.pos
        BY <1>3, <2>2
      <3> QED
        BY <1>6, <3>1, <3>2, ExtendedBy
    <2>7. /\ t.result = "running" /\ t.phase = "literals" /\ t.at = at'
          /\ t.todo = left' /\ t.command = command /\ TypesOf(t.header) = TypesOf(header)
          /\ t.ring = c.ring /\ t.out = output' /\ t.left = l
      BY <1>3, <1>4, <1>10, <1>11, <2>2, <2>3 DEF AfterRun
    <2>8. Current'
      <3>1. Follows(t)'
        <4>1. BlockTypes' = TypesOf(header)
          BY <2>2 DEF BlockTypes, TypesOf
        <4> QED
          BY <1>1, <2>2, <2>5, <2>6, <2>7, <4>1 DEF Follows
      <3> QED
        BY <1>1, <3>1 DEF Current
    <2>9. Within(at')
      <3>1. at + n - 1 \in Nat \ {0} /\ (at + n - 1) + 1 = at'
        <4>1. at' = at + n /\ at \in Nat /\ at + n - 1 \in 1 .. Len(block.parts)
          BY <1>6, <1>12, <2>2
        <4> QED
          BY ONLY <4>1, n \in Nat
      <3> QED
        BY <1>6, <1>15, <3>1, WithinNext
    <2>10. left' \in Nat
      BY <1>4, <1>6, <1>8, <2>2
    <2>11. Saved' /\ cursor' \in Cursors /\ Within(bit_pos')
      <3>1. CASE n < Run
        <4>1. PICK pending \in Pendings : pending = LiteralsPending(left')
          BY <1>6, <2>10 DEF LiteralsPending, Pendings
        <4>2. cursor' = [pos |-> decoded.pos, types |-> BlockTypes, left |-> l,
                         ring |-> c.ring, pending |-> pending]
          BY <2>2, <2>5, <3>1, <4>1 DEF Cursors
        <4>3. BlockTypes = TypesOf(header) /\ BlockTypes \in [Category -> Nat \X Nat]
          <5>1. \A category \in Category :
                  header[category].current \in Nat /\ header[category].previous \in Nat
            BY <1>6 DEF Headers
          <5>2. BlockTypes \in [Category -> Nat \X Nat]
            BY <5>1 DEF BlockTypes
          <5> QED
            BY <5>2 DEF BlockTypes, TypesOf
        <4>4. decoded.pos \in Nat /\ c.ring \in Distances /\ l \in Lefts
              /\ pending \in [kind : {"header", "literals", "distance"},
                              command : Commands, left : Nat]
          BY <1>6, <2>3, <2>5, <4>1 DEF Pendings
        <4>5. cursor' \in Cursors
          BY ONLY <4>2, <4>3, <4>4 DEF Cursors
        <4>6. Stands(t, pending)
          BY <2>7, <4>1 DEF Stands, LiteralsPending
        <4>7. Keeps(t)'
          <5>1. Extends(output', t.out)
            BY <2>6, <2>7, SameExtends
          <5>2. /\ Len(t.out) = cursor'.pos /\ t.ring = cursor'.ring
                /\ t.left = cursor'.left /\ TypesOf(t.header) = cursor'.types
                /\ cursor'.pending = pending
            BY <2>5, <2>6, <2>7, <4>2, <4>3
          <5> QED
            BY <2>7, <4>6, <5>1, <5>2 DEF Keeps, Stands
        <4>8. bit_pos' = at'
          BY <2>2, <3>1
        <4> QED
          BY <1>1, <2>7, <2>9, <4>5, <4>7, <4>8 DEF Saved
      <3>2. CASE ~(n < Run) /\ Fits = 0
        <4>1. cursor' = Kept(LiteralsPending(left)) /\ bit_pos' = at
          BY <2>2, <3>2 DEF CheckpointIf, Checkpoint
        <4>2. Extends(output', s.out)
          BY <1>3, <2>6
        <4> QED
          BY <1>1, <1>2, <1>6, <1>13, <4>1, <4>2, KeptFacts, CheckpointKeeps
      <3>3. CASE ~(n < Run) /\ Fits # 0
        <4>1. cursor' = cursor /\ bit_pos' = bit_pos
          BY <2>2, <3>3 DEF CheckpointIf
        <4> QED
          BY <1>1, <1>6, <2>6, <4>1, StillSaved
      <3> QED
        BY <3>1, <3>2, <3>3
    <2>12. /\ pc' \in {"header", "command", "literals", "distance"}
           /\ pc' # "command" /\ pc' # "distance"
           /\ header' \in Headers /\ c' \in Cursors /\ command' \in Commands
      BY <1>1, <1>6, <2>2, <2>5
    <2> QED
      BY <1>1, <2>2, <2>6, <2>8, <2>9, <2>10, <2>11, <2>12, GoesOn
  <1> QED
    BY <1>14, <1>15

LEMMA CopyInv ==
  ASSUME IInv, Copy
  PROVE  IInv'
  <1>1. /\ pc = "distance" /\ pc # "idle" /\ UNCHANGED loopVars /\ block' = block
        /\ avail' = avail /\ stage' = stage /\ bit_pos' = bit_pos
        /\ header' = header /\ command' = command /\ left' = left
        /\ command.reuse \/ c.left["distances"] # 0
    BY DEF Copy, loopVars
  <1>2. PICK s \in Visits(block) : Follows(s)
    BY <1>1, StepFacts DEF Current
  <1>3. PICK t \in Visits(block) : t = Turn(block, s)
    BY <1>2, FollowFacts
  <1>4. /\ WellFormed(block) /\ s \in States(block) /\ Fed(block, s)
        /\ s.result = "running" /\ s.at = at /\ s.out = output
        /\ Len(s.out) = c.pos /\ s.ring = c.ring /\ s.left = c.left
        /\ TypesOf(s.header) = TypesOf(header) /\ t \in States(block)
    BY <1>2, <1>3, FollowFacts
  <1>5. s.phase = "distance" /\ s.command = command /\ s.todo = left
    BY <1>1, <1>2 DEF Follows
  <1>6. PICK part : part = block.parts[at]
    OBVIOUS
  <1>7. PICK symbol, distance, source, len :
          /\ symbol = SymbolOf(block, s) /\ distance = DistanceIn(block, s)
          /\ source = SourceIn(block, s) /\ len = LenIn(block, s)
    OBVIOUS
  <1>8. /\ ~command.reuse => at \in 1 .. Len(block.parts) /\ part.kind = "distance"
        /\ Refused(block, s) => EndsAs(t, s, "error")
        /\ ~Refused(block, s) =>
             /\ t.out = Copied(output, source, distance, len)
             /\ Len(t.out) = c.pos + len /\ len \in Nat
             /\ Extends(t.out, output)
             /\ t.ring = RingAfter(c.ring, symbol, source, distance)
             /\ t.at = IF command.reuse THEN at ELSE at + 1
             /\ t.left = IF command.reuse THEN c.left ELSE OneLess(c.left, "distances")
             /\ t.phase = "command" /\ t.header = s.header /\ t.result = "running"
    BY <1>1, <1>3, <1>4, <1>5, <1>6, <1>7, CopyTurn
  <1>9. /\ source = Source(block, c.pos, distance)
        /\ len = CopyLen(block, source, command.copy)
        /\ Refused(block, s) <=> source = "invalid" \/ len > Needed(block) - c.pos
    BY <1>4, <1>5, <1>7 DEF SourceIn, LenIn, Refused
  <1>10. /\ c \in Cursors /\ cursor \in Cursors /\ c.pos \in Nat
         /\ Within(at) /\ Within(bit_pos) /\ at \in Nat \ {0}
         /\ header \in Headers /\ output \in Seq(BytesOf(block)) /\ block \in Blocks
         /\ command \in Commands /\ left \in Nat /\ "distances" \in Category
    BY <1>1, StepFacts DEF Cursors, Category
  <1>11. CASE ~command.reuse /\ ~Arrived(at)
    <2>1. /\ pc' = "idle" /\ result' = "endOfInput" /\ at' = at
          /\ cursor' = cursor /\ output' = output
      BY <1>11 DEF Copy, Leave
    <2>2. AheadBy("distances")
      BY <1>1 DEF IInv, Behind
    <2>3. \/ at = bit_pos
          \/ /\ at = bit_pos + 1 /\ block.parts[bit_pos].kind = "switch"
             /\ block.parts[bit_pos].category = "distances"
      BY <1>1, <1>6, <1>8, <1>10, <1>11, <2>2, Supplied
    <2>4. RedecodesOnePart'
      BY <1>1, <2>1, <2>3 DEF RedecodesOnePart
    <2>5. Saved'
      BY <1>1, <1>2, <1>10, <2>1, StillSaved, SameOutput
    <2> QED
      BY <1>1, <1>10, <2>1, <2>4, <2>5, GoesIdle
  <1>12. CASE command.reuse \/ Arrived(at)
    <2>1. CopyFrom(symbol, distance)
      <3>1. CASE command.reuse
        <4>1. symbol = 0 /\ distance = Resolve(c.ring, 0)
          BY <1>4, <1>5, <1>7, <3>1 DEF SymbolOf, DistanceIn
        <4> QED
          BY <3>1, <4>1 DEF Copy
      <3>2. CASE ~command.reuse
        <4>1. symbol = block.parts[at].symbol
              /\ distance = DistanceOf(block.parts[at], c.ring)
          BY <1>4, <1>5, <1>7, <3>2 DEF SymbolOf, DistanceIn
        <4> QED
          BY <1>12, <3>2, <4>1 DEF Copy
      <3> QED
        BY <3>1, <3>2
    <2>2. CASE Refused(block, s)
      <3>1. /\ pc' = "idle" /\ result' = "error" /\ at' = at /\ output' = output
            /\ cursor' = [cursor EXCEPT !.pos = c.pos]
        BY <1>9, <2>1, <2>2 DEF CopyFrom, Fail, Leave
      <3>2. cursor' \in Cursors /\ cursor'.pos = c.pos
        BY <1>10, <3>1, Repositioned
      <3> QED
        BY <1>1, <1>2, <1>3, <1>8, <1>10, <2>2, <3>1, <3>2, GoesEnd
    <2>3. CASE ~Refused(block, s)
      <3>1. ~(source = "invalid" \/ len > Needed(block) - c.pos)
        BY <1>9, <2>3
      <3>2. /\ output' = Copied(output, source, distance, len)
            /\ at' = IF command.reuse THEN at ELSE at + 1
            /\ c' = [c EXCEPT !.pos = @ + len,
                              !.ring = RingAfter(@, symbol, source, distance),
                              !.left["distances"] =
                                 IF command.reuse THEN @ ELSE @ - 1]
            /\ pc' = "header" /\ cursor' = cursor /\ result' = result
        BY <1>9, <2>1, <3>1 DEF CopyFrom
      <3>3. /\ output' = t.out /\ at' = t.at
        BY <1>8, <2>3, <3>2
      <3>4. PICK l, r : l = t.left /\ r = t.ring
        OBVIOUS
      <3>5. l \in Lefts /\ r \in Distances /\ output' \in Seq(BytesOf(block))
        BY <1>4, <3>3, <3>4 DEF States
      <3>6. c' = With(c, c.pos + len, l, r)
        <4>1. r = RingAfter(c.ring, symbol, source, distance)
              /\ l = IF command.reuse THEN c.left ELSE OneLess(c.left, "distances")
          BY <1>8, <2>3, <3>4
        <4>2. c.left \in Lefts
          BY <1>10 DEF Cursors
        <4>3. CASE command.reuse
          <5>1. l = c.left /\ [c.left EXCEPT !["distances"] = @] = c.left
            BY <4>1, <4>2, <4>3 DEF Lefts
          <5>2. c' = With(c, c.pos + len, [c.left EXCEPT !["distances"] = @], r)
            BY <1>10, <3>2, <4>1, <4>3 DEF With, Cursors
          <5> QED
            BY <5>1, <5>2
        <4>4. CASE ~command.reuse
          BY <1>10, <3>2, <4>1, <4>4 DEF With, Cursors, OneLess
        <4> QED
          BY <4>3, <4>4
      <3>7. /\ c' \in Cursors /\ c'.pos = c.pos + len /\ c'.left = l /\ c'.ring = r
        <4>1. c.pos + len \in Nat
          BY <1>8, <1>10, <2>3
        <4> QED
          BY <1>10, <3>5, <3>6, <4>1, WithFacts
      <3>8. Current'
        <4>1. /\ t.result = "running" /\ t.at = at' /\ t.out = output'
              /\ Len(output') = c'.pos /\ t.ring = c'.ring /\ t.left = c'.left
              /\ t.phase = "command" /\ TypesOf(t.header) = TypesOf(header)
          BY <1>4, <1>8, <2>3, <3>3, <3>4, <3>7
        <4>2. BlockTypes' = TypesOf(header)
          BY <1>1 DEF BlockTypes, TypesOf
        <4>3. pc' = "header"
          BY <3>2
        <4>4. Follows(t)'
          BY ONLY <4>1, <4>2, <4>3 DEF Follows
        <4> QED
          BY <1>1, <4>4 DEF Current
      <3>9. Within(at')
        <4>1. CASE command.reuse
          BY <1>10, <3>2, <4>1
        <4>2. CASE ~command.reuse
          <5>1. at' = at + 1 /\ Arrived(at)
            BY <1>12, <3>2, <4>2
          <5> QED
            BY <1>10, <5>1, WithinNext
        <4> QED
          BY <4>1, <4>2
      <3>10. Saved'
        <4>1. Extends(output', output) /\ cursor' = cursor
          BY <1>8, <2>3, <3>2, <3>3
        <4> QED
          BY <1>1, <3>5, <4>1, StillSaved
      <3>11. /\ pc' \in {"header", "command", "literals", "distance"}
             /\ pc' # "command" /\ pc' # "distance" /\ result' = result
             /\ header' \in Headers /\ cursor' \in Cursors
             /\ command' \in Commands /\ left' \in Nat /\ Within(bit_pos')
        BY <1>1, <1>10, <3>2
      <3> QED
        BY <1>1, <3>5, <3>7, <3>8, <3>9, <3>10, <3>11, GoesOn
    <2> QED
      BY <2>2, <2>3
  <1> QED
    BY <1>11, <1>12

(***************************************************************************)
(* The theorems.                                                           *)
(***************************************************************************)
LEMMA NextInv ==
  ASSUME IInv, [Next]_vars
  PROVE  IInv'
  <1>1. CASE \E bits \in Pieces : Arrive(bits)
    BY <1>1, ArriveInv
  <1>2. CASE \E stop \in cursor.pos .. Needed(block) : BeginBody(stop)
    BY <1>2, BeginBodyInv
  <1>3. CASE ReadHeader \/ ReadCode \/ Done \/ Stop
    BY <1>3, ReadHeaderInv, ReadCodeInv, DoneInv, StopInv
  <1>4. CASE BeginCommand \/ SwitchCommands \/ ReadCommand \/ SwitchLiterals
    BY <1>4, BeginCommandInv, SwitchCommandsInv, ReadCommandInv, SwitchLiteralsInv
  <1>5. CASE ReadLiterals \/ AfterLiterals \/ SwitchDistances \/ Copy
    BY <1>5, ReadLiteralsInv, AfterLiteralsInv, SwitchDistancesInv, CopyInv
  <1>6. CASE UNCHANGED vars
    <2>1. /\ block' = block /\ avail' = avail /\ bit_pos' = bit_pos
          /\ stage' = stage /\ next' = next /\ header' = header /\ cursor' = cursor
          /\ at' = at /\ c' = c /\ command' = command /\ left' = left /\ pc' = pc
          /\ output' = output /\ distances' = distances /\ result' = result
      BY <1>6 DEF vars, stepVars
    <2>2. Typed' /\ Preparing'
      BY <2>1 DEF IInv, Typed, Preparing, Within, BitsTo, Keeps, GroupCount
    <2>3. Decoding' /\ Ended'
      BY <2>1 DEF IInv, Decoding, Ended, Saved, Keeps, Current, Follows, BlockTypes
    <2>4. Behind'
      BY <2>1 DEF IInv, Behind, RedecodesOnePart, AheadBy, Ahead, BitsTo
    <2> QED
      BY <2>2, <2>3, <2>4 DEF IInv
  <1> QED
    BY <1>1, <1>2, <1>3, <1>4, <1>5, <1>6 DEF Next

\* A decoder in steps is always at a turn of decode_commands, and so is the
\* checkpoint it would go on from.
THEOREM StepsAreTurns == Spec => []IInv
  <1>1. Init => IInv
    BY InitInv
  <1>2. IInv /\ [Next]_vars => IInv'
    BY NextInv
  <1> QED
    BY <1>1, <1>2, PTL DEF Spec

\* Wherever the steps stopped, each part is read as what it is, with the code
\* of the block type it was written for (incremental.rs:332-337, 349).
THEOREM PartsReadInForce == Spec => []ReadsInForce
  <1>1. ASSUME IInv PROVE ReadsInForce
    <2> SUFFICES ASSUME pc \in {"command", "distance"} \/ (pc = "literals" /\ left # 0),
                        ~(pc = "distance" /\ command.reuse)
                 PROVE  DueIn(block, pc, c.left, header) = There(block, at)
      BY DEF ReadsInForce
    <2>1. pc # "idle"
      OBVIOUS
    <2>2. PICK s \in Visits(block) : Follows(s)
      BY <1>1, <2>1, StepFacts DEF Current
    <2>3. PICK t : t = Turn(block, s)
      OBVIOUS
    <2>4. /\ Fed(block, s) /\ s.result = "running" /\ s.at = at /\ s.left = c.left
          /\ Len(s.out) = c.pos
          /\ \A category \in Category :
               s.header[category].current = header[category].current
      BY <1>1, <2>2, <2>3, FollowFacts
    <2>5. /\ s.phase = pc
          /\ pc \in {"literals", "distance"} => s.command = command /\ s.todo = left
      BY <2>1, <2>2 DEF Follows
    <2>6. pc = "command" => c.pos < Needed(block)
      BY <1>1 DEF IInv, Decoding
    <2>7. Reads(block, s)
      BY <2>4, <2>5, <2>6 DEF Reads
    <2>8. There(block, at) = DueIn(block, pc, c.left, s.header)
      BY <2>4, <2>5, <2>7 DEF Fed
    <2>9. DueIn(block, pc, c.left, s.header) = DueIn(block, pc, c.left, header)
      <3>1. /\ s.header["literals"].current = header["literals"].current
            /\ s.header["commands"].current = header["commands"].current
            /\ s.header["distances"].current = header["distances"].current
        BY <2>4 DEF Category
      <3> QED
        BY <3>1 DEF DueIn
    <2> QED
      BY <2>8, <2>9
  <1> QED
    BY <1>1, StepsAreTurns, PTL

\* A checkpoint holds the start of what decode_commands makes of the whole
\* meta-block.
LEMMA CheckpointOutput ==
  ASSUME IInv
  PROVE  /\ block \in Blocks /\ cursor.pos \in Nat
         /\ cursor.pos <= Len(output) /\ cursor.pos <= Len(OneShot(block).out)
         /\ SubSeq(output, 1, cursor.pos) = SubSeq(OneShot(block).out, 1, cursor.pos)
  <1>1. /\ block \in Blocks /\ output \in Seq(BytesOf(block))
        /\ stage \in {"header", "codes", "body"}
    BY DEF IInv, Typed
  <1>2. WellFormed(block) /\ Unlimited \in Nat
    BY <1>1, BlockOK
  <1>3. PICK s \in Visits(block) :
          Len(s.out) = cursor.pos /\ Extends(output, s.out)
    <2>1. CASE stage = "header"
      <3>1. /\ output = Earlier(block) /\ cursor.pos = block.start
            /\ Begin(block).out = Earlier(block) /\ Len(Earlier(block)) = block.start
            /\ Earlier(block) \in Seq(BytesOf(block))
        BY <1>2, <2>1, BeginFacts DEF IInv, Preparing
      <3>2. Extends(output, Begin(block).out)
        BY <3>1, SameExtends
      <3> QED
        BY <1>2, <3>1, <3>2, VisitsBegin
    <2>2. CASE stage = "codes"
      <3>1. Keeps(Begin(block))
        BY <2>2 DEF IInv, Preparing
      <3> QED
        BY <1>2, <3>1, VisitsBegin DEF Keeps
    <2>3. CASE stage = "body" /\ result \notin {"done", "error"}
      <3>1. Saved
        BY <2>3 DEF IInv, Decoding
      <3> QED
        BY <3>1 DEF Saved, Keeps
    <2>4. CASE stage = "body" /\ result \in {"done", "error"}
      <3>1. output = OneShot(block).out /\ cursor.pos = Len(output)
        BY <2>4 DEF IInv, Ended
      <3>2. OneShot(block) \in Visits(block)
        <4>1. Turns(block) \in Nat
          BY <1>2, BlockFacts
        <4> QED
          BY <4>1 DEF OneShot, Visits
      <3>3. Extends(output, output)
        BY <1>1, SameExtends
      <3> QED
        BY <3>1, <3>2, <3>3
    <2> QED
      BY <1>1, <2>1, <2>2, <2>3, <2>4
  <1>4. /\ Extends(OneShot(block).out, s.out)
        /\ OneShot(block) \in States(block) /\ s \in States(block)
    BY <1>2, VisitFacts
  <1>5. /\ OneShot(block).out \in Seq(BytesOf(block)) /\ s.out \in Seq(BytesOf(block))
    BY <1>4 DEF States
  <1>6. PICK whole \in Seq(BytesOf(block)) : whole = OneShot(block).out
    BY <1>5
  <1>7. SubSeq(output, 1, cursor.pos) = s.out /\ SubSeq(whole, 1, cursor.pos) = s.out
    BY <1>1, <1>3, <1>4, <1>5, <1>6, Reopened
  <1>8. Len(s.out) <= Len(output) /\ Len(s.out) <= Len(whole) /\ Len(s.out) \in Nat
    BY <1>3, <1>4, <1>5, <1>6 DEF Extends
  <1> QED
    BY <1>1, <1>3, <1>4, <1>6, <1>7, <1>8

\* Pieces of input and stops for room change nothing of what a meta-block
\* decodes to, nor how it ends (incremental.rs:320-321).
THEOREM StepsMirrorOneShot == Spec => []MirrorsOneShot
  <1>1. ASSUME IInv PROVE MirrorsOneShot
    <2>1. block \in Blocks /\ Reference[block] = OneShot(block)
      BY <1>1, CheckpointOutput DEF Reference
    <2>2. /\ cursor.pos <= Len(OneShot(block).out) /\ cursor.pos <= Len(output)
          /\ SubSeq(output, 1, cursor.pos) = SubSeq(OneShot(block).out, 1, cursor.pos)
      BY <1>1, CheckpointOutput
    <2>3. result \in {"done", "error"} =>
            result = OneShot(block).result /\ cursor.pos = Len(OneShot(block).out)
      BY <1>1 DEF IInv, Ended
    <2>4. result = "done" =>
            distances = OneShot(block).ring /\ bit_pos = OneShot(block).at
      BY <1>1 DEF IInv, Ended
    <2> QED
      BY <2>1, <2>2, <2>3, <2>4 DEF MirrorsOneShot
  <1> QED
    BY <1>1, StepsAreTurns, PTL

\* At most one block switch is read again after the input ran out
\* (incremental.rs:6-13, 31-34).
THEOREM OnePartAgain == Spec => []RedecodesOnePart
  <1>1. IInv => RedecodesOnePart
    BY DEF IInv, Behind
  <1> QED
    BY <1>1, StepsAreTurns, PTL
=============================================================================
