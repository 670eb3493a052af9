---------------------------- MODULE ConcatProofs ----------------------------
(***************************************************************************)
(* Theorems of Concat: for any meta-blocks, fragments and limits, and any  *)
(* order of staging and finishing, what is assembled is Brotli and decodes *)
(* to what was staged.                                                     *)
(***************************************************************************)
EXTENDS Concat, TLAPS, SequenceTheorems, FiniteSetTheorems, WellFoundedInduction

(***************************************************************************)
(* Induction, stated of sets.                                              *)
(***************************************************************************)
\* A bounded set of naturals that is not empty has a largest member.
LEMMA BoundedSetHasLargest ==
  ASSUME NEW S \in SUBSET Nat, S # {}, NEW n \in Nat, \A x \in S : x <= n
  PROVE  \E x \in S : \A y \in S : y <= x
  <1> DEFINE Above(x) == {y \in S : y > x}
             Aboves == {Above(x) : x \in S}
  <1>1. Aboves \subseteq FiniteSubsetsOf(S)
    <2>1. IsFiniteSet(S)
      BY FS_BoundedSetOfNaturals
    <2>2. \A x \in S : IsFiniteSet(Above(x))
      BY <2>1, FS_Subset
    <2> QED
      BY <2>2 DEF FiniteSubsetsOf
  <1>2. \E A \in Aboves :
          \A B \in Aboves : ~ (<<B, A>> \in StrictSubsetOrdering(S))
    <2>1. Aboves # {}
      OBVIOUS
    <2> HIDE DEF Aboves
    <2> QED
      BY <1>1, <2>1, FS_StrictSubsetOrderingWellFounded, WFMin
  <1>3. PICK x \in S :
          \A y \in S : ~ (<<Above(y), Above(x)>> \in StrictSubsetOrdering(S))
    BY <1>2
  <1>4. ASSUME NEW y \in S, ~(y <= x)
        PROVE  FALSE
    <2>1. S \subseteq Nat /\ y \in Nat /\ x \in Nat /\ x < y
      BY <1>4
    <2>2. Above(y) \subseteq Above(x) /\ y \in Above(x) /\ y \notin Above(y)
      <3>1. y \in Above(x) /\ y \notin Above(y)
        BY <1>4, <2>1
      <3>2. \A z \in Above(y) : z \in Above(x)
        BY <2>1
      <3> QED
        BY <3>1, <3>2
    <2>3. <<Above(y), Above(x)>> \in StrictSubsetOrdering(S)
      BY <2>2 DEF StrictSubsetOrdering
    <2> QED
      BY <1>3, <2>3
  <1> QED
    BY <1>4

\* Induction.
LEMMA AllNaturals ==
  ASSUME NEW S, 0 \in S, \A n \in Nat : n \in S => n + 1 \in S,
         NEW n \in Nat
  PROVE  n \in S
  <1> SUFFICES ASSUME n \notin S PROVE FALSE
    OBVIOUS
  <1> DEFINE Below == {k \in 0 .. n : k \in S /\ k < n}
  <1>1. n # 0
    OBVIOUS
  <1>2. DEFINE Begun == {k \in Nat : \A j \in 0 .. k : j \in S}
  <1>3. Begun \in SUBSET Nat /\ 0 \in Begun
    OBVIOUS
  <1>4. \A k \in Begun : k <= n
    OBVIOUS
  <1>5. PICK m \in Begun : \A k \in Begun : k <= m
    <2> HIDE DEF Begun
    <2> QED
      BY <1>3, <1>4, BoundedSetHasLargest
  <1>6. m + 1 \in Begun
    <2>1. m \in Nat /\ \A j \in 0 .. m : j \in S
      OBVIOUS
    <2>2. m + 1 \in S
      BY <2>1
    <2>3. \A j \in 0 .. m + 1 : j \in S
      BY <2>1, <2>2
    <2> QED
      BY <2>1, <2>3
  <1>7. m \in Nat /\ m + 1 <= m
    BY <1>5, <1>6
  <1> QED
    BY <1>7

\* Induction up to a bound.
LEMMA UpTo ==
  ASSUME NEW N \in Nat, NEW S, 0 \in S,
         \A n \in Nat : n < N /\ n \in S => n + 1 \in S
  PROVE  \A n \in 0 .. N : n \in S
  <1> DEFINE T == {n \in Nat : n <= N => n \in S}
  <1>1. 0 \in T
    OBVIOUS
  <1>2. \A n \in Nat : n \in T => n + 1 \in T
    OBVIOUS
  <1> HIDE DEF T
  <1>3. \A n \in Nat : n \in T
    BY <1>1, <1>2, AllNaturals
  <1> QED
    BY <1>3 DEF T

(***************************************************************************)
(* Recursion over the first naturals, stated of sets.                      *)
(***************************************************************************)
\* A step from a set to itself, repeated.
Repeats(g, S, N, s, F) ==
  /\ g \in [0 .. N -> S] /\ g[0] = s
  /\ \A i \in 1 .. N : g[i] = F[<<g[i - 1], i>>]

LEMMA Recursion ==
  ASSUME NEW S, NEW N \in Nat, NEW s \in S, NEW F \in [S \X (1 .. N) -> S]
  PROVE  \E g : Repeats(g, S, N, s, F)
  <1> DEFINE Good(g, k) == /\ g \in [0 .. k -> S] /\ g[0] = s
                           /\ \A i \in 1 .. k : g[i] = F[<<g[i - 1], i>>]
             Lengths == {k \in 0 .. N : \E g : Good(g, k)}
  <1>1. 0 \in Lengths
    <2>1. Good([n \in 0 .. 0 |-> s], 0)
      OBVIOUS
    <2>2. 0 \in 0 .. N
      OBVIOUS
    <2> HIDE DEF Good
    <2> QED
      BY <2>1, <2>2
  <1>2. ASSUME NEW k \in Nat, k < N, k \in Lengths PROVE k + 1 \in Lengths
    <2>1. PICK g : Good(g, k)
      BY <1>2
    <2> DEFINE last == F[<<g[k], k + 1>>]
               h == [n \in 0 .. k + 1 |-> IF n = k + 1 THEN last ELSE g[n]]
    <2>2. g \in [0 .. k -> S] /\ g[0] = s /\ \A i \in 1 .. k : g[i] = F[<<g[i - 1], i>>]
      BY <2>1
    <2>3. last \in S
      BY <1>2, <2>2
    <2>4. h \in [0 .. k + 1 -> S]
      <3>1. \A n \in 0 .. k + 1 : n # k + 1 => n \in 0 .. k
        BY <1>2
      <3> HIDE DEF last
      <3> QED
        BY <2>2, <2>3, <3>1
    <2>5. h[0] = s
      BY <1>2, <2>2
    <2>6. ASSUME NEW i \in 1 .. k + 1 PROVE h[i] = F[<<h[i - 1], i>>]
      <3>1. CASE i = k + 1
        <4>1. i - 1 = k /\ k \in 0 .. k + 1 /\ k # k + 1 /\ i \in 0 .. k + 1
          BY <1>2, <3>1
        <4>2. h[i - 1] = g[k] /\ h[i] = last
          BY <3>1, <4>1
        <4> HIDE DEF h
        <4> QED
          BY <3>1, <4>2
      <3>2. CASE i \in 1 .. k
        <4>1. i \in 0 .. k + 1 /\ i # k + 1 /\ i - 1 \in 0 .. k + 1 /\ i - 1 # k + 1
          BY <1>2, <3>2
        <4>2. h[i] = g[i] /\ h[i - 1] = g[i - 1]
          BY <4>1
        <4> HIDE DEF h
        <4> QED
          BY <2>2, <3>2, <4>2
      <3> QED
        BY <1>2, <3>1, <3>2
    <2>7. Good(h, k + 1)
      <3> HIDE DEF h
      <3> QED
        BY <2>4, <2>5, <2>6
    <2>8. k + 1 \in 0 .. N
      BY <1>2
    <2> QED
      <3> HIDE DEF Good, h
      <3> QED
        BY <2>7, <2>8
  <1>3. N \in Lengths
    <2> HIDE DEF Lengths
    <2> QED
      BY <1>1, <1>2, UpTo
  <1>4. PICK g : Good(g, N)
    <2> HIDE DEF Good
    <2> QED
      BY <1>3
  <1>5. Repeats(g, S, N, s, F)
    BY <1>4 DEF Repeats
  <1> QED
    BY <1>5

\* A sequence of values whose first is in a set that the steps do not leave.
LEMMA StaysIn ==
  ASSUME NEW S, NEW N \in Nat, NEW g, g = [i \in 0 .. N |-> g[i]], g[0] \in S,
         \A i \in 1 .. N : g[i - 1] \in S => g[i] \in S
  PROVE  g \in [0 .. N -> S]
  <1> DEFINE T == {i \in 0 .. N : g[i] \in S}
  <1>1. 0 \in T
    OBVIOUS
  <1>2. ASSUME NEW i \in Nat, i < N, i \in T PROVE i + 1 \in T
    <2>1. i + 1 \in 1 .. N /\ (i + 1) - 1 = i /\ i + 1 \in 0 .. N
      BY <1>2
    <2>2. g[i] \in S
      BY <1>2
    <2>3. g[i + 1] \in S
      <3> DEFINE j == i + 1
      <3>1. j \in 1 .. N /\ g[j - 1] \in S
        BY <2>1, <2>2
      <3> HIDE DEF j
      <3>2. g[j] \in S
        BY <3>1
      <3> QED
        BY <3>2 DEF j
    <2> QED
      BY <2>1, <2>3
  <1>3. \A i \in 0 .. N : i \in T
    <2> HIDE DEF T
    <2> QED
      BY <1>1, <1>2, UpTo
  <1> QED
    BY <1>3

(***************************************************************************)
(* Decoders.                                                               *)
(***************************************************************************)
Verdicts == {"reading", "ok", "misread", "overread", "padding", "limit", "last",
             "literal context", "short code", "distance", "trailing data"} \cup Kinds

States == [at : Nat, out : Seq(Int), ring : Rings, copies : BOOLEAN,
           verdict : Verdicts]

LEMMA FreshTyped ==
  ASSUME NEW at \in Nat
  PROVE  Fresh(at) \in States /\ Reading(Fresh(at))
  <1>1. LAST_DISTANCES \in Rings
    BY DEF LAST_DISTANCES, Rings
  <1>2. <<>> \in Seq(Int)
    OBVIOUS
  <1> QED
    BY <1>1, <1>2 DEF Fresh, States, Verdicts, Reading

LEMMA PushTyped ==
  ASSUME NEW ring \in Rings, NEW distance \in Nat \ {0}
  PROVE  Push(ring, distance) \in Rings
  BY DEF Push, Rings

LEMMA ResolveTyped ==
  ASSUME NEW ring \in Rings, NEW symbol \in 0 .. 15
  PROVE  Resolve(ring, symbol) \in Nat
  <1>1. SlotOf(symbol) \in 1 .. 4
    BY DEF SlotOf, Near
  <1>2. OffsetOf(symbol) \in Int
    <2>1. \A i \in 1 .. 6 : Offset[i] \in Int
      BY DEF Offset
    <2>2. symbol >= 4 /\ symbol < 10 => symbol - 3 \in 1 .. 6
      OBVIOUS
    <2>3. symbol >= 10 => symbol - 9 \in 1 .. 6
      OBVIOUS
    <2> QED
      BY <2>1, <2>2, <2>3 DEF OffsetOf
  <1>3. ring[SlotOf(symbol)] \in Nat
    BY <1>1 DEF Rings
  <1> QED
    BY <1>2, <1>3 DEF Resolve

LEMMA CopiedTyped ==
  ASSUME NEW out \in Seq(Int), NEW distance \in 1 .. Len(out), NEW i \in Nat \ {0}
  PROVE  CopiedByte(out, distance, i) \in Int
  <1>1. Len(out) \in Nat /\ \A j \in 1 .. Len(out) : out[j] \in Int
    OBVIOUS
  <1>2. CASE i <= Len(out)
    BY <1>1, <1>2 DEF CopiedByte
  <1>3. CASE i > Len(out)
    <2> DEFINE k == (i - Len(out) - 1) % distance
    <2>1. k \in 0 .. distance - 1
      BY <1>1, <1>3
    <2> HIDE DEF k
    <2>2. Len(out) - distance + 1 + k \in 1 .. Len(out)
      BY <1>1, <2>1
    <2>3. CopiedByte(out, distance, i) = out[Len(out) - distance + 1 + k]
      BY <1>1, <1>3 DEF CopiedByte, k
    <2> QED
      BY <1>1, <2>2, <2>3
  <1> QED
    BY <1>1, <1>2, <1>3

LEMMA StateFields ==
  ASSUME NEW s \in States
  PROVE  /\ s.at \in Nat /\ s.out \in Seq(Int) /\ Len(s.out) \in Nat
         /\ s.ring \in Rings /\ s.copies \in BOOLEAN /\ s.verdict \in Verdicts
         /\ DOMAIN s.out = 1 .. Len(s.out)
         /\ \A why \in Verdicts :
              /\ Refuse(s, why) \in States
              /\ Refuse(s, why).verdict = why
              /\ Refuse(s, why).at = s.at /\ Refuse(s, why).out = s.out
         /\ \A at \in Nat : [s EXCEPT !.at = at] \in States
         /\ \A out \in Seq(Int) : [s EXCEPT !.out = out] \in States
  <1>1. /\ s.at \in Nat /\ s.out \in Seq(Int) /\ s.ring \in Rings
        /\ s.copies \in BOOLEAN /\ s.verdict \in Verdicts
    BY DEF States
  <1>2. Len(s.out) \in Nat /\ DOMAIN s.out = 1 .. Len(s.out)
    BY <1>1, LenProperties
  <1>3. ASSUME NEW why \in Verdicts
        PROVE  /\ Refuse(s, why) \in States
               /\ Refuse(s, why).verdict = why
               /\ Refuse(s, why).at = s.at /\ Refuse(s, why).out = s.out
    BY DEF States, Refuse
  <1>4. \A at \in Nat : [s EXCEPT !.at = at] \in States
    BY DEF States
  <1>5. \A out \in Seq(Int) : [s EXCEPT !.out = out] \in States
    BY DEF States
  <1> QED
    BY <1>1, <1>2, <1>3, <1>4, <1>5

\* The output a copy leaves.
CopyOut(out, distance, len) ==
  [i \in 1 .. Len(out) + len |-> CopiedByte(out, distance, i)]

LEMMA CopyOutTyped ==
  ASSUME NEW out \in Seq(Int), NEW distance \in 1 .. Len(out), NEW len \in Nat
  PROVE  /\ CopyOut(out, distance, len) \in Seq(Int)
         /\ Len(CopyOut(out, distance, len)) = Len(out) + len
  <1>1. Len(out) \in Nat
    OBVIOUS
  <1>2. \A i \in 1 .. Len(out) + len : CopiedByte(out, distance, i) \in Int
    BY <1>1, CopiedTyped
  <1>3. CopyOut(out, distance, len) \in [1 .. Len(out) + len -> Int]
    BY <1>2 DEF CopyOut
  <1>4. Len(out) + len \in Nat
    BY <1>1
  <1> HIDE DEF CopyOut
  <1>5. CopyOut(out, distance, len) \in Seq(Int)
    <2> DEFINE n == Len(out) + len
               c == CopyOut(out, distance, len)
    <2>1. n \in Nat /\ c \in [1 .. n -> Int]
      BY <1>3, <1>4
    <2> HIDE DEF n, c
    <2>2. c \in Seq(Int)
      BY <2>1
    <2> QED
      BY <2>2 DEF c
  <1>6. DOMAIN CopyOut(out, distance, len) = 1 .. Len(out) + len
    BY <1>3
  <1> QED
    BY <1>4, <1>5, <1>6, LenProperties

\* What a copy does, case by case.
LEMMA CopyCases ==
  ASSUME NEW s \in States, NEW op, IsOp(op), ~IsLiteral(op), NEW local \in BOOLEAN
  PROVE  LET distance == IF op.symbol < 16 THEN Resolve(s.ring, op.symbol)
                         ELSE op.distance
             allowed == Smaller(Window, Len(s.out))
             t == Copy(s, op, local)
         IN  /\ t \in States /\ t.at = s.at /\ distance \in Nat /\ allowed \in Nat
             /\ \/ /\ ~(local /\ op.symbol < 16) /\ distance \in 1 .. allowed
                   /\ t.out = CopyOut(s.out, distance, op.len)
                   /\ t.verdict = s.verdict
                \/ /\ ~(local /\ op.symbol < 16) /\ distance > allowed
                   /\ ~(local /\ distance > Len(s.out))
                   /\ t.out = Append(s.out, allowed - distance)
                   /\ t.verdict = s.verdict
                \/ /\ t.verdict \in {"short code", "distance"}
                   /\ \/ local /\ (op.symbol < 16 \/ distance > Len(s.out))
                      \/ distance = 0
  <1> DEFINE distance == IF op.symbol < 16 THEN Resolve(s.ring, op.symbol)
                         ELSE op.distance
             allowed == Smaller(Window, Len(s.out))
             t == Copy(s, op, local)
             copied == [s EXCEPT !.copies = TRUE]
  <1>1. op.symbol \in Nat /\ op.distance \in Nat /\ op.len \in Nat
    BY DEF IsOp
  <1>2. distance \in Nat
    <2>1. CASE op.symbol < 16
      <3>1. op.symbol \in 0 .. 15
        BY <1>1, <2>1
      <3>2. Resolve(s.ring, op.symbol) \in Nat
        BY <3>1, ResolveTyped, StateFields
      <3> QED
        BY <2>1, <3>2
    <2> QED
      BY <1>1, <2>1
  <1>3. allowed \in Nat /\ allowed <= Len(s.out)
    BY ConcatAssumption, StateFields DEF Smaller
  <1>4. /\ copied \in States /\ copied.at = s.at /\ copied.out = s.out
        /\ copied.verdict = s.verdict /\ copied.ring = s.ring
    BY DEF States
  <1> HIDE DEF distance, allowed
  <1>5. CASE local /\ op.symbol < 16
    <2>1. t = Refuse(copied, "short code")
      BY <1>5 DEF Copy
    <2>2. "short code" \in Verdicts
      BY DEF Verdicts
    <2> HIDE DEF t, copied
    <2>3. t \in States /\ t.at = s.at /\ t.verdict = "short code"
      BY <1>4, <2>1, <2>2, StateFields
    <2> QED
      BY <1>2, <1>3, <1>5, <2>3 DEF t, distance, allowed
  <1>6. CASE ~(local /\ op.symbol < 16) /\ distance \in 1 .. allowed
    <2> DEFINE ring == IF op.symbol = 0 THEN s.ring ELSE Push(s.ring, distance)
    <2>1. t = [copied EXCEPT !.out = CopyOut(s.out, distance, op.len), !.ring = ring]
      BY <1>6 DEF Copy, distance, allowed, CopyOut
    <2>2. ring \in Rings
      BY <1>2, <1>6, PushTyped, StateFields
    <2>3. distance \in 1 .. Len(s.out) /\ s.out \in Seq(Int)
      BY <1>3, <1>6, StateFields
    <2>4. CopyOut(s.out, distance, op.len) \in Seq(Int)
      BY <1>1, <2>3, CopyOutTyped
    <2> HIDE DEF t, copied, ring
    <2>5. /\ t \in States /\ t.at = s.at /\ t.verdict = s.verdict
          /\ t.out = CopyOut(s.out, distance, op.len)
      BY <1>4, <2>1, <2>2, <2>4 DEF States
    <2> QED
      BY <1>2, <1>3, <1>6, <2>5 DEF t, distance, allowed
  <1>7. CASE /\ ~(local /\ op.symbol < 16) /\ distance \notin 1 .. allowed
             /\ distance = 0 \/ (local /\ distance > Len(s.out))
    <2>1. t = Refuse(copied, "distance")
      BY <1>7 DEF Copy, distance, allowed
    <2>2. "distance" \in Verdicts
      BY DEF Verdicts
    <2> HIDE DEF t, copied
    <2>3. t \in States /\ t.at = s.at /\ t.verdict = "distance"
      BY <1>4, <2>1, <2>2, StateFields
    <2> QED
      BY <1>2, <1>3, <1>7, <2>3 DEF t, distance, allowed
  <1>8. CASE /\ ~(local /\ op.symbol < 16) /\ distance \notin 1 .. allowed
             /\ ~(distance = 0 \/ (local /\ distance > Len(s.out)))
    <2>1. t = [copied EXCEPT !.out = Append(s.out, allowed - distance)]
      BY <1>8 DEF Copy, distance, allowed
    <2>2. allowed - distance \in Int /\ distance > allowed
      BY <1>2, <1>3, <1>8
    <2>3. Append(s.out, allowed - distance) \in Seq(Int)
      BY <2>2, StateFields
    <2> HIDE DEF t, copied
    <2>4. /\ t \in States /\ t.at = s.at /\ t.verdict = s.verdict
          /\ t.out = Append(s.out, allowed - distance)
      BY <1>4, <2>1, <2>3 DEF States
    <2> QED
      BY <1>2, <1>3, <1>8, <2>2, <2>4 DEF t, distance, allowed
  <1> QED
    BY <1>5, <1>6, <1>7, <1>8 DEF t, distance, allowed

LEMMA OpTyped ==
  ASSUME NEW s \in States, NEW op, IsOp(op), NEW local \in BOOLEAN
  PROVE  /\ Op(s, op, local) \in States /\ Op(s, op, local).at = s.at
         /\ s.verdict # "ok" => Op(s, op, local).verdict # "ok"
         /\ ~Reading(s) => Op(s, op, local) = s
  <1>1. CASE ~Reading(s)
    BY <1>1 DEF Op
  <1>2. CASE Reading(s) /\ IsLiteral(op)
    <2>1. Op(s, op, local) = [s EXCEPT !.out = Append(s.out, op.byte)]
      BY <1>2 DEF Op
    <2>2. Append(s.out, op.byte) \in Seq(Int)
      BY <1>2, StateFields DEF IsOp
    <2> QED
      BY <1>2, <2>1, <2>2 DEF States
  <1>3. CASE Reading(s) /\ ~IsLiteral(op)
    <2>1. Op(s, op, local) = Copy(s, op, local)
      BY <1>3 DEF Op
    <2>2. /\ Copy(s, op, local) \in States /\ Copy(s, op, local).at = s.at
          /\ \/ Copy(s, op, local).verdict = s.verdict
             \/ Copy(s, op, local).verdict \in {"short code", "distance"}
      BY <1>3, CopyCases
    <2> QED
      BY <1>3, <2>1, <2>2
  <1> QED
    BY <1>1, <1>2, <1>3

IsOps(ops) == Len(ops) \in Nat /\ \A i \in 1 .. Len(ops) : IsOp(ops[i])

LEMMA AfterOpsUnfold ==
  ASSUME NEW s \in States, NEW ops, IsOps(ops), NEW local \in BOOLEAN
  PROVE  /\ AfterOps(s, ops, local) \in [0 .. Len(ops) -> States]
         /\ AfterOps(s, ops, local)[0] = s
         /\ \A i \in 1 .. Len(ops) :
              AfterOps(s, ops, local)[i] = Op(AfterOps(s, ops, local)[i - 1], ops[i], local)
  <1> DEFINE N == Len(ops)
             F == [z \in States \X (1 .. N) |-> Op(z[1], ops[z[2]], local)]
             Good(g) == g = [i \in 0 .. N |-> IF i = 0 THEN s
                                              ELSE Op(g[i - 1], ops[i], local)]
             After == AfterOps(s, ops, local)
  <1>1. N \in Nat
    BY DEF IsOps
  <1>2. F \in [States \X (1 .. N) -> States]
    <2>1. \A z \in States \X (1 .. N) : Op(z[1], ops[z[2]], local) \in States
      <3>1. SUFFICES ASSUME NEW x \in States, NEW i \in 1 .. N
                     PROVE  Op(x, ops[i], local) \in States
        OBVIOUS
      <3>2. IsOp(ops[i])
        BY DEF IsOps
      <3> QED
        BY <3>2, OpTyped
    <2> QED
      BY <2>1
  <1>3. PICK g : Repeats(g, States, N, s, F)
    <2> HIDE DEF F, N
    <2> QED
      BY <1>1, <1>2, Recursion
  <1>4. /\ g \in [0 .. N -> States] /\ g[0] = s
        /\ \A i \in 1 .. N : g[i] = Op(g[i - 1], ops[i], local)
    <2>1. /\ g \in [0 .. N -> States] /\ g[0] = s
          /\ \A i \in 1 .. N : g[i] = F[<<g[i - 1], i>>]
      <3> HIDE DEF F, N
      <3> QED
        BY <1>3 DEF Repeats
    <2>2. ASSUME NEW i \in 1 .. N PROVE g[i] = Op(g[i - 1], ops[i], local)
      <3>1. g[i - 1] \in States
        BY <1>1, <2>1
      <3>2. F[<<g[i - 1], i>>] = Op(g[i - 1], ops[i], local)
        BY <3>1
      <3> QED
        BY <2>1, <3>2
    <2> QED
      BY <2>1, <2>2
  <1>5. Good(g)
    <2>1. \A i \in 0 .. N : g[i] = IF i = 0 THEN s ELSE Op(g[i - 1], ops[i], local)
      BY <1>1, <1>4
    <2>2. g = [i \in 0 .. N |-> g[i]]
      BY <1>4
    <2> HIDE DEF N
    <2> QED
      BY <2>1, <2>2
  <1>6. After = CHOOSE h : Good(h)
    BY DEF AfterOps
  <1>7. Good(After)
    <2> HIDE DEF Good, After
    <2> QED
      BY <1>5, <1>6
  <1>8. After = [i \in 0 .. N |-> IF i = 0 THEN s ELSE Op(After[i - 1], ops[i], local)]
    BY <1>7
  <1> HIDE DEF After, N
  <1>9. After[0] = s /\ \A i \in 1 .. N : After[i] = Op(After[i - 1], ops[i], local)
    BY <1>1, <1>8
  <1>10. After \in [0 .. N -> States]
    <2>1. ASSUME NEW i \in 1 .. N, After[i - 1] \in States PROVE After[i] \in States
      <3>1. IsOp(ops[i])
        BY DEF IsOps, N
      <3> QED
        BY <1>9, <2>1, <3>1, OpTyped
    <2>2. After = [i \in 0 .. N |-> After[i]]
      BY <1>8
    <2> HIDE DEF F, Good
    <2>3. After[0] \in States
      BY <1>1, <1>9
    <2>4. \A i \in 1 .. N : After[i - 1] \in States => After[i] \in States
      BY <2>1
    <2>5. N \in Nat
      BY <1>1
    <2> QED
      BY ONLY <2>2, <2>3, <2>4, <2>5, StaysIn
  <1> QED
    BY <1>9, <1>10 DEF After, N

LEMMA BlockFacts ==
  ASSUME NEW name \in DOMAIN MetaBlocks
  PROVE  LET block == MetaBlocks[name]
         IN  /\ block.kind \in Kinds /\ block.last \in BOOLEAN
             /\ block.bits \in Nat \ {0} /\ Len(block.ops) \in Nat
             /\ IsOps(block.ops)
             /\ block.kind = "stored" =>
                  ~block.last /\ \A i \in 1 .. Len(block.ops) : IsLiteral(block.ops[i])
  BY ConcatAssumption DEF IsMetaBlock, IsOps

LEMMA OpsFacts ==
  ASSUME NEW s \in States, NEW ops, IsOps(ops), NEW local \in BOOLEAN
  PROVE  /\ \A i \in 0 .. Len(ops) :
              /\ AfterOps(s, ops, local)[i].at = s.at
              /\ s.verdict # "ok" => AfterOps(s, ops, local)[i].verdict # "ok"
         /\ \A i \in 1 .. Len(ops) :
              Reading(AfterOps(s, ops, local)[i]) => Reading(AfterOps(s, ops, local)[i - 1])
         /\ Reading(AfterOps(s, ops, local)[Len(ops)]) =>
              \A i \in 0 .. Len(ops) : Reading(AfterOps(s, ops, local)[i])
  <1> DEFINE N == Len(ops)
             After == AfterOps(s, ops, local)
  <1>1. /\ N \in Nat /\ After \in [0 .. N -> States] /\ After[0] = s
        /\ \A i \in 1 .. N : After[i] = Op(After[i - 1], ops[i], local)
    BY AfterOpsUnfold DEF IsOps
  <1>2. \A i \in 1 .. N : IsOp(ops[i])
    BY DEF IsOps
  <1> HIDE DEF N, After
  <1>3. ASSUME NEW i \in 1 .. N
        PROVE  /\ After[i].at = After[i - 1].at
               /\ After[i - 1].verdict # "ok" => After[i].verdict # "ok"
               /\ ~Reading(After[i - 1]) => ~Reading(After[i])
    <2>1. After[i - 1] \in States
      BY <1>1
    <2> QED
      BY <1>1, <1>2, <2>1, OpTyped
  <1>4. \A i \in 0 .. N : After[i].at = s.at
                          /\ (s.verdict # "ok" => After[i].verdict # "ok")
    <2> DEFINE T == {i \in 0 .. N : After[i].at = s.at
                                    /\ (s.verdict # "ok" => After[i].verdict # "ok")}
    <2>1. 0 \in T
      BY <1>1
    <2>2. ASSUME NEW i \in Nat, i < N, i \in T PROVE i + 1 \in T
      <3>1. i + 1 \in 1 .. N /\ (i + 1) - 1 = i /\ i + 1 \in 0 .. N
        BY <1>1, <2>2
      <3> QED
        BY <1>3, <2>2, <3>1
    <2> HIDE DEF T
    <2>3. \A i \in 0 .. N : i \in T
      BY <1>1, <2>1, <2>2, UpTo
    <2> QED
      BY <2>3 DEF T
  <1>5. ASSUME Reading(After[N]) PROVE \A i \in 0 .. N : Reading(After[i])
    <2> DEFINE T == {i \in 0 .. N : Reading(After[N - i])}
    <2>1. 0 \in T
      BY <1>1, <1>5
    <2>2. ASSUME NEW i \in Nat, i < N, i \in T PROVE i + 1 \in T
      <3>1. N - i \in 1 .. N /\ (N - i) - 1 = N - (i + 1) /\ i + 1 \in 0 .. N
        BY <1>1, <2>2
      <3>2. Reading(After[N - i])
        BY <2>2
      <3>3. Reading(After[(N - i) - 1])
        BY <1>3, <3>1, <3>2
      <3>4. Reading(After[N - (i + 1)])
        BY <3>1, <3>3
      <3> QED
        BY <3>1, <3>4
    <2> HIDE DEF T
    <2>3. \A i \in 0 .. N : i \in T
      BY <1>1, <2>1, <2>2, UpTo
    <2>4. ASSUME NEW i \in 0 .. N PROVE Reading(After[i])
      <3>1. N - i \in 0 .. N /\ N - (N - i) = i
        BY <1>1
      <3>2. Reading(After[N - (N - i)])
        BY <2>3, <3>1 DEF T
      <3> QED
        BY <3>1, <3>2
    <2> QED
      BY <2>4
  <1> QED
    BY <1>3, <1>4, <1>5 DEF N, After

\* The decoder that begins a meta-block.
LEMMA AfterHeader ==
  ASSUME NEW s \in States, NEW name \in DOMAIN MetaBlocks
  PROVE  LET t == [s EXCEPT !.at = s.at + MetaBlocks[name].bits]
         IN  /\ t \in States /\ t.at = s.at + MetaBlocks[name].bits
             /\ t.out = s.out /\ t.verdict = s.verdict
  <1>1. s.at + MetaBlocks[name].bits \in Nat
    BY StateFields, BlockFacts
  <1> QED
    BY <1>1 DEF States

LEMMA CompressedTyped ==
  ASSUME NEW s \in States, NEW name \in DOMAIN MetaBlocks, NEW local \in BOOLEAN
  PROVE  /\ Compressed(s, name, local) \in States
         /\ Compressed(s, name, local).at = s.at + MetaBlocks[name].bits
         /\ s.verdict # "ok" => Compressed(s, name, local).verdict # "ok"
         /\ Reading(Compressed(s, name, local)) => Reading(s)
  <1> DEFINE ops == MetaBlocks[name].ops
             t == [s EXCEPT !.at = s.at + MetaBlocks[name].bits]
  <1>1. t \in States /\ t.at = s.at + MetaBlocks[name].bits /\ t.verdict = s.verdict
    BY AfterHeader
  <1>2. IsOps(ops) /\ Len(ops) \in Nat
    BY BlockFacts
  <1>3. Compressed(s, name, local) = AfterOps(t, ops, local)[Len(ops)]
    BY DEF Compressed
  <1> HIDE DEF t, ops
  <1>4. /\ AfterOps(t, ops, local) \in [0 .. Len(ops) -> States]
        /\ AfterOps(t, ops, local)[0] = t
    BY <1>1, <1>2, AfterOpsUnfold
  <1>5. Len(ops) \in 0 .. Len(ops) /\ 0 \in 0 .. Len(ops)
    BY <1>2
  <1>6. /\ Compressed(s, name, local).at = t.at
        /\ t.verdict # "ok" => Compressed(s, name, local).verdict # "ok"
        /\ Reading(Compressed(s, name, local)) => Reading(t)
    BY <1>1, <1>2, <1>3, <1>4, <1>5, OpsFacts
  <1> QED
    BY <1>1, <1>3, <1>4, <1>5, <1>6 DEF Reading

(***************************************************************************)
(* Bytes and bits.                                                         *)
(***************************************************************************)
LEMMA AlignFacts ==
  ASSUME NEW bits \in Nat
  PROVE  /\ AlignUp(bits) \in Nat /\ bits <= AlignUp(bits) /\ AlignUp(bits) < bits + 8
         /\ AlignUp(bits) % 8 = 0
  <1> DEFINE q == (bits + 7) \div 8
  <1>1. q \in Nat /\ 8 * q <= bits + 7 /\ bits + 7 < 8 * q + 8
    OBVIOUS
  <1>2. AlignUp(bits) = 8 * q
    BY DEF AlignUp
  <1> HIDE DEF q
  <1>3. (8 * q) % 8 = 0
    BY <1>1
  <1> QED
    BY <1>1, <1>2, <1>3

LEMMA AlignedStart ==
  ASSUME NEW b \in Nat, b % 8 = 0, NEW bits \in Nat
  PROVE  AlignUp(b + bits) = b + AlignUp(bits)
  <1> DEFINE q == b \div 8
  <1>1. q \in Nat /\ b = 8 * q
    OBVIOUS
  <1> HIDE DEF q
  <1>2. (8 * q + bits + 7) \div 8 = q + ((bits + 7) \div 8)
    BY <1>1
  <1> QED
    BY <1>1, <1>2 DEF AlignUp

LEMMA StoredTyped ==
  ASSUME NEW cells, Len(cells) \in Nat, NEW s \in States, s.verdict # "ok",
         NEW name \in DOMAIN MetaBlocks
  PROVE  /\ Stored(cells, s, name) \in States
         /\ Stored(cells, s, name).verdict # "ok"
         /\ Reading(Stored(cells, s, name)) => s.at < Stored(cells, s, name).at
  <1> DEFINE header == MetaBlocks[name].bits
             start == AlignUp(s.at + header)
             data == 8 * Len(MetaBlocks[name].ops)
             c == Compressed(s, name, FALSE)
  <1>1. header \in Nat \ {0} /\ data \in Nat /\ s.at \in Nat
    BY BlockFacts, StateFields
  <1>2. start \in Nat /\ s.at < start
    <2>1. s.at + header \in Nat
      BY <1>1
    <2>2. start \in Nat /\ s.at + header <= start
      BY <2>1, AlignFacts
    <2> HIDE DEF start
    <2> QED
      BY <1>1, <2>2
  <1>3. c \in States /\ c.verdict # "ok"
    BY CompressedTyped
  <1>4. "misread" \in Verdicts /\ "misread" # "ok"
    BY DEF Verdicts
  <1>5. \/ Stored(cells, s, name) = [c EXCEPT !.at = start + data]
        \/ Stored(cells, s, name) = Refuse(s, "misread")
    BY DEF Stored
  <1> HIDE DEF c, start, data, header
  <1>6. CASE Stored(cells, s, name) = [c EXCEPT !.at = start + data]
    <2>1. start + data \in Nat /\ s.at < start + data
      BY <1>1, <1>2
    <2>2. /\ [c EXCEPT !.at = start + data] \in States
          /\ [c EXCEPT !.at = start + data].at = start + data
          /\ [c EXCEPT !.at = start + data].verdict = c.verdict
      BY <1>3, <2>1 DEF States
    <2> QED
      BY <1>3, <1>6, <2>1, <2>2
  <1>7. CASE Stored(cells, s, name) = Refuse(s, "misread")
    BY <1>4, <1>7, StateFields DEF Reading
  <1> QED
    BY <1>5, <1>6, <1>7

\* What a turn that goes on has read.
Reads(cells, s, u, name) ==
  /\ Holds(cells, s.at, name, 1, MetaBlocks[name].bits)
  /\ \/ MetaBlocks[name].kind = "stored" /\ u = Stored(cells, s, name)
     \/ /\ MetaBlocks[name].kind = "compressed" /\ ~MetaBlocks[name].last
        /\ u = Compressed(s, name, TRUE)

\* A turn of the loop over a payload goes on after a stored meta-block, or a
\* compressed one held to itself; it ends well at the end alone.
LEMMA LocalTurnFacts ==
  ASSUME NEW cells, Len(cells) \in Nat, NEW bitLen \in Nat, NEW s \in States
  PROVE  LET u == LocalTurn(cells, bitLen, s)
         IN  /\ u \in States
             /\ ~Reading(s) => u = s
             /\ Reading(s) /\ u.verdict = "ok" => s.at = bitLen /\ u.out = s.out
             /\ Reading(u) =>
                  /\ Reading(s) /\ s.at < bitLen /\ s.at < u.at
                  /\ \E name \in DOMAIN MetaBlocks : Reads(cells, s, u, name)
  <1> DEFINE name == NameAt(cells, s.at)
             u == LocalTurn(cells, bitLen, s)
             t == LocalBlock(cells, s, name)
             misread == name = "none"
                        \/ ~Holds(cells, s.at, name, 1, MetaBlocks[name].bits)
  <1>1. name \in DOMAIN MetaBlocks \cup {"none"}
    BY DEF NameAt
  <1>2. s.at \in Nat
    BY StateFields
  <1>3. \A why \in Verdicts : Refuse(s, why) \in States /\ Refuse(s, why).verdict = why
    BY StateFields
  <1>4. /\ {"ok", "overread", "misread", "limit", "last", "literal context"} \subseteq Verdicts
        /\ Kinds \subseteq Verdicts
    BY DEF Verdicts
  <1>5. CASE ~Reading(s)
    BY <1>5 DEF LocalTurn
  <1>6. CASE Reading(s) /\ s.at = bitLen
    <2>1. u = [s EXCEPT !.verdict = "ok"]
      BY <1>6 DEF LocalTurn
    <2>2. u = Refuse(s, "ok")
      BY <2>1 DEF Refuse
    <2> HIDE DEF u
    <2>3. u \in States /\ u.verdict = "ok" /\ u.out = s.out
      BY <1>4, <2>2, StateFields
    <2> QED
      BY <1>6, <2>3 DEF u, Reading
  <1>7. CASE Reading(s) /\ s.at > bitLen
    <2>1. u = Refuse(s, "overread")
      BY <1>2, <1>7 DEF LocalTurn
    <2> HIDE DEF u
    <2>2. u \in States /\ u.verdict = "overread"
      BY <1>3, <1>4, <2>1
    <2> QED
      BY <1>7, <2>2 DEF u, Reading
  <1>8. CASE Reading(s) /\ s.at < bitLen /\ misread
    <2>1. u = Refuse(s, "misread")
      BY <1>2, <1>8 DEF LocalTurn
    <2> HIDE DEF u
    <2>2. u \in States /\ u.verdict = "misread"
      BY <1>3, <1>4, <2>1
    <2> QED
      BY <1>8, <2>2 DEF u, Reading
  <1>9. CASE Reading(s) /\ s.at < bitLen /\ ~misread
    <2>1. name \in DOMAIN MetaBlocks /\ Holds(cells, s.at, name, 1, MetaBlocks[name].bits)
      BY <1>1, <1>9
    <2>2. u = IF Len(t.out) > InputCeiling THEN Refuse(t, "limit") ELSE t
      BY <1>2, <1>9 DEF LocalTurn
    <2> HIDE DEF u, name
    <2>3. /\ MetaBlocks[name].kind \in Kinds
          /\ MetaBlocks[name].bits \in Nat \ {0}
      BY <2>1, BlockFacts
    <2>4. CASE MetaBlocks[name].kind = "stored"
      <3>1. t = Stored(cells, s, name)
        BY <2>4 DEF LocalBlock
      <3> HIDE DEF t
      <3>2. t \in States /\ t.verdict # "ok" /\ (Reading(t) => s.at < t.at)
        <4>1. s.verdict # "ok"
          BY <1>9 DEF Reading
        <4> QED
          BY <2>1, <3>1, <4>1, StoredTyped
      <3>3. \/ u = t
            \/ u \in States /\ u.verdict = "limit"
        BY <1>4, <2>2, <3>2, StateFields
      <3> QED
        <4>1. Reading(u) => u = t /\ Reading(t)
          BY <3>3 DEF Reading
        <4>2. Reads(cells, s, t, name)
          BY <2>1, <2>4, <3>1 DEF Reads
        <4> QED
          BY <1>9, <2>1, <3>2, <3>3, <4>1, <4>2 DEF u, Reading
    <2>5. CASE /\ MetaBlocks[name].kind = "compressed" /\ ~MetaBlocks[name].last
               /\ MetaBlocks[name].trees = 1
      <3>1. t = Compressed(s, name, TRUE)
        BY <2>5 DEF LocalBlock
      <3> HIDE DEF t
      <3>2. s.at < s.at + MetaBlocks[name].bits
        BY <1>2, <2>3
      <3>3. t \in States /\ t.verdict # "ok" /\ s.at < t.at
        <4>1. s.verdict # "ok"
          BY <1>9 DEF Reading
        <4> QED
          BY <2>1, <3>1, <3>2, <4>1, CompressedTyped
      <3>4. \/ u = t
            \/ u \in States /\ u.verdict = "limit"
        BY <1>4, <2>2, <3>3, StateFields
      <3> QED
        <4>1. Reading(u) => u = t /\ Reading(t)
          BY <3>4 DEF Reading
        <4>2. Reads(cells, s, t, name)
          BY <2>1, <2>5, <3>1 DEF Reads
        <4> QED
          BY <1>9, <2>1, <3>3, <3>4, <4>1, <4>2 DEF u, Reading
    <2>6. CASE /\ MetaBlocks[name].kind # "stored"
               /\ MetaBlocks[name].kind = "compressed" =>
                    MetaBlocks[name].last \/ MetaBlocks[name].trees # 1
      <3>1. \E why \in {"lastEmpty", "metadata", "last", "literal context"} :
              t = Refuse(s, why)
        <4>1. MetaBlocks[name].kind \in {"lastEmpty", "metadata", "compressed"}
          BY <2>3, <2>6 DEF Kinds
        <4>2. CASE MetaBlocks[name].kind = "lastEmpty"
          <5>1. t = Refuse(s, "lastEmpty")
            BY <4>2 DEF LocalBlock
          <5> QED
            BY <5>1
        <4>3. CASE MetaBlocks[name].kind = "metadata"
          <5>1. t = Refuse(s, "metadata")
            BY <4>3 DEF LocalBlock
          <5> QED
            BY <5>1
        <4>4. CASE MetaBlocks[name].kind = "compressed"
          <5>1. t = Refuse(s, "last") \/ t = Refuse(s, "literal context")
            <6>1. /\ ~(MetaBlocks[name].kind \in {"lastEmpty", "metadata"})
                  /\ MetaBlocks[name].kind # "stored"
              BY <4>4
            <6>2. t = IF MetaBlocks[name].last THEN Refuse(s, "last")
                      ELSE IF MetaBlocks[name].trees # 1
                      THEN Refuse(s, "literal context")
                      ELSE Compressed(s, name, TRUE)
              BY <6>1 DEF LocalBlock
            <6>3. MetaBlocks[name].last \/ MetaBlocks[name].trees # 1
              BY <2>6, <4>4
            <6> HIDE DEF t
            <6> QED
              BY <6>2, <6>3
          <5> QED
            BY <5>1
        <4> QED
          BY <4>1, <4>2, <4>3, <4>4
      <3> HIDE DEF t
      <3>2. PICK why \in {"lastEmpty", "metadata", "last", "literal context"} :
              t = Refuse(s, why)
        BY <3>1
      <3>3. why \in Verdicts /\ why \notin {"ok", "reading"}
        BY <1>4 DEF Kinds
      <3>4. t \in States /\ t.verdict \notin {"ok", "reading"}
        BY <1>3, <3>2, <3>3
      <3>5. \/ u = t
            \/ u \in States /\ u.verdict = "limit"
        BY <1>4, <2>2, <3>4, StateFields
      <3> QED
        BY <1>9, <3>4, <3>5 DEF u, Reading
    <2> QED
      BY <2>4, <2>5, <2>6
  <1> QED
    <2>1. s.at = bitLen \/ s.at > bitLen \/ s.at < bitLen
      BY <1>2
    <2> HIDE DEF u, misread
    <2> QED
      BY <1>5, <1>6, <1>7, <1>8, <1>9, <2>1 DEF u

\* Where a meta-block begins, one more has begun.
LEMMA BegunGrows ==
  ASSUME NEW cells, NEW from \in Nat, NEW to \in Nat, from <= to
  PROVE  /\ BlocksBegun(cells, from) \in Nat /\ BlocksBegun(cells, to) \in Nat
         /\ BlocksBegun(cells, from) <= BlocksBegun(cells, to)
         /\ from < to /\ NameAt(cells, from) # "none" =>
              BlocksBegun(cells, from) + 1 <= BlocksBegun(cells, to)
  <1> DEFINE A == {i \in 1 .. from : NameAt(cells, i - 1) # "none"}
             B == {i \in 1 .. to : NameAt(cells, i - 1) # "none"}
  <1>1. A \subseteq B /\ A \subseteq 1 .. from /\ B \subseteq 1 .. to
    OBVIOUS
  <1>2. from + 1 \notin A
    OBVIOUS
  <1>3. ASSUME from < to, NameAt(cells, from) # "none" PROVE from + 1 \in B
    <2>1. from + 1 \in 1 .. to /\ (from + 1) - 1 = from
      BY <1>3
    <2> QED
      BY <1>3, <2>1
  <1>4. BlocksBegun(cells, from) = Cardinality(A) /\ BlocksBegun(cells, to) = Cardinality(B)
    BY DEF BlocksBegun
  <1> HIDE DEF A, B
  <1>5. IsFiniteSet(A) /\ IsFiniteSet(B)
    <2>1. IsFiniteSet(1 .. from) /\ IsFiniteSet(1 .. to)
      BY FS_Interval
    <2> QED
      BY <1>1, <2>1, FS_Subset
  <1>6. Cardinality(A) \in Nat /\ Cardinality(B) \in Nat
    BY <1>5, FS_CardinalityType
  <1>7. Cardinality(A) <= Cardinality(B)
    BY <1>1, <1>5, FS_Subset
  <1>8. ASSUME from + 1 \in B PROVE Cardinality(A) + 1 <= Cardinality(B)
    <2>1. Cardinality(A \cup {from + 1}) = Cardinality(A) + 1
      BY <1>2, <1>5, FS_AddElement
    <2>2. A \cup {from + 1} \in SUBSET B
      BY <1>1, <1>8
    <2>3. Cardinality(A \cup {from + 1}) <= Cardinality(B)
      BY <1>5, <2>2, FS_Subset
    <2> QED
      BY <2>1, <2>3
  <1> QED
    BY <1>3, <1>4, <1>6, <1>7, <1>8

\* The last index of the loops over a payload or a stream.
MaxTurns(cells) == BlocksBegun(cells, Len(cells)) + 1

LEMMA MaxTurnsTyped ==
  ASSUME NEW cells, Len(cells) \in Nat
  PROVE  MaxTurns(cells) \in Nat \ {0}
  <1>1. BlocksBegun(cells, Len(cells)) \in Nat
    BY BegunGrows
  <1> QED
    BY <1>1 DEF MaxTurns

LEMMA LocalTurnsUnfold ==
  ASSUME NEW cells, Len(cells) \in Nat, NEW bitLen \in Nat
  PROVE  /\ LocalTurns(cells, bitLen) \in [0 .. MaxTurns(cells) -> States]
         /\ LocalTurns(cells, bitLen)[0] = Fresh(0)
         /\ \A i \in 1 .. MaxTurns(cells) :
              LocalTurns(cells, bitLen)[i]
                = LocalTurn(cells, bitLen, LocalTurns(cells, bitLen)[i - 1])
  <1> DEFINE N == MaxTurns(cells)
             F == [z \in States \X (1 .. N) |-> LocalTurn(cells, bitLen, z[1])]
             Good(g) == g = [i \in 0 .. N |-> IF i = 0 THEN Fresh(0)
                                              ELSE LocalTurn(cells, bitLen, g[i - 1])]
             After == LocalTurns(cells, bitLen)
  <1>1. N \in Nat /\ Fresh(0) \in States
    BY FreshTyped, MaxTurnsTyped
  <1>2. ASSUME NEW x \in States, NEW i \in 1 .. N
        PROVE  LocalTurn(cells, bitLen, x) \in States
    BY LocalTurnFacts
  <1>3. PICK g : Repeats(g, States, N, Fresh(0), F)
    <2>1. F \in [States \X (1 .. N) -> States]
      BY <1>2
    <2> HIDE DEF F, N
    <2> QED
      BY <1>1, <2>1, Recursion
  <1>4. /\ g \in [0 .. N -> States] /\ g[0] = Fresh(0)
        /\ \A i \in 1 .. N : g[i] = LocalTurn(cells, bitLen, g[i - 1])
    <2>1. /\ g \in [0 .. N -> States] /\ g[0] = Fresh(0)
          /\ \A i \in 1 .. N : g[i] = F[<<g[i - 1], i>>]
      <3> HIDE DEF F, N
      <3> QED
        BY <1>3 DEF Repeats
    <2>2. ASSUME NEW i \in 1 .. N PROVE g[i] = LocalTurn(cells, bitLen, g[i - 1])
      <3>1. g[i - 1] \in States
        <4> HIDE DEF N, F
        <4> QED
          BY <1>1, <2>1
      <3>2. F[<<g[i - 1], i>>] = LocalTurn(cells, bitLen, g[i - 1])
        <4> HIDE DEF N
        <4> QED
          BY <3>1
      <3> QED
        BY <2>1, <3>2
    <2> HIDE DEF F, N
    <2> QED
      BY <2>1, <2>2
  <1>5. Good(g)
    <2> HIDE DEF N
    <2>1. ASSUME NEW i \in 0 .. N
          PROVE  g[i] = IF i = 0 THEN Fresh(0) ELSE LocalTurn(cells, bitLen, g[i - 1])
      <3>1. CASE i = 0
        BY <1>4, <3>1
      <3>2. CASE i # 0
        <4>1. i \in 1 .. N
          BY <1>1, <3>2
        <4> QED
          BY <1>4, <3>2, <4>1
      <3> QED
        BY <3>1, <3>2
    <2>2. g = [i \in 0 .. N |-> g[i]]
      BY <1>4
    <2> QED
      BY <2>1, <2>2
  <1>6. After = CHOOSE h : Good(h)
    BY DEF LocalTurns, MaxTurns
  <1>7. Good(After)
    <2> HIDE DEF Good, After
    <2> QED
      BY <1>5, <1>6
  <1>8. After = [i \in 0 .. N |-> IF i = 0 THEN Fresh(0)
                                  ELSE LocalTurn(cells, bitLen, After[i - 1])]
    BY <1>7
  <1> HIDE DEF After, N
  <1>9. After[0] = Fresh(0) /\ \A i \in 1 .. N : After[i] = LocalTurn(cells, bitLen, After[i - 1])
    <2>1. \A i \in 0 .. N :
            After[i] = IF i = 0 THEN Fresh(0) ELSE LocalTurn(cells, bitLen, After[i - 1])
      BY <1>8
    <2>2. 0 \in 0 .. N /\ \A i \in 1 .. N : i \in 0 .. N /\ i # 0
      BY <1>1
    <2>3. ASSUME NEW i \in 1 .. N PROVE After[i] = LocalTurn(cells, bitLen, After[i - 1])
      <3>1. i \in 0 .. N /\ i # 0
        BY <2>2
      <3> QED
        BY <2>1, <3>1
    <2> QED
      BY <2>1, <2>2, <2>3
  <1>10. After \in [0 .. N -> States]
    <2>1. ASSUME NEW i \in 1 .. N, After[i - 1] \in States PROVE After[i] \in States
      BY <1>2, <1>9, <2>1
    <2>2. After = [i \in 0 .. N |-> After[i]]
      BY <1>8
    <2> HIDE DEF F, Good
    <2>3. After[0] \in States
      BY <1>1, <1>9
    <2>4. \A i \in 1 .. N : After[i - 1] \in States => After[i] \in States
      BY <2>1
    <2>5. N \in Nat
      BY <1>1
    <2> QED
      BY ONLY <2>2, <2>3, <2>4, <2>5, StaysIn
  <1> QED
    BY <1>9, <1>10 DEF After, N

LEMMA SkipTyped ==
  ASSUME NEW cells, NEW s \in States, NEW name \in DOMAIN MetaBlocks
  PROVE  SkipMetadata(cells, s, name) \in States
  <1> DEFINE end == AlignUp(s.at + MetaBlocks[name].bits)
  <1>1. s.at + MetaBlocks[name].bits \in Nat
    BY StateFields, BlockFacts
  <1>2. end \in Nat
    BY <1>1, AlignFacts
  <1>3. "misread" \in Verdicts
    BY DEF Verdicts
  <1>4. \/ SkipMetadata(cells, s, name) = [s EXCEPT !.at = end]
        \/ SkipMetadata(cells, s, name) = Refuse(s, "misread")
    BY DEF SkipMetadata
  <1> HIDE DEF end
  <1> QED
    BY <1>2, <1>3, <1>4, StateFields

LEMMA TurnTyped ==
  ASSUME NEW cells, Len(cells) \in Nat, NEW s \in States
  PROVE  Turn(cells, s) \in States /\ (~Reading(s) => Turn(cells, s) = s)
  <1> DEFINE name == NameAt(cells, s.at)
             t == NextBlock(cells, s, name)
             misread == name = "none"
                        \/ ~Holds(cells, s.at, name, 1, MetaBlocks[name].bits)
  <1>1. name \in DOMAIN MetaBlocks \cup {"none"}
    BY DEF NameAt
  <1>2. {"ok", "misread", "trailing data"} \subseteq Verdicts
    BY DEF Verdicts
  <1>3. CASE ~Reading(s)
    BY <1>3 DEF Turn
  <1>4. CASE Reading(s) /\ misread
    <2>1. Turn(cells, s) = Refuse(s, "misread")
      BY <1>4 DEF Turn
    <2>2. Refuse(s, "misread") \in States
      BY <1>2, StateFields
    <2> HIDE DEF misread
    <2> QED
      BY <1>4, <2>1, <2>2
  <1>5. CASE Reading(s) /\ ~misread
    <2>1. name \in DOMAIN MetaBlocks
      BY <1>1, <1>5
    <2>2. Turn(cells, s) = IF Reading(t) /\ MetaBlocks[name].last
                           THEN EndStream(cells, t) ELSE t
      BY <1>5 DEF Turn
    <2>3. t \in States
      <3>1. s.verdict # "ok"
        BY <1>5 DEF Reading
      <3>2. t \in {Stored(cells, s, name), SkipMetadata(cells, s, name),
                   Compressed(s, name, FALSE)}
        BY DEF NextBlock
      <3> HIDE DEF t, name
      <3>3. Stored(cells, s, name) \in States
        BY <2>1, <3>1, StoredTyped
      <3>4. SkipMetadata(cells, s, name) \in States
        BY <2>1, SkipTyped
      <3>5. Compressed(s, name, FALSE) \in States
        BY <2>1, CompressedTyped
      <3> QED
        BY <3>2, <3>3, <3>4, <3>5
    <2> HIDE DEF t, name
    <2>4. EndStream(cells, t) \in States
      <3>1. \/ EndStream(cells, t) = Refuse(t, "ok")
            \/ EndStream(cells, t) = Refuse(t, "trailing data")
        BY DEF EndStream, Refuse
      <3>2. Refuse(t, "ok") \in States /\ Refuse(t, "trailing data") \in States
        BY <1>2, <2>3, StateFields
      <3> QED
        BY <3>1, <3>2
    <2> QED
      BY <1>5, <2>2, <2>3, <2>4
  <1> QED
    BY <1>3, <1>4, <1>5

LEMMA TurnsUnfold ==
  ASSUME NEW cells, Len(cells) \in Nat, NEW s \in States
  PROVE  /\ Turns(cells, s) \in [0 .. MaxTurns(cells) -> States]
         /\ Turns(cells, s)[0] = s
         /\ \A i \in 1 .. MaxTurns(cells) :
              Turns(cells, s)[i] = Turn(cells, Turns(cells, s)[i - 1])
  <1> DEFINE N == MaxTurns(cells)
             F == [z \in States \X (1 .. N) |-> Turn(cells, z[1])]
             Good(g) == g = [i \in 0 .. N |-> IF i = 0 THEN s
                                              ELSE Turn(cells, g[i - 1])]
             After == Turns(cells, s)
  <1>1. N \in Nat /\ s \in States
    BY MaxTurnsTyped
  <1>2. ASSUME NEW x \in States, NEW i \in 1 .. N
        PROVE  Turn(cells, x) \in States
    BY TurnTyped
  <1>3. PICK g : Repeats(g, States, N, s, F)
    <2>1. F \in [States \X (1 .. N) -> States]
      BY <1>2
    <2> HIDE DEF F, N
    <2> QED
      BY <1>1, <2>1, Recursion
  <1>4. /\ g \in [0 .. N -> States] /\ g[0] = s
        /\ \A i \in 1 .. N : g[i] = Turn(cells, g[i - 1])
    <2>1. /\ g \in [0 .. N -> States] /\ g[0] = s
          /\ \A i \in 1 .. N : g[i] = F[<<g[i - 1], i>>]
      <3> HIDE DEF F, N
      <3> QED
        BY <1>3 DEF Repeats
    <2>2. ASSUME NEW i \in 1 .. N PROVE g[i] = Turn(cells, g[i - 1])
      <3>1. g[i - 1] \in States
        <4> HIDE DEF N, F
        <4> QED
          BY <1>1, <2>1
      <3>2. F[<<g[i - 1], i>>] = Turn(cells, g[i - 1])
        <4> HIDE DEF N
        <4> QED
          BY <3>1
      <3> QED
        BY <2>1, <3>2
    <2> HIDE DEF F, N
    <2> QED
      BY <2>1, <2>2
  <1>5. Good(g)
    <2> HIDE DEF N
    <2>1. ASSUME NEW i \in 0 .. N
          PROVE  g[i] = IF i = 0 THEN s ELSE Turn(cells, g[i - 1])
      <3>1. CASE i = 0
        BY <1>4, <3>1
      <3>2. CASE i # 0
        <4>1. i \in 1 .. N
          BY <1>1, <3>2
        <4> QED
          BY <1>4, <3>2, <4>1
      <3> QED
        BY <3>1, <3>2
    <2>2. g = [i \in 0 .. N |-> g[i]]
      BY <1>4
    <2> QED
      BY <2>1, <2>2
  <1>6. After = CHOOSE h : Good(h)
    BY DEF Turns, MaxTurns
  <1>7. Good(After)
    <2> HIDE DEF Good, After
    <2> QED
      BY <1>5, <1>6
  <1>8. After = [i \in 0 .. N |-> IF i = 0 THEN s ELSE Turn(cells, After[i - 1])]
    BY <1>7
  <1> HIDE DEF After, N
  <1>9. After[0] = s /\ \A i \in 1 .. N : After[i] = Turn(cells, After[i - 1])
    <2>1. \A i \in 0 .. N : After[i] = IF i = 0 THEN s ELSE Turn(cells, After[i - 1])
      BY <1>8
    <2>2. 0 \in 0 .. N /\ \A i \in 1 .. N : i \in 0 .. N /\ i # 0
      BY <1>1
    <2>3. ASSUME NEW i \in 1 .. N PROVE After[i] = Turn(cells, After[i - 1])
      <3>1. i \in 0 .. N /\ i # 0
        BY <2>2
      <3> QED
        BY <2>1, <3>1
    <2> QED
      BY <2>1, <2>2, <2>3
  <1>10. After \in [0 .. N -> States]
    <2>1. ASSUME NEW i \in 1 .. N, After[i - 1] \in States PROVE After[i] \in States
      BY <1>2, <1>9, <2>1
    <2>2. After = [i \in 0 .. N |-> After[i]]
      BY <1>8
    <2> HIDE DEF F, Good
    <2>3. After[0] \in States
      BY <1>1, <1>9
    <2>4. \A i \in 1 .. N : After[i - 1] \in States => After[i] \in States
      BY <2>1
    <2>5. N \in Nat
      BY <1>1
    <2> QED
      BY ONLY <2>2, <2>3, <2>4, <2>5, StaysIn
  <1> QED
    BY <1>9, <1>10 DEF After, N

(***************************************************************************)
(* Writers.                                                                *)
(***************************************************************************)
LEMMA CellsTyped ==
  ASSUME NEW name \in (DOMAIN MetaBlocks) \cup {"header"}, NEW from \in Nat, NEW to \in Nat,
         from <= to + 1
  PROVE  /\ Cells(name, from, to) \in Seq(Cell)
         /\ Len(Cells(name, from, to)) = to - from + 1
         /\ \A i \in 1 .. to - from + 1 : Cells(name, from, to)[i] = <<name, from + i - 1>>
  <1> DEFINE n == to - from + 1
             c == Cells(name, from, to)
  <1>1. n \in Nat
    OBVIOUS
  <1>2. c = [i \in 1 .. n |-> <<name, from + i - 1>>]
    BY DEF Cells
  <1>3. \A i \in 1 .. n : <<name, from + i - 1>> \in Cell
    BY DEF Cell
  <1> HIDE DEF n, c
  <1>4. c \in [1 .. n -> Cell]
    BY <1>2, <1>3
  <1>5. c \in Seq(Cell) /\ Len(c) = n
    BY <1>1, <1>4
  <1>6. \A i \in 1 .. n : c[i] = <<name, from + i - 1>>
    BY <1>2
  <1> QED
    BY <1>5, <1>6 DEF n, c

LEMMA PaddedTyped ==
  ASSUME NEW cells \in Seq(Cell)
  PROVE  /\ Padded(cells) \in Seq(Cell) /\ Len(Padded(cells)) = AlignUp(Len(cells))
         /\ \A j \in 1 .. Len(cells) : Padded(cells)[j] = cells[j]
         /\ \A j \in Len(cells) + 1 .. AlignUp(Len(cells)) : Padded(cells)[j] = Zero
  <1> DEFINE n == AlignUp(Len(cells)) - Len(cells)
             pad == [i \in 1 .. n |-> Zero]
  <1>1. Len(cells) \in Nat
    OBVIOUS
  <1>2. n \in Nat /\ AlignUp(Len(cells)) = Len(cells) + n
    <2>1. AlignUp(Len(cells)) \in Nat /\ Len(cells) <= AlignUp(Len(cells))
      BY <1>1, AlignFacts
    <2> QED
      BY <1>1, <2>1
  <1>3. Padded(cells) = cells \o pad
    BY DEF Padded
  <1> HIDE DEF n
  <1>4. pad \in [1 .. n -> Cell]
    BY DEF Cell
  <1>5. pad \in Seq(Cell) /\ Len(pad) = n
    <2> HIDE DEF pad
    <2> QED
      BY <1>2, <1>4
  <1>6. \A i \in 1 .. n : pad[i] = Zero
    OBVIOUS
  <1> HIDE DEF pad
  <1>7. /\ cells \o pad \in Seq(Cell) /\ Len(cells \o pad) = Len(cells) + n
        /\ \A i \in 1 .. Len(cells) + n :
             (cells \o pad)[i] = IF i <= Len(cells) THEN cells[i] ELSE pad[i - Len(cells)]
    BY <1>5, ConcatProperties
  <1> QED
    BY <1>1, <1>2, <1>3, <1>6, <1>7

\* The cells of c, then maybe others.
Begins(g, c) == Len(c) <= Len(g) /\ \A j \in 1 .. Len(c) : g[j] = c[j]

LEMMA BeginsTransitive ==
  ASSUME NEW a \in Seq(Cell), NEW b \in Seq(Cell), NEW c \in Seq(Cell),
         Begins(a, b), Begins(b, c)
  PROVE  Begins(a, c)
  <1>1. Len(a) \in Nat /\ Len(b) \in Nat /\ Len(c) \in Nat
    OBVIOUS
  <1> QED
    BY <1>1 DEF Begins

LEMMA WrittenTyped ==
  ASSUME NEW cells \in Seq(Cell), NEW name \in DOMAIN MetaBlocks
  PROVE  /\ Written(cells, name) \in Seq(Cell)
         /\ Len(Written(cells, name)) = Len(cells) + MetaBlocks[name].bits
         /\ Begins(Written(cells, name), cells)
         /\ \A i \in 1 .. MetaBlocks[name].bits :
              Written(cells, name)[Len(cells) + i] = <<name, i>>
  <1> DEFINE n == MetaBlocks[name].bits
             c == Cells(name, 1, n)
  <1>1. n \in Nat /\ Len(cells) \in Nat
    BY BlockFacts
  <1> HIDE DEF n
  <1>2. c \in Seq(Cell) /\ Len(c) = n /\ \A i \in 1 .. n : c[i] = <<name, i>>
    <2>1. n - 1 + 1 = n /\ \A i \in 1 .. n : 1 + i - 1 = i
      BY <1>1
    <2>2. name \in (DOMAIN MetaBlocks) \cup {"header"} /\ 1 \in Nat /\ 1 <= n + 1
      BY <1>1
    <2>3. /\ Cells(name, 1, n) \in Seq(Cell) /\ Len(Cells(name, 1, n)) = n - 1 + 1
          /\ \A i \in 1 .. n - 1 + 1 : Cells(name, 1, n)[i] = <<name, 1 + i - 1>>
      BY ONLY <1>1, <2>2, CellsTyped
    <2>4. /\ c \in Seq(Cell) /\ Len(c) = n - 1 + 1
          /\ \A i \in 1 .. n - 1 + 1 : c[i] = <<name, 1 + i - 1>>
      BY <2>3
    <2> HIDE DEF c
    <2> QED
      BY <1>1, <2>1, <2>4
  <1>3. Written(cells, name) = cells \o c
    BY DEF Written, n
  <1> HIDE DEF c
  <1>4. /\ cells \o c \in Seq(Cell) /\ Len(cells \o c) = Len(cells) + n
        /\ \A i \in 1 .. Len(cells) + n :
             (cells \o c)[i] = IF i <= Len(cells) THEN cells[i] ELSE c[i - Len(cells)]
    BY <1>2, ConcatProperties
  <1>5. Begins(cells \o c, cells)
    BY <1>1, <1>4 DEF Begins
  <1>6. \A i \in 1 .. n : (cells \o c)[Len(cells) + i] = <<name, i>>
    BY <1>1, <1>2, <1>4
  <1> QED
    BY <1>3, <1>4, <1>5, <1>6 DEF n

LEMMA BlocksUnfold ==
  ASSUME NEW cells \in Seq(Cell), NEW names \in Seq(DOMAIN MetaBlocks)
  PROVE  /\ AfterBlocks(cells, names) \in [0 .. Len(names) -> Seq(Cell)]
         /\ AfterBlocks(cells, names)[0] = cells
         /\ \A i \in 1 .. Len(names) :
              AfterBlocks(cells, names)[i] = Written(AfterBlocks(cells, names)[i - 1], names[i])
  <1> DEFINE N == Len(names)
             F == [z \in Seq(Cell) \X (1 .. N) |-> Written(z[1], names[z[2]])]
             Good(g) == g = [i \in 0 .. N |-> IF i = 0 THEN cells
                                              ELSE Written(g[i - 1], names[i])]
             After == AfterBlocks(cells, names)
  <1>1. N \in Nat /\ cells \in Seq(Cell)
    OBVIOUS
  <1>2. ASSUME NEW x \in Seq(Cell), NEW i \in 1 .. N
        PROVE  Written(x, names[i]) \in Seq(Cell)
    <2>1. names[i] \in DOMAIN MetaBlocks
      OBVIOUS
    <2> QED
      BY <2>1, WrittenTyped
  <1>3. PICK g : Repeats(g, Seq(Cell), N, cells, F)
    <2>1. F \in [Seq(Cell) \X (1 .. N) -> Seq(Cell)]
      BY <1>2
    <2> HIDE DEF F, N
    <2> QED
      BY <1>1, <2>1, Recursion
  <1>4. /\ g \in [0 .. N -> Seq(Cell)] /\ g[0] = cells
        /\ \A i \in 1 .. N : g[i] = Written(g[i - 1], names[i])
    <2>1. /\ g \in [0 .. N -> Seq(Cell)] /\ g[0] = cells
          /\ \A i \in 1 .. N : g[i] = F[<<g[i - 1], i>>]
      <3> HIDE DEF F, N
      <3> QED
        BY <1>3 DEF Repeats
    <2>2. ASSUME NEW i \in 1 .. N PROVE g[i] = Written(g[i - 1], names[i])
      <3>1. g[i - 1] \in Seq(Cell)
        <4> HIDE DEF N, F
        <4> QED
          BY <1>1, <2>1
      <3>2. F[<<g[i - 1], i>>] = Written(g[i - 1], names[i])
        <4> HIDE DEF N
        <4> QED
          BY <3>1
      <3> QED
        BY <2>1, <3>2
    <2> HIDE DEF F, N
    <2> QED
      BY <2>1, <2>2
  <1>5. Good(g)
    <2> HIDE DEF N
    <2>1. ASSUME NEW i \in 0 .. N
          PROVE  g[i] = IF i = 0 THEN cells ELSE Written(g[i - 1], names[i])
      <3>1. CASE i = 0
        BY <1>4, <3>1
      <3>2. CASE i # 0
        <4>1. i \in 1 .. N
          BY <1>1, <3>2
        <4> QED
          BY <1>4, <3>2, <4>1
      <3> QED
        BY <3>1, <3>2
    <2>2. g = [i \in 0 .. N |-> g[i]]
      BY <1>4
    <2> QED
      BY <2>1, <2>2
  <1>6. After = CHOOSE h : Good(h)
    BY DEF AfterBlocks
  <1>7. Good(After)
    <2> HIDE DEF Good, After
    <2> QED
      BY <1>5, <1>6
  <1>8. After = [i \in 0 .. N |-> IF i = 0 THEN cells ELSE Written(After[i - 1], names[i])]
    BY <1>7
  <1> HIDE DEF After, N
  <1>9. After[0] = cells /\ \A i \in 1 .. N : After[i] = Written(After[i - 1], names[i])
    <2>1. \A i \in 0 .. N : After[i] = IF i = 0 THEN cells ELSE Written(After[i - 1], names[i])
      BY <1>8
    <2>2. 0 \in 0 .. N /\ \A i \in 1 .. N : i \in 0 .. N /\ i # 0
      BY <1>1
    <2>3. ASSUME NEW i \in 1 .. N PROVE After[i] = Written(After[i - 1], names[i])
      <3>1. i \in 0 .. N /\ i # 0
        BY <2>2
      <3> QED
        BY <2>1, <3>1
    <2> QED
      BY <2>1, <2>2, <2>3
  <1>10. After \in [0 .. N -> Seq(Cell)]
    <2>1. ASSUME NEW i \in 1 .. N, After[i - 1] \in Seq(Cell) PROVE After[i] \in Seq(Cell)
      BY <1>2, <1>9, <2>1
    <2>2. After = [i \in 0 .. N |-> After[i]]
      BY <1>8
    <2> HIDE DEF F, Good
    <2>3. After[0] \in Seq(Cell)
      BY <1>1, <1>9
    <2>4. \A i \in 1 .. N : After[i - 1] \in Seq(Cell) => After[i] \in Seq(Cell)
      BY <2>1
    <2>5. N \in Nat
      BY <1>1
    <2> QED
      BY ONLY <2>2, <2>3, <2>4, <2>5, StaysIn
  <1> QED
    BY <1>9, <1>10 DEF After, N

LEMMA ContentsUnfold ==
  ASSUME NEW names \in Seq(DOMAIN MetaBlocks)
  PROVE  /\ AfterContents(names) \in [0 .. Len(names) -> States]
         /\ AfterContents(names)[0] = Fresh(0)
         /\ \A i \in 1 .. Len(names) :
              AfterContents(names)[i] = Compressed(AfterContents(names)[i - 1], names[i], TRUE)
  <1> DEFINE N == Len(names)
             F == [z \in States \X (1 .. N) |-> Compressed(z[1], names[z[2]], TRUE)]
             Good(g) == g = [i \in 0 .. N |-> IF i = 0 THEN Fresh(0)
                                              ELSE Compressed(g[i - 1], names[i], TRUE)]
             After == AfterContents(names)
  <1>1. N \in Nat /\ Fresh(0) \in States
    BY FreshTyped
  <1>2. ASSUME NEW x \in States, NEW i \in 1 .. N
        PROVE  Compressed(x, names[i], TRUE) \in States
    <2>1. names[i] \in DOMAIN MetaBlocks
      OBVIOUS
    <2> QED
      BY <2>1, CompressedTyped
  <1>3. PICK g : Repeats(g, States, N, Fresh(0), F)
    <2>1. F \in [States \X (1 .. N) -> States]
      BY <1>2
    <2> HIDE DEF F, N
    <2> QED
      BY <1>1, <2>1, Recursion
  <1>4. /\ g \in [0 .. N -> States] /\ g[0] = Fresh(0)
        /\ \A i \in 1 .. N : g[i] = Compressed(g[i - 1], names[i], TRUE)
    <2>1. /\ g \in [0 .. N -> States] /\ g[0] = Fresh(0)
          /\ \A i \in 1 .. N : g[i] = F[<<g[i - 1], i>>]
      <3> HIDE DEF F, N
      <3> QED
        BY <1>3 DEF Repeats
    <2>2. ASSUME NEW i \in 1 .. N PROVE g[i] = Compressed(g[i - 1], names[i], TRUE)
      <3>1. g[i - 1] \in States
        <4> HIDE DEF N, F
        <4> QED
          BY <1>1, <2>1
      <3>2. F[<<g[i - 1], i>>] = Compressed(g[i - 1], names[i], TRUE)
        <4> HIDE DEF N
        <4> QED
          BY <3>1
      <3> QED
        BY <2>1, <3>2
    <2> HIDE DEF F, N
    <2> QED
      BY <2>1, <2>2
  <1>5. Good(g)
    <2> HIDE DEF N
    <2>1. ASSUME NEW i \in 0 .. N
          PROVE  g[i] = IF i = 0 THEN Fresh(0) ELSE Compressed(g[i - 1], names[i], TRUE)
      <3>1. CASE i = 0
        BY <1>4, <3>1
      <3>2. CASE i # 0
        <4>1. i \in 1 .. N
          BY <1>1, <3>2
        <4> QED
          BY <1>4, <3>2, <4>1
      <3> QED
        BY <3>1, <3>2
    <2>2. g = [i \in 0 .. N |-> g[i]]
      BY <1>4
    <2> QED
      BY <2>1, <2>2
  <1>6. After = CHOOSE h : Good(h)
    BY DEF AfterContents
  <1>7. Good(After)
    <2> HIDE DEF Good, After
    <2> QED
      BY <1>5, <1>6
  <1>8. After = [i \in 0 .. N |-> IF i = 0 THEN Fresh(0)
                                  ELSE Compressed(After[i - 1], names[i], TRUE)]
    BY <1>7
  <1> HIDE DEF After, N
  <1>9. After[0] = Fresh(0) /\ \A i \in 1 .. N : After[i] = Compressed(After[i - 1], names[i], TRUE)
    <2>1. \A i \in 0 .. N :
            After[i] = IF i = 0 THEN Fresh(0) ELSE Compressed(After[i - 1], names[i], TRUE)
      BY <1>8
    <2>2. 0 \in 0 .. N /\ \A i \in 1 .. N : i \in 0 .. N /\ i # 0
      BY <1>1
    <2>3. ASSUME NEW i \in 1 .. N PROVE After[i] = Compressed(After[i - 1], names[i], TRUE)
      <3>1. i \in 0 .. N /\ i # 0
        BY <2>2
      <3> QED
        BY <2>1, <3>1
    <2> QED
      BY <2>1, <2>2, <2>3
  <1>10. After \in [0 .. N -> States]
    <2>1. ASSUME NEW i \in 1 .. N, After[i - 1] \in States PROVE After[i] \in States
      BY <1>2, <1>9, <2>1
    <2>2. After = [i \in 0 .. N |-> After[i]]
      BY <1>8
    <2> HIDE DEF F, Good
    <2>3. After[0] \in States
      BY <1>1, <1>9
    <2>4. \A i \in 1 .. N : After[i - 1] \in States => After[i] \in States
      BY <2>1
    <2>5. N \in Nat
      BY <1>1
    <2> QED
      BY ONLY <2>2, <2>3, <2>4, <2>5, StaysIn
  <1> QED
    BY <1>9, <1>10 DEF After, N

LEMMA AlignedTyped ==
  ASSUME NEW cells \in Seq(Cell)
  PROVE  /\ Aligned(cells) \in Seq(Cell) /\ Begins(Aligned(cells), cells)
         /\ Begins(Aligned(cells), Written(cells, "emptyMetadata"))
         /\ Len(Aligned(cells))
              = AlignUp(Len(cells) + MetaBlocks["emptyMetadata"].bits)
         /\ \A j \in Len(cells) + MetaBlocks["emptyMetadata"].bits + 1 .. Len(Aligned(cells)) :
              Aligned(cells)[j] = Zero
  <1> DEFINE w == Written(cells, "emptyMetadata")
             n == MetaBlocks["emptyMetadata"].bits
  <1>1. "emptyMetadata" \in DOMAIN MetaBlocks
    BY ConcatAssumption
  <1>2. w \in Seq(Cell) /\ Len(w) = Len(cells) + n /\ Begins(w, cells)
    BY <1>1, WrittenTyped
  <1>3. Aligned(cells) = Padded(w)
    BY DEF Aligned
  <1> HIDE DEF w, n
  <1>4. /\ Padded(w) \in Seq(Cell) /\ Len(Padded(w)) = AlignUp(Len(w))
        /\ \A j \in 1 .. Len(w) : Padded(w)[j] = w[j]
        /\ \A j \in Len(w) + 1 .. AlignUp(Len(w)) : Padded(w)[j] = Zero
    BY <1>2, PaddedTyped
  <1>5. Begins(Padded(w), w)
    <2>1. Len(w) \in Nat
      BY <1>2
    <2>2. Len(w) <= AlignUp(Len(w))
      BY <2>1, AlignFacts
    <2> QED
      BY <1>4, <2>2 DEF Begins
  <1>6. Begins(Padded(w), cells)
    BY <1>2, <1>4, <1>5, BeginsTransitive
  <1> QED
    BY <1>2, <1>3, <1>4, <1>5, <1>6 DEF w, n

LEMMA WrittenAllTyped ==
  ASSUME NEW cells \in Seq(Cell), NEW names \in Seq(DOMAIN MetaBlocks)
  PROVE  /\ WrittenAll(cells, names) \in Seq(Cell)
         /\ \A i \in 0 .. Len(names) :
              Begins(WrittenAll(cells, names), AfterBlocks(cells, names)[i])
  <1> DEFINE N == Len(names)
             After == AfterBlocks(cells, names)
  <1>1. /\ N \in Nat /\ After \in [0 .. N -> Seq(Cell)]
        /\ \A i \in 1 .. N : After[i] = Written(After[i - 1], names[i])
    BY BlocksUnfold
  <1>2. \A i \in 1 .. N : names[i] \in DOMAIN MetaBlocks
    OBVIOUS
  <1>3. WrittenAll(cells, names) = After[N]
    BY DEF WrittenAll
  <1> HIDE DEF N, After
  <1> DEFINE T == {i \in 0 .. N : Begins(After[N], After[N - i])}
  <1>4. 0 \in T
    <2>1. After[N] \in Seq(Cell) /\ N - 0 = N
      BY <1>1
    <2>2. Begins(After[N], After[N])
      BY <2>1 DEF Begins
    <2> QED
      BY <1>1, <2>1, <2>2
  <1>5. ASSUME NEW i \in Nat, i < N, i \in T PROVE i + 1 \in T
    <2>1. /\ N - i \in 1 .. N /\ (N - i) - 1 = N - (i + 1) /\ i + 1 \in 0 .. N
          /\ N - i \in 0 .. N /\ N - (i + 1) \in 0 .. N /\ N \in 0 .. N
      BY <1>1, <1>5
    <2>2. After[N - i] = Written(After[N - (i + 1)], names[N - i])
      BY <1>1, <2>1
    <2>3. After[N] \in Seq(Cell) /\ After[N - i] \in Seq(Cell)
          /\ After[N - (i + 1)] \in Seq(Cell)
      BY <1>1, <2>1
    <2>4. Begins(After[N - i], After[N - (i + 1)])
      BY <1>2, <2>1, <2>2, <2>3, WrittenTyped
    <2>5. Begins(After[N], After[N - i])
      BY <1>5
    <2>6. Begins(After[N], After[N - (i + 1)])
      BY <2>3, <2>4, <2>5, BeginsTransitive
    <2> QED
      BY <2>1, <2>6
  <1> HIDE DEF T
  <1>6. \A i \in 0 .. N : i \in T
    BY <1>1, <1>4, <1>5, UpTo
  <1>7. ASSUME NEW i \in 0 .. N PROVE Begins(After[N], After[i])
    <2>1. N - i \in 0 .. N /\ N - (N - i) = i
      BY <1>1
    <2>2. Begins(After[N], After[N - (N - i)])
      BY <1>6, <2>1 DEF T
    <2> QED
      BY <2>1, <2>2
  <1>8. After[N] \in Seq(Cell)
    BY <1>1
  <1> QED
    BY <1>3, <1>7, <1>8 DEF N, After

LEMMA PartTyped ==
  ASSUME NEW cells \in Seq(Cell), NEW names \in Seq(DOMAIN MetaBlocks)
  PROVE  /\ Part(cells, names) \in Seq(Cell) /\ Begins(Part(cells, names), cells)
         /\ Len(Part(cells, names)) % 8 = 0
  <1> DEFINE w == WrittenAll(cells, names)
  <1>1. w \in Seq(Cell) /\ Begins(w, cells)
    <2>1. 0 \in 0 .. Len(names) /\ AfterBlocks(cells, names)[0] = cells
      BY BlocksUnfold
    <2> QED
      BY <2>1, WrittenAllTyped
  <1>2. Part(cells, names) = Aligned(w)
    BY DEF Part
  <1> HIDE DEF w
  <1>3. /\ Aligned(w) \in Seq(Cell) /\ Begins(Aligned(w), w)
        /\ Len(Aligned(w)) = AlignUp(Len(w) + MetaBlocks["emptyMetadata"].bits)
    BY <1>1, AlignedTyped
  <1>4. Begins(Aligned(w), cells)
    BY <1>1, <1>3, BeginsTransitive
  <1>5. Len(w) + MetaBlocks["emptyMetadata"].bits \in Nat
    BY <1>1, BlockFacts, ConcatAssumption
  <1>6. Len(Aligned(w)) % 8 = 0
    BY <1>3, <1>5, AlignFacts
  <1> QED
    BY <1>2, <1>3, <1>4, <1>6

\* The fragments that can be staged.
Fragments == Received \cup {Fragment(names) : names \in Inputs}

LEMMA FragmentTyped ==
  ASSUME NEW f \in Fragments
  PROVE  IsFragment(f)
  <1>1. CASE f \in Received
    BY <1>1, ConcatAssumption
  <1>2. ASSUME NEW names \in Inputs, f = Fragment(names)
        PROVE  IsFragment(f)
    <2>1. names \in Seq(DOMAIN MetaBlocks)
      BY EncoderAssumption
    <2>2. WrittenAll(<<>>, names) \in Seq(Cell)
      <3>1. <<>> \in Seq(Cell)
        OBVIOUS
      <3> QED
        BY <2>1, <3>1, WrittenAllTyped
    <2>3. /\ f.payload = Padded(WrittenAll(<<>>, names))
          /\ f.bitLen = Len(WrittenAll(<<>>, names))
          /\ f.inputLen = Len(Content(names).out)
      BY <1>2 DEF Fragment
    <2>4. Content(names) \in States
      <3>1. Len(names) \in 0 .. Len(names)
        BY <2>1
      <3> QED
        BY <2>1, <3>1, ContentsUnfold DEF Content
    <2>5. Len(Content(names).out) \in Nat
      BY <2>4, StateFields
    <2>6. f.payload \in Seq(Cell)
      BY <2>2, <2>3, PaddedTyped
    <2>7. f.bitLen \in Nat
      BY <2>2, <2>3
    <2> QED
      BY <2>3, <2>5, <2>6, <2>7 DEF IsFragment
  <1> QED
    BY <1>1, <1>2 DEF Fragments

\* The fragments of fs can be assembled.
Accepted(fs) == fs \in Seq(Fragments) /\ \A i \in 1 .. Len(fs) : Valid(fs[i])

LEMMA FragmentBitsTyped ==
  ASSUME NEW f \in Fragments, Valid(f)
  PROVE  /\ FragmentBits(f) \in Seq(Cell) /\ Len(FragmentBits(f)) = f.bitLen
         /\ f.bitLen \in Nat /\ f.bitLen <= Len(f.payload)
         /\ \A i \in 1 .. f.bitLen : FragmentBits(f)[i] = f.payload[i]
  <1>1. /\ f.payload \in Seq(Cell) /\ Len(f.payload) \in Nat /\ f.bitLen \in Nat
        /\ \A i \in 1 .. Len(f.payload) : f.payload[i] \in Cell
    BY FragmentTyped DEF IsFragment
  <1>2. f.bitLen <= Len(f.payload)
    BY <1>1, AlignFacts DEF Valid, Minimal
  <1>3. \A i \in 1 .. f.bitLen : f.payload[i] \in Cell
    BY <1>1, <1>2
  <1>4. /\ SubSeq(f.payload, 1, f.bitLen) \in Seq(Cell)
        /\ Len(SubSeq(f.payload, 1, f.bitLen))
             = IF 1 <= f.bitLen THEN f.bitLen - 1 + 1 ELSE 0
        /\ \A i \in 1 .. f.bitLen - 1 + 1 :
             SubSeq(f.payload, 1, f.bitLen)[i] = f.payload[1 + i - 1]
    BY <1>1, <1>3, SubSeqProperties
  <1>5. Len(SubSeq(f.payload, 1, f.bitLen)) = f.bitLen
    BY <1>1, <1>4
  <1>6. \A i \in 1 .. f.bitLen : SubSeq(f.payload, 1, f.bitLen)[i] = f.payload[i]
    <2>1. \A i \in 1 .. f.bitLen : i \in 1 .. f.bitLen - 1 + 1 /\ 1 + i - 1 = i
      BY <1>1
    <2> QED
      BY <1>4, <2>1
  <1> QED
    BY <1>1, <1>2, <1>4, <1>5, <1>6 DEF FragmentBits

LEMMA BodiesUnfold ==
  ASSUME NEW fs, Accepted(fs)
  PROVE  /\ Bodies(fs) \in [0 .. Len(fs) -> Seq(Cell)]
         /\ Bodies(fs)[0] = Header
         /\ \A i \in 1 .. Len(fs) :
              Bodies(fs)[i] = Bodies(fs)[i - 1] \o FragmentBits(fs[i])
  <1> DEFINE N == Len(fs)
             F == [z \in Seq(Cell) \X (1 .. N) |-> z[1] \o FragmentBits(fs[z[2]])]
             Good(g) == g = [i \in 0 .. N |-> IF i = 0 THEN Header
                                              ELSE g[i - 1] \o FragmentBits(fs[i])]
             After == Bodies(fs)
  <1>1. N \in Nat /\ Header \in Seq(Cell)
    <2>1. N \in Nat
      BY DEF Accepted
    <2>2. HeaderBits \in Nat /\ 1 <= HeaderBits + 1
      BY ConcatAssumption
    <2>3. Header \in Seq(Cell)
      BY <2>2, CellsTyped DEF Header
    <2> QED
      BY <2>1, <2>3
  <1>2. ASSUME NEW x \in Seq(Cell), NEW i \in 1 .. N
        PROVE  x \o FragmentBits(fs[i]) \in Seq(Cell)
    <2>1. fs[i] \in Fragments /\ Valid(fs[i])
      BY DEF Accepted
    <2>2. FragmentBits(fs[i]) \in Seq(Cell)
      BY <2>1, FragmentBitsTyped
    <2> QED
      BY <2>2
  <1>3. PICK g : Repeats(g, Seq(Cell), N, Header, F)
    <2>1. F \in [Seq(Cell) \X (1 .. N) -> Seq(Cell)]
      BY <1>2
    <2> HIDE DEF F, N
    <2> QED
      BY <1>1, <2>1, Recursion
  <1>4. /\ g \in [0 .. N -> Seq(Cell)] /\ g[0] = Header
        /\ \A i \in 1 .. N : g[i] = g[i - 1] \o FragmentBits(fs[i])
    <2>1. /\ g \in [0 .. N -> Seq(Cell)] /\ g[0] = Header
          /\ \A i \in 1 .. N : g[i] = F[<<g[i - 1], i>>]
      <3> HIDE DEF F, N
      <3> QED
        BY <1>3 DEF Repeats
    <2>2. ASSUME NEW i \in 1 .. N PROVE g[i] = g[i - 1] \o FragmentBits(fs[i])
      <3>1. g[i - 1] \in Seq(Cell)
        <4> HIDE DEF N, F
        <4> QED
          BY <1>1, <2>1
      <3>2. F[<<g[i - 1], i>>] = g[i - 1] \o FragmentBits(fs[i])
        <4> HIDE DEF N
        <4> QED
          BY <3>1
      <3> QED
        BY <2>1, <3>2
    <2> HIDE DEF F, N
    <2> QED
      BY <2>1, <2>2
  <1>5. Good(g)
    <2> HIDE DEF N
    <2>1. ASSUME NEW i \in 0 .. N
          PROVE  g[i] = IF i = 0 THEN Header ELSE g[i - 1] \o FragmentBits(fs[i])
      <3>1. CASE i = 0
        BY <1>4, <3>1
      <3>2. CASE i # 0
        <4>1. i \in 1 .. N
          BY <1>1, <3>2
        <4> QED
          BY <1>4, <3>2, <4>1
      <3> QED
        BY <3>1, <3>2
    <2>2. g = [i \in 0 .. N |-> g[i]]
      BY <1>4
    <2> QED
      BY <2>1, <2>2
  <1>6. After = CHOOSE h : Good(h)
    BY DEF Bodies
  <1>7. Good(After)
    <2> HIDE DEF Good, After
    <2> QED
      BY <1>5, <1>6
  <1>8. After = [i \in 0 .. N |-> IF i = 0 THEN Header ELSE After[i - 1] \o FragmentBits(fs[i])]
    BY <1>7
  <1> HIDE DEF After, N
  <1>9. After[0] = Header /\ \A i \in 1 .. N : After[i] = After[i - 1] \o FragmentBits(fs[i])
    <2>1. \A i \in 0 .. N : After[i] = IF i = 0 THEN Header ELSE After[i - 1] \o FragmentBits(fs[i])
      BY <1>8
    <2>2. 0 \in 0 .. N /\ \A i \in 1 .. N : i \in 0 .. N /\ i # 0
      BY <1>1
    <2>3. ASSUME NEW i \in 1 .. N PROVE After[i] = After[i - 1] \o FragmentBits(fs[i])
      <3>1. i \in 0 .. N /\ i # 0
        BY <2>2
      <3> QED
        BY <2>1, <3>1
    <2> QED
      BY <2>1, <2>2, <2>3
  <1>10. After \in [0 .. N -> Seq(Cell)]
    <2>1. ASSUME NEW i \in 1 .. N, After[i - 1] \in Seq(Cell) PROVE After[i] \in Seq(Cell)
      BY <1>2, <1>9, <2>1
    <2>2. After = [i \in 0 .. N |-> After[i]]
      BY <1>8
    <2> HIDE DEF F, Good
    <2>3. After[0] \in Seq(Cell)
      BY <1>1, <1>9
    <2>4. \A i \in 1 .. N : After[i - 1] \in Seq(Cell) => After[i] \in Seq(Cell)
      BY <2>1
    <2>5. N \in Nat
      BY <1>1
    <2> QED
      BY ONLY <2>2, <2>3, <2>4, <2>5, StaysIn
  <1> QED
    BY <1>9, <1>10 DEF After, N

LEMMA PartBodiesUnfold ==
  ASSUME NEW inputs \in Seq(Inputs)
  PROVE  /\ PartBodies(inputs) \in [0 .. Len(inputs) -> Seq(Cell)]
         /\ PartBodies(inputs)[0] = Header
         /\ \A i \in 1 .. Len(inputs) :
              PartBodies(inputs)[i] = Part(PartBodies(inputs)[i - 1], inputs[i])
  <1> DEFINE N == Len(inputs)
             F == [z \in Seq(Cell) \X (1 .. N) |-> Part(z[1], inputs[z[2]])]
             Good(g) == g = [i \in 0 .. N |-> IF i = 0 THEN Header
                                              ELSE Part(g[i - 1], inputs[i])]
             After == PartBodies(inputs)
  <1>1. N \in Nat /\ Header \in Seq(Cell)
    <2>1. HeaderBits \in Nat /\ 1 <= HeaderBits + 1
      BY ConcatAssumption
    <2>2. Header \in Seq(Cell)
      BY <2>1, CellsTyped DEF Header
    <2> QED
      BY <2>2
  <1>2. ASSUME NEW x \in Seq(Cell), NEW i \in 1 .. N
        PROVE  Part(x, inputs[i]) \in Seq(Cell)
    <2>1. inputs[i] \in Inputs
      OBVIOUS
    <2>2. inputs[i] \in Seq(DOMAIN MetaBlocks)
      BY <2>1, EncoderAssumption
    <2> QED
      BY <2>2, PartTyped
  <1>3. PICK g : Repeats(g, Seq(Cell), N, Header, F)
    <2>1. F \in [Seq(Cell) \X (1 .. N) -> Seq(Cell)]
      BY <1>2
    <2> HIDE DEF F, N
    <2> QED
      BY <1>1, <2>1, Recursion
  <1>4. /\ g \in [0 .. N -> Seq(Cell)] /\ g[0] = Header
        /\ \A i \in 1 .. N : g[i] = Part(g[i - 1], inputs[i])
    <2>1. /\ g \in [0 .. N -> Seq(Cell)] /\ g[0] = Header
          /\ \A i \in 1 .. N : g[i] = F[<<g[i - 1], i>>]
      <3> HIDE DEF F, N
      <3> QED
        BY <1>3 DEF Repeats
    <2>2. ASSUME NEW i \in 1 .. N PROVE g[i] = Part(g[i - 1], inputs[i])
      <3>1. g[i - 1] \in Seq(Cell)
        <4> HIDE DEF N, F
        <4> QED
          BY <1>1, <2>1
      <3>2. F[<<g[i - 1], i>>] = Part(g[i - 1], inputs[i])
        <4> HIDE DEF N
        <4> QED
          BY <3>1
      <3> QED
        BY <2>1, <3>2
    <2> HIDE DEF F, N
    <2> QED
      BY <2>1, <2>2
  <1>5. Good(g)
    <2> HIDE DEF N
    <2>1. ASSUME NEW i \in 0 .. N
          PROVE  g[i] = IF i = 0 THEN Header ELSE Part(g[i - 1], inputs[i])
      <3>1. CASE i = 0
        BY <1>4, <3>1
      <3>2. CASE i # 0
        <4>1. i \in 1 .. N
          BY <1>1, <3>2
        <4> QED
          BY <1>4, <3>2, <4>1
      <3> QED
        BY <3>1, <3>2
    <2>2. g = [i \in 0 .. N |-> g[i]]
      BY <1>4
    <2> QED
      BY <2>1, <2>2
  <1>6. After = CHOOSE h : Good(h)
    BY DEF PartBodies
  <1>7. Good(After)
    <2> HIDE DEF Good, After
    <2> QED
      BY <1>5, <1>6
  <1>8. After = [i \in 0 .. N |-> IF i = 0 THEN Header ELSE Part(After[i - 1], inputs[i])]
    BY <1>7
  <1> HIDE DEF After, N
  <1>9. After[0] = Header /\ \A i \in 1 .. N : After[i] = Part(After[i - 1], inputs[i])
    <2>1. \A i \in 0 .. N : After[i] = IF i = 0 THEN Header ELSE Part(After[i - 1], inputs[i])
      BY <1>8
    <2>2. 0 \in 0 .. N /\ \A i \in 1 .. N : i \in 0 .. N /\ i # 0
      BY <1>1
    <2>3. ASSUME NEW i \in 1 .. N PROVE After[i] = Part(After[i - 1], inputs[i])
      <3>1. i \in 0 .. N /\ i # 0
        BY <2>2
      <3> QED
        BY <2>1, <3>1
    <2> QED
      BY <2>1, <2>2, <2>3
  <1>10. After \in [0 .. N -> Seq(Cell)]
    <2>1. ASSUME NEW i \in 1 .. N, After[i - 1] \in Seq(Cell) PROVE After[i] \in Seq(Cell)
      BY <1>2, <1>9, <2>1
    <2>2. After = [i \in 0 .. N |-> After[i]]
      BY <1>8
    <2> HIDE DEF F, Good
    <2>3. After[0] \in Seq(Cell)
      BY <1>1, <1>9
    <2>4. \A i \in 1 .. N : After[i - 1] \in Seq(Cell) => After[i] \in Seq(Cell)
      BY <2>1
    <2>5. N \in Nat
      BY <1>1
    <2> QED
      BY ONLY <2>2, <2>3, <2>4, <2>5, StaysIn
  <1> QED
    BY <1>9, <1>10 DEF After, N

(***************************************************************************)
(* FlattenSeq.                                                             *)
(***************************************************************************)
Bytes == Seq(Int)

\* The function FlattenSeq defines.
Flattens(g, seqs) ==
  g = [i \in 1 .. Len(seqs) |-> IF i = 1 THEN seqs[i] ELSE g[i - 1] \o seqs[i]]

LEMMA FlattensExists ==
  ASSUME NEW seqs \in Seq(Bytes), Len(seqs) # 0
  PROVE  \E g : Flattens(g, seqs)
  <1> DEFINE N == Len(seqs) - 1
             F == [z \in Bytes \X (1 .. N) |-> z[1] \o seqs[z[2] + 1]]
  <1>1. N \in Nat /\ Len(seqs) = N + 1 /\ \A i \in 1 .. N + 1 : seqs[i] \in Bytes
    OBVIOUS
  <1>2. F \in [Bytes \X (1 .. N) -> Bytes]
    <2>1. ASSUME NEW x \in Bytes, NEW i \in 1 .. N PROVE x \o seqs[i + 1] \in Bytes
      <3>1. i + 1 \in 1 .. N + 1
        BY <1>1
      <3>2. seqs[i + 1] \in Bytes
        BY <1>1, <3>1
      <3> QED
        BY <3>2 DEF Bytes
    <2> HIDE DEF N
    <2> QED
      BY <2>1
  <1>3. PICK h : Repeats(h, Bytes, N, seqs[1], F)
    <2>1. seqs[1] \in Bytes
      BY <1>1
    <2> HIDE DEF F, N
    <2> QED
      BY <1>1, <1>2, <2>1, Recursion
  <1>4. /\ h \in [0 .. N -> Bytes] /\ h[0] = seqs[1]
        /\ \A i \in 1 .. N : h[i] = h[i - 1] \o seqs[i + 1]
    <2>1. /\ h \in [0 .. N -> Bytes] /\ h[0] = seqs[1]
          /\ \A i \in 1 .. N : h[i] = F[<<h[i - 1], i>>]
      <3> HIDE DEF F, N
      <3> QED
        BY <1>3 DEF Repeats
    <2>2. ASSUME NEW i \in 1 .. N PROVE h[i] = h[i - 1] \o seqs[i + 1]
      <3>1. h[i - 1] \in Bytes
        <4> HIDE DEF N, F
        <4> QED
          BY <1>1, <2>1
      <3>2. F[<<h[i - 1], i>>] = h[i - 1] \o seqs[i + 1]
        <4> HIDE DEF N
        <4> QED
          BY <3>1
      <3> QED
        BY <2>1, <3>2
    <2> HIDE DEF F, N
    <2> QED
      BY <2>1, <2>2
  <1> HIDE DEF F, N
  <1> DEFINE g == [i \in 1 .. N + 1 |-> h[i - 1]]
  <1>5. ASSUME NEW i \in 1 .. N + 1
        PROVE  g[i] = IF i = 1 THEN seqs[i] ELSE g[i - 1] \o seqs[i]
    <2>1. CASE i = 1
      BY <1>1, <1>4, <2>1
    <2>2. CASE i # 1
      <3>1. i - 1 \in 1 .. N /\ i - 1 \in 1 .. N + 1 /\ (i - 1) + 1 = i
        BY <1>1, <2>2
      <3>2. h[i - 1] = h[(i - 1) - 1] \o seqs[(i - 1) + 1]
        BY <1>4, <3>1
      <3>3. g[i] = h[i - 1] /\ g[i - 1] = h[(i - 1) - 1]
        BY <3>1
      <3> HIDE DEF g
      <3> QED
        BY <2>2, <3>1, <3>2, <3>3
    <2> QED
      BY <2>1, <2>2
  <1>6. Flattens(g, seqs)
    <2>1. g = [i \in 1 .. N + 1 |-> g[i]]
      OBVIOUS
    <2> HIDE DEF g
    <2> QED
      BY <1>1, <1>5, <2>1 DEF Flattens
  <1> HIDE DEF g
  <1> QED
    BY <1>6

LEMMA FlattenSeqIs ==
  ASSUME NEW seqs \in Seq(Bytes), Len(seqs) # 0
  PROVE  \E g : Flattens(g, seqs) /\ FlattenSeq(seqs) = g[Len(seqs)]
  <1> DEFINE G == CHOOSE g : Flattens(g, seqs)
  <1>1. FlattenSeq(seqs) = G[Len(seqs)]
    BY DEF FlattenSeq, Flattens
  <1>2. Flattens(G, seqs)
    BY FlattensExists
  <1> HIDE DEF G
  <1> QED
    BY <1>1, <1>2

LEMMA FlattensSteps ==
  ASSUME NEW seqs \in Seq(Bytes), Len(seqs) # 0, NEW g, Flattens(g, seqs)
  PROVE  /\ g[1] = seqs[1]
         /\ \A i \in 2 .. Len(seqs) : g[i] = g[i - 1] \o seqs[i]
         /\ \A i \in 1 .. Len(seqs) : g[i] \in Bytes
  <1> DEFINE N == Len(seqs)
  <1>1. N \in Nat /\ N # 0 /\ \A i \in 1 .. N : seqs[i] \in Bytes
    OBVIOUS
  <1>2. \A i \in 1 .. N : g[i] = IF i = 1 THEN seqs[i] ELSE g[i - 1] \o seqs[i]
    BY DEF Flattens
  <1> HIDE DEF N
  <1>3. g[1] = seqs[1] /\ \A i \in 2 .. N : g[i] = g[i - 1] \o seqs[i]
    <2>1. 1 \in 1 .. N
      BY <1>1
    <2>2. ASSUME NEW i \in 2 .. N PROVE g[i] = g[i - 1] \o seqs[i]
      <3>1. i \in 1 .. N /\ i # 1
        BY <1>1
      <3> QED
        BY <1>2, <3>1
    <2> QED
      BY <1>2, <2>1, <2>2
  <1> DEFINE T == {i \in 0 .. N : i # 0 => g[i] \in Bytes}
  <1>4. 0 \in T
    BY <1>1
  <1>5. ASSUME NEW i \in Nat, i < N, i \in T PROVE i + 1 \in T
    <2>1. i + 1 \in 1 .. N /\ (i + 1) - 1 = i /\ i + 1 \in 0 .. N
      BY <1>1, <1>5
    <2>2. seqs[i + 1] \in Bytes
      BY <1>1, <2>1
    <2>3. CASE i = 0
      BY <1>1, <1>3, <2>1, <2>3
    <2>4. CASE i # 0
      <3>1. i + 1 \in 2 .. N
        BY <2>1, <2>4
      <3>2. g[i + 1] = g[i] \o seqs[i + 1]
        BY <1>3, <2>1, <3>1
      <3>3. g[i] \in Bytes
        BY <1>5, <2>4
      <3>4. g[i + 1] \in Bytes
        BY <2>2, <3>2, <3>3 DEF Bytes
      <3> QED
        BY <2>1, <3>4
    <2> QED
      BY <2>3, <2>4
  <1> HIDE DEF T
  <1>6. \A i \in 0 .. N : i \in T
    BY <1>1, <1>4, <1>5, UpTo
  <1>7. \A i \in 1 .. N : g[i] \in Bytes
    BY <1>1, <1>6 DEF T
  <1> QED
    BY <1>3, <1>7 DEF N

LEMMA FlattenTyped ==
  ASSUME NEW seqs \in Seq(Bytes)
  PROVE  FlattenSeq(seqs) \in Bytes /\ (Len(seqs) = 0 => FlattenSeq(seqs) = <<>>)
  <1>1. CASE Len(seqs) = 0
    <2>1. FlattenSeq(seqs) = seqs
      BY <1>1 DEF FlattenSeq
    <2>2. seqs = <<>>
      BY <1>1, EmptySeq
    <2> QED
      BY <2>1, <2>2 DEF Bytes
  <1>2. CASE Len(seqs) # 0
    <2>1. PICK g : Flattens(g, seqs) /\ FlattenSeq(seqs) = g[Len(seqs)]
      BY <1>2, FlattenSeqIs
    <2>2. Len(seqs) \in 1 .. Len(seqs)
      BY <1>2
    <2> QED
      BY <1>2, <2>1, <2>2, FlattensSteps
  <1> QED
    BY <1>1, <1>2

LEMMA FlattenAppend ==
  ASSUME NEW seqs \in Seq(Bytes), NEW bytes \in Bytes
  PROVE  FlattenSeq(Append(seqs, bytes)) = FlattenSeq(seqs) \o bytes
  <1> DEFINE N == Len(seqs)
             more == Append(seqs, bytes)
  <1>1. /\ N \in Nat /\ more \in Seq(Bytes) /\ Len(more) = N + 1
        /\ more[N + 1] = bytes /\ \A i \in 1 .. N : more[i] = seqs[i]
    BY AppendProperties
  <1>2. PICK h : Flattens(h, more) /\ FlattenSeq(more) = h[N + 1]
    <2> HIDE DEF more, N
    <2>1. Len(more) # 0
      BY <1>1
    <2>2. \E h : Flattens(h, more) /\ FlattenSeq(more) = h[Len(more)]
      BY <1>1, <2>1, FlattenSeqIs
    <2> QED
      BY <1>1, <2>2
  <1> HIDE DEF more
  <1>3. h[1] = more[1] /\ \A i \in 2 .. N + 1 : h[i] = h[i - 1] \o more[i]
    <2>1. Len(more) # 0 /\ more \in Seq(Bytes) /\ Len(more) = N + 1 /\ Flattens(h, more)
      <3> HIDE DEF N
      <3> QED
        BY <1>1, <1>2
    <2> HIDE DEF N
    <2>2. h[1] = more[1]
      <3>1. \A i \in 1 .. Len(more) : h[i] = IF i = 1 THEN more[i] ELSE h[i - 1] \o more[i]
        BY ONLY <2>1 DEF Flattens
      <3>2. 1 \in 1 .. Len(more)
        BY <1>1, <2>1
      <3> QED
        BY ONLY <3>1, <3>2
    <2>3. ASSUME NEW i \in 2 .. Len(more) PROVE h[i] = h[i - 1] \o more[i]
      BY <2>1, FlattensSteps
    <2> QED
      BY <2>1, <2>2, <2>3
  <1>4. CASE N = 0
    <2>1. FlattenSeq(more) = bytes
      BY <1>1, <1>2, <1>3, <1>4
    <2>2. FlattenSeq(seqs) = <<>>
      BY <1>4, FlattenTyped
    <2>3. <<>> \o bytes = bytes
      BY ConcatEmptySeq DEF Bytes
    <2> QED
      BY <2>1, <2>2, <2>3 DEF more
  <1>5. CASE N # 0
    <2>1. PICK g : Flattens(g, seqs) /\ FlattenSeq(seqs) = g[N]
      BY <1>5, FlattenSeqIs
    <2>2. g[1] = seqs[1] /\ \A i \in 2 .. N : g[i] = g[i - 1] \o seqs[i]
      BY <1>5, <2>1, FlattensSteps
    <2> HIDE DEF N
    <2> DEFINE T == {i \in 0 .. N : i # 0 => g[i] = h[i]}
    <2>3. 0 \in T
      BY <1>1
    <2>4. ASSUME NEW i \in Nat, i < N, i \in T PROVE i + 1 \in T
      <3>1. i + 1 \in 1 .. N /\ (i + 1) - 1 = i /\ i + 1 \in 0 .. N
        BY <1>1, <2>4
      <3>2. CASE i = 0
        BY <1>1, <1>3, <2>2, <3>1, <3>2
      <3>3. CASE i # 0
        <4>1. i + 1 \in 2 .. N /\ i + 1 \in 2 .. N + 1
          BY <1>1, <3>1, <3>3
        <4>2. g[i + 1] = g[i] \o seqs[i + 1] /\ h[i + 1] = h[i] \o more[i + 1]
          BY <1>3, <2>2, <3>1, <4>1
        <4>3. g[i] = h[i] /\ more[i + 1] = seqs[i + 1]
          BY <1>1, <2>4, <3>1, <3>3
        <4>4. g[i + 1] = h[i + 1]
          BY <4>2, <4>3
        <4> QED
          BY <3>1, <4>4
      <3> QED
        BY <3>2, <3>3
    <2> HIDE DEF T
    <2>5. \A i \in 0 .. N : i \in T
      BY <1>1, <2>3, <2>4, UpTo
    <2>6. g[N] = h[N]
      <3>1. N \in 0 .. N
        BY <1>1
      <3> QED
        BY <1>5, <2>5, <3>1 DEF T
    <2>7. N + 1 \in 2 .. N + 1 /\ (N + 1) - 1 = N
      BY <1>1, <1>5
    <2>8. h[N + 1] = h[N] \o more[N + 1]
      BY <1>3, <2>7
    <2> QED
      BY <1>1, <1>2, <2>1, <2>6, <2>8 DEF more
  <1> QED
    BY <1>4, <1>5

(***************************************************************************)
(* A decoder with more output behind it, p, follows one held to itself.    *)
(***************************************************************************)
LEMMA AppendFollows ==
  ASSUME NEW p \in Bytes, NEW out \in Bytes, NEW byte \in Int
  PROVE  Append(p \o out, byte) = p \o Append(out, byte)
  <1> DEFINE a == Append(p \o out, byte)
             b == p \o Append(out, byte)
  <1>1. Len(p) \in Nat /\ Len(out) \in Nat
    BY DEF Bytes
  <1>2. /\ p \o out \in Seq(Int) /\ Len(p \o out) = Len(p) + Len(out)
        /\ \A i \in 1 .. Len(p) + Len(out) :
             (p \o out)[i] = IF i <= Len(p) THEN p[i] ELSE out[i - Len(p)]
    BY ConcatProperties DEF Bytes
  <1>3. /\ a \in Seq(Int) /\ Len(a) = Len(p) + Len(out) + 1
        /\ \A i \in 1 .. Len(p) + Len(out) : a[i] = (p \o out)[i]
        /\ a[Len(p) + Len(out) + 1] = byte
    <2> DEFINE c == p \o out
    <2>1. c \in Seq(Int) /\ Len(c) = Len(p) + Len(out)
      BY <1>2
    <2> HIDE DEF c
    <2>2. /\ Append(c, byte) \in Seq(Int) /\ Len(Append(c, byte)) = Len(c) + 1
          /\ \A i \in 1 .. Len(c) : Append(c, byte)[i] = c[i]
          /\ Append(c, byte)[Len(c) + 1] = byte
      BY <2>1, AppendProperties
    <2> QED
      BY <2>1, <2>2 DEF c
  <1>4. /\ Append(out, byte) \in Seq(Int) /\ Len(Append(out, byte)) = Len(out) + 1
        /\ \A i \in 1 .. Len(out) : Append(out, byte)[i] = out[i]
        /\ Append(out, byte)[Len(out) + 1] = byte
    BY AppendProperties DEF Bytes
  <1>5. /\ b \in Seq(Int) /\ Len(b) = Len(p) + (Len(out) + 1)
        /\ \A i \in 1 .. Len(p) + (Len(out) + 1) :
             b[i] = IF i <= Len(p) THEN p[i] ELSE Append(out, byte)[i - Len(p)]
    <2> DEFINE c == Append(out, byte)
    <2>1. c \in Seq(Int) /\ Len(c) = Len(out) + 1
      BY <1>4
    <2> HIDE DEF c
    <2>2. /\ p \o c \in Seq(Int) /\ Len(p \o c) = Len(p) + Len(c)
          /\ \A i \in 1 .. Len(p) + Len(c) :
               (p \o c)[i] = IF i <= Len(p) THEN p[i] ELSE c[i - Len(p)]
      BY <2>1, ConcatProperties DEF Bytes
    <2> QED
      BY <2>1, <2>2 DEF c
  <1> HIDE DEF a, b
  <1>6. ASSUME NEW i \in 1 .. Len(a) PROVE a[i] = b[i]
    <2>1. CASE i <= Len(p)
      <3>1. i \in 1 .. Len(p) + Len(out) /\ i \in 1 .. Len(p) + (Len(out) + 1)
        BY <1>1, <1>3, <2>1
      <3>2. a[i] = p[i]
        BY <1>2, <1>3, <2>1, <3>1
      <3>3. b[i] = p[i]
        BY <1>5, <2>1, <3>1
      <3> QED
        BY <3>2, <3>3
    <2>2. CASE i > Len(p) /\ i <= Len(p) + Len(out)
      <3>1. i - Len(p) \in 1 .. Len(out)
        BY <1>1, <1>3, <2>2
      <3>2. a[i] = out[i - Len(p)]
        <4>1. i \in 1 .. Len(p) + Len(out) /\ ~(i <= Len(p))
          BY <1>1, <1>3, <2>2
        <4> QED
          BY <1>2, <1>3, <4>1
      <3>3. b[i] = Append(out, byte)[i - Len(p)]
        <4>1. i \in 1 .. Len(p) + (Len(out) + 1) /\ ~(i <= Len(p))
          BY <1>1, <1>3, <2>2
        <4> QED
          BY <1>5, <4>1
      <3> QED
        BY <1>4, <3>1, <3>2, <3>3
    <2>3. CASE i = Len(p) + Len(out) + 1
      <3>1. i - Len(p) = Len(out) + 1 /\ ~(i <= Len(p))
        BY <1>1, <2>3
      <3>2. b[i] = Append(out, byte)[Len(out) + 1]
        BY <1>1, <1>3, <1>5, <3>1
      <3> QED
        BY <1>3, <1>4, <2>3, <3>2
    <2> QED
      BY <1>1, <1>3, <2>1, <2>2, <2>3
  <1>7. Len(a) = Len(b)
    BY <1>1, <1>3, <1>5
  <1>8. a = b
    BY <1>3, <1>5, <1>6, <1>7, SeqEqual
  <1> QED
    BY <1>8 DEF a, b

LEMMA CopyOutFollows ==
  ASSUME NEW p \in Bytes, NEW out \in Bytes, NEW distance \in 1 .. Len(out),
         NEW len \in Nat
  PROVE  CopyOut(p \o out, distance, len) = p \o CopyOut(out, distance, len)
  <1> DEFINE q == p \o out
             c == CopyOut(out, distance, len)
             a == CopyOut(q, distance, len)
             b == p \o c
  <1>1. /\ Len(p) \in Nat /\ Len(out) \in Nat /\ distance \in Nat /\ distance >= 1
        /\ distance <= Len(out)
    BY DEF Bytes
  <1>2. /\ q \in Bytes /\ Len(q) = Len(p) + Len(out)
        /\ \A i \in 1 .. Len(p) + Len(out) :
             q[i] = IF i <= Len(p) THEN p[i] ELSE out[i - Len(p)]
    BY ConcatProperties DEF Bytes
  <1>3. /\ c \in Bytes /\ Len(c) = Len(out) + len
        /\ \A i \in 1 .. Len(out) + len : c[i] = CopiedByte(out, distance, i)
    <2>1. c \in Bytes /\ Len(c) = Len(out) + len
      BY CopyOutTyped DEF Bytes
    <2>2. \A i \in 1 .. Len(out) + len : c[i] = CopiedByte(out, distance, i)
      BY DEF CopyOut
    <2> QED
      BY <2>1, <2>2
  <1> HIDE DEF q, c
  <1>4. /\ a \in Bytes /\ Len(a) = Len(q) + len
        /\ \A i \in 1 .. Len(q) + len : a[i] = CopiedByte(q, distance, i)
    <2>1. distance \in 1 .. Len(q)
      BY <1>1, <1>2
    <2>2. a \in Bytes /\ Len(a) = Len(q) + len
      BY <1>2, <2>1, CopyOutTyped DEF Bytes
    <2>3. \A i \in 1 .. Len(q) + len : a[i] = CopiedByte(q, distance, i)
      BY DEF CopyOut
    <2> QED
      BY <2>2, <2>3
  <1>5. /\ b \in Bytes /\ Len(b) = Len(p) + Len(c)
        /\ \A i \in 1 .. Len(p) + Len(c) :
             b[i] = IF i <= Len(p) THEN p[i] ELSE c[i - Len(p)]
    BY <1>3, ConcatProperties DEF Bytes
  <1> HIDE DEF a, b
  <1>6. Len(a) = Len(b) /\ Len(a) = Len(p) + Len(out) + len
    BY <1>1, <1>2, <1>3, <1>4, <1>5
  <1>7. ASSUME NEW i \in 1 .. Len(a) PROVE a[i] = b[i]
    <2>0. i \in Nat /\ i >= 1 /\ i <= Len(p) + Len(out) + len
      BY <1>1, <1>6
    <2>a. a[i] = CopiedByte(q, distance, i)
      BY <1>1, <1>2, <1>4, <2>0
    <2>1. CASE i <= Len(p)
      <3>1. CopiedByte(q, distance, i) = q[i]
        BY <1>1, <1>2, <2>0, <2>1 DEF CopiedByte
      <3> QED
        BY <1>1, <1>2, <1>3, <1>5, <2>0, <2>a, <2>1, <3>1
    <2>2. CASE i > Len(p) /\ i <= Len(p) + Len(out)
      <3> DEFINE j == i - Len(p)
      <3>1. j \in 1 .. Len(out) /\ j \in 1 .. Len(out) + len
        BY <1>1, <2>0, <2>2
      <3>2. CopiedByte(q, distance, i) = out[j]
        BY <1>1, <1>2, <2>0, <2>2 DEF CopiedByte
      <3>3. b[i] = c[j]
        BY <1>1, <1>3, <1>5, <2>0, <2>2
      <3> HIDE DEF j
      <3>4. c[j] = CopiedByte(out, distance, j)
        BY <1>3, <3>1
      <3>5. CopiedByte(out, distance, j) = out[j]
        BY <1>1, <3>1 DEF CopiedByte
      <3> QED
        BY <2>a, <3>2, <3>3, <3>4, <3>5
    <2>3. CASE i > Len(p) + Len(out)
      <3> DEFINE j == i - Len(p)
                 k == (j - Len(out) - 1) % distance
      <3>1. j \in 1 .. Len(out) + len /\ j > Len(out)
        BY <1>1, <2>0, <2>3
      <3>2. k \in 0 .. distance - 1
        BY <1>1, <3>1
      <3>3. i - Len(q) - 1 = j - Len(out) - 1
        BY <1>1, <1>2, <2>0
      <3>4. CopiedByte(q, distance, i) = q[Len(q) - distance + 1 + k]
        BY <1>1, <1>2, <2>0, <2>3, <3>3 DEF CopiedByte
      <3>5. CopiedByte(out, distance, j) = out[Len(out) - distance + 1 + k]
        BY <1>1, <3>1 DEF CopiedByte
      <3>6. b[i] = c[j]
        BY <1>1, <1>3, <1>5, <2>0, <2>3
      <3> HIDE DEF j, k
      <3>7. c[j] = CopiedByte(out, distance, j)
        BY <1>3, <3>1
      <3> DEFINE m == Len(q) - distance + 1 + k
      <3>8. /\ m \in 1 .. Len(p) + Len(out) /\ ~(m <= Len(p))
            /\ m - Len(p) = Len(out) - distance + 1 + k
        BY <1>1, <1>2, <3>2
      <3> HIDE DEF m
      <3>9. q[m] = out[m - Len(p)]
        BY <1>2, <3>8
      <3> QED
        BY <2>a, <3>4, <3>5, <3>6, <3>7, <3>8, <3>9 DEF m
    <2> QED
      BY <1>1, <2>0, <2>1, <2>2, <2>3
  <1>8. a = b
    BY <1>4, <1>5, <1>6, <1>7, SeqEqual DEF Bytes
  <1> QED
    BY <1>8 DEF a, b, q, c

\* The decoder t has put out p, then what s put out.
Follows(t, s, p) == Reading(t) /\ t.out = p \o s.out

\* One literal or copy.
LEMMA OpFollows ==
  ASSUME NEW s \in States, NEW t \in States, NEW p \in Bytes, NEW op, IsOp(op),
         NEW far \in BOOLEAN, far = FALSE,
         NEW local \in BOOLEAN, local = TRUE \/ IsLiteral(op),
         Reading(s), Follows(t, s, p), Reading(Op(s, op, local))
  PROVE  Follows(Op(t, op, far), Op(s, op, local), p)
  <1> USE DEF Follows
  <1>1. s.out \in Bytes /\ t.out \in Bytes /\ Len(s.out) \in Nat /\ Len(p) \in Nat
        /\ Len(t.out) = Len(p) + Len(s.out)
    <2>1. s.out \in Bytes /\ t.out \in Bytes /\ Len(s.out) \in Nat
      BY StateFields DEF Bytes
    <2>2. Len(p) \in Nat /\ Len(p \o s.out) = Len(p) + Len(s.out)
      BY <2>1, ConcatProperties DEF Bytes
    <2> QED
      BY <2>1, <2>2
  <1>2. CASE IsLiteral(op)
    <2>1. /\ Op(s, op, local) = [s EXCEPT !.out = Append(s.out, op.byte)]
          /\ Op(t, op, far) = [t EXCEPT !.out = Append(t.out, op.byte)]
      BY <1>2 DEF Op
    <2>2. /\ Op(s, op, local).out = Append(s.out, op.byte)
          /\ Op(t, op, far).out = Append(t.out, op.byte)
          /\ Op(t, op, far).verdict = t.verdict
      BY <2>1 DEF States
    <2>3. op.byte \in Int
      BY <1>2 DEF IsOp
    <2>4. Append(p \o s.out, op.byte) = p \o Append(s.out, op.byte)
      BY <1>1, <2>3, AppendFollows
    <2> QED
      BY <2>2, <2>4 DEF Reading
  <1>3. CASE ~IsLiteral(op)
    <2>1. local = TRUE /\ Op(s, op, local) = Copy(s, op, TRUE)
          /\ Op(t, op, far) = Copy(t, op, far)
      BY <1>3 DEF Op
    <2> DEFINE u == Copy(s, op, TRUE)
               v == Copy(t, op, far)
               near == Smaller(Window, Len(s.out))
               reach == Smaller(Window, Len(t.out))
    <2>2. Reading(u)
      BY <2>1
    <2>3. /\ op.symbol \in Nat /\ op.distance \in Nat /\ op.len \in Nat
      BY <1>3 DEF IsOp
    <2>4. /\ op.symbol >= 16 /\ near \in Nat
          /\ \/ op.distance \in 1 .. near /\ u.out = CopyOut(s.out, op.distance, op.len)
             \/ /\ op.distance > near /\ ~(op.distance > Len(s.out))
                /\ u.out = Append(s.out, near - op.distance)
      <3> DEFINE distance == IF op.symbol < 16 THEN Resolve(s.ring, op.symbol)
                             ELSE op.distance
      <3>1. /\ near \in Nat
            /\ \/ /\ ~(op.symbol < 16) /\ distance \in 1 .. near
                  /\ u.out = CopyOut(s.out, distance, op.len)
               \/ /\ ~(op.symbol < 16) /\ distance > near /\ ~(distance > Len(s.out))
                  /\ u.out = Append(s.out, near - distance)
               \/ u.verdict \in {"short code", "distance"}
        BY <1>3, CopyCases
      <3>2. u.verdict \notin {"short code", "distance"}
        BY <2>2 DEF Reading
      <3>3. ~(op.symbol < 16)
        BY <3>1, <3>2
      <3>4. distance = op.distance
        BY <3>3
      <3>5. /\ near \in Nat
            /\ \/ distance \in 1 .. near /\ u.out = CopyOut(s.out, distance, op.len)
               \/ /\ distance > near /\ ~(distance > Len(s.out))
                  /\ u.out = Append(s.out, near - distance)
        <4> HIDE DEF distance, u, near
        <4> QED
          BY <3>1, <3>2
      <3>6. op.symbol >= 16
        BY <2>3, <3>3
      <3> HIDE DEF distance, u, near
      <3> QED
        BY <3>4, <3>5, <3>6
    <2>5. /\ reach \in Nat
          /\ \/ /\ op.distance \in 1 .. reach /\ v.out = CopyOut(t.out, op.distance, op.len)
                /\ v.verdict = t.verdict
             \/ /\ op.distance > reach /\ v.out = Append(t.out, reach - op.distance)
                /\ v.verdict = t.verdict
             \/ op.distance = 0
      <3> DEFINE distance == IF op.symbol < 16 THEN Resolve(t.ring, op.symbol)
                             ELSE op.distance
      <3>1. /\ reach \in Nat
            /\ \/ /\ distance \in 1 .. reach /\ v.out = CopyOut(t.out, distance, op.len)
                  /\ v.verdict = t.verdict
               \/ /\ distance > reach /\ v.out = Append(t.out, reach - distance)
                  /\ v.verdict = t.verdict
               \/ distance = 0
        BY <1>3, CopyCases
      <3>2. distance = op.distance
        BY <2>3, <2>4
      <3> HIDE DEF distance, v, reach
      <3> QED
        BY <3>1, <3>2
    <2> HIDE DEF u, v
    <2>6. near <= reach /\ near <= Len(s.out)
      BY <1>1, ConcatAssumption DEF Smaller
    <2>7. CASE op.distance \in 1 .. near /\ u.out = CopyOut(s.out, op.distance, op.len)
      <3>1. op.distance \in 1 .. reach /\ op.distance \in 1 .. Len(s.out)
        <4> HIDE DEF near, reach
        <4> QED
          BY <1>1, <2>4, <2>5, <2>6, <2>7
      <3>2. v.out = CopyOut(t.out, op.distance, op.len) /\ v.verdict = t.verdict
        <4> HIDE DEF near, reach
        <4> QED
          BY <2>5, <3>1
      <3>3. CopyOut(p \o s.out, op.distance, op.len)
              = p \o CopyOut(s.out, op.distance, op.len)
        BY <1>1, <2>3, <3>1, CopyOutFollows
      <3> QED
        BY <2>1, <2>7, <3>2, <3>3 DEF Reading, u, v
    <2>8. CASE /\ op.distance > near /\ ~(op.distance > Len(s.out))
               /\ u.out = Append(s.out, near - op.distance)
      <3>1. near = Window /\ reach = Window
        BY <1>1, <2>3, <2>8, ConcatAssumption DEF Smaller
      <3> HIDE DEF near, reach
      <3>2. op.distance > reach /\ op.distance # 0
        BY <2>3, <2>4, <2>8, <3>1
      <3>3. v.out = Append(t.out, reach - op.distance) /\ v.verdict = t.verdict
        BY <2>3, <2>5, <3>2
      <3>4. near - op.distance \in Int
        BY <2>3, <2>4
      <3>5. Append(p \o s.out, near - op.distance) = p \o Append(s.out, near - op.distance)
        BY <1>1, <3>4, AppendFollows
      <3> QED
        BY <2>1, <2>8, <3>1, <3>3, <3>5 DEF Reading, u, v
    <2> QED
      BY <2>4, <2>7, <2>8
  <1> QED
    BY <1>2, <1>3

\* The literals and copies of a meta-block.
LEMMA OpsFollow ==
  ASSUME NEW s \in States, NEW t \in States, NEW p \in Bytes, NEW ops, IsOps(ops),
         NEW far \in BOOLEAN, far = FALSE,
         NEW local \in BOOLEAN, local = TRUE \/ \A i \in 1 .. Len(ops) : IsLiteral(ops[i]),
         Follows(t, s, p), Reading(AfterOps(s, ops, local)[Len(ops)])
  PROVE  Follows(AfterOps(t, ops, far)[Len(ops)], AfterOps(s, ops, local)[Len(ops)], p)
  <1> DEFINE N == Len(ops)
             A == AfterOps(s, ops, local)
             B == AfterOps(t, ops, far)
             T == {i \in 0 .. N : Follows(B[i], A[i], p)}
  <1>1. N \in Nat /\ \A i \in 1 .. N : IsOp(ops[i])
    BY DEF IsOps
  <1>2. /\ A \in [0 .. N -> States] /\ A[0] = s
        /\ \A i \in 1 .. N : A[i] = Op(A[i - 1], ops[i], local)
    BY AfterOpsUnfold
  <1>3. /\ B \in [0 .. N -> States] /\ B[0] = t
        /\ \A i \in 1 .. N : B[i] = Op(B[i - 1], ops[i], far)
    BY AfterOpsUnfold
  <1>4. \A i \in 0 .. N : Reading(A[i])
    BY OpsFacts
  <1> HIDE DEF N, A, B
  <1>5. 0 \in T
    BY <1>1, <1>2, <1>3
  <1>6. ASSUME NEW i \in Nat, i < N, i \in T PROVE i + 1 \in T
    <2>1. /\ i + 1 \in 1 .. N /\ (i + 1) - 1 = i /\ i + 1 \in 0 .. N /\ i \in 0 .. N
      BY <1>1, <1>6
    <2>2. /\ A[i] \in States /\ B[i] \in States /\ Reading(A[i]) /\ Reading(A[i + 1])
          /\ A[i + 1] = Op(A[i], ops[i + 1], local)
          /\ B[i + 1] = Op(B[i], ops[i + 1], far)
      BY <1>2, <1>3, <1>4, <2>1
    <2>3. Follows(B[i], A[i], p)
      BY <1>6
    <2>4. IsOp(ops[i + 1]) /\ (local = TRUE \/ IsLiteral(ops[i + 1]))
      BY <1>1, <2>1 DEF N
    <2>5. Follows(Op(B[i], ops[i + 1], far), Op(A[i], ops[i + 1], local), p)
      <3> DEFINE op == ops[i + 1]
                 x == A[i]
                 y == B[i]
      <3>1. /\ x \in States /\ y \in States /\ IsOp(op)
            /\ local = TRUE \/ IsLiteral(op)
            /\ Reading(x) /\ Follows(y, x, p) /\ Reading(Op(x, op, local))
        BY <2>2, <2>3, <2>4
      <3> HIDE DEF op, x, y
      <3>2. Follows(Op(y, op, far), Op(x, op, local), p)
        BY <3>1, OpFollows
      <3> QED
        BY <3>2 DEF op, x, y
    <2> QED
      BY <2>1, <2>2, <2>5
  <1> HIDE DEF T
  <1>7. \A i \in 0 .. N : i \in T
    BY <1>1, <1>5, <1>6, UpTo
  <1>8. N \in T
    BY <1>1, <1>7
  <1> QED
    BY <1>8 DEF T, N, A, B

LEMMA CompressedFollows ==
  ASSUME NEW s \in States, NEW t \in States, NEW p \in Bytes,
         NEW name \in DOMAIN MetaBlocks, NEW far \in BOOLEAN, far = FALSE,
         NEW local \in BOOLEAN,
         local = TRUE \/ MetaBlocks[name].kind = "stored",
         Follows(t, s, p), Reading(Compressed(s, name, local))
  PROVE  Follows(Compressed(t, name, far), Compressed(s, name, local), p)
  <1> DEFINE ops == MetaBlocks[name].ops
             s1 == [s EXCEPT !.at = s.at + MetaBlocks[name].bits]
             t1 == [t EXCEPT !.at = t.at + MetaBlocks[name].bits]
  <1>1. s1 \in States /\ s1.out = s.out
    BY AfterHeader
  <1>2. t1 \in States /\ t1.out = t.out /\ t1.verdict = t.verdict
    BY AfterHeader
  <1>3. /\ IsOps(ops)
        /\ MetaBlocks[name].kind = "stored" => \A i \in 1 .. Len(ops) : IsLiteral(ops[i])
    BY BlockFacts
  <1>4. /\ Compressed(s, name, local) = AfterOps(s1, ops, local)[Len(ops)]
        /\ Compressed(t, name, far) = AfterOps(t1, ops, far)[Len(ops)]
    BY DEF Compressed
  <1> HIDE DEF ops, s1, t1
  <1>5. Follows(t1, s1, p)
    BY <1>1, <1>2 DEF Follows, Reading
  <1>6. local = TRUE \/ \A i \in 1 .. Len(ops) : IsLiteral(ops[i])
    BY <1>3
  <1>7. Follows(AfterOps(t1, ops, far)[Len(ops)], AfterOps(s1, ops, local)[Len(ops)], p)
    BY <1>1, <1>2, <1>3, <1>4, <1>5, <1>6, OpsFollow
  <1> QED
    BY <1>4, <1>7

(***************************************************************************)
(* Turns of a decoder of the stream where a fragment stands at bit b.      *)
(***************************************************************************)
\* The first n cells are those of g from bit b on.
Placed(g, cells, b, n) ==
  b + n <= Len(g) /\ \A j \in 1 .. n : g[b + j] = cells[j]

LEMMA HoldsInPlace ==
  ASSUME NEW g, Len(g) \in Nat, NEW cells, Len(cells) \in Nat, NEW b \in Nat, NEW n \in Nat,
         Placed(g, cells, b, n), NEW name, NEW at \in Nat, NEW first \in Nat \ {0},
         NEW last \in Nat, first <= last + 1, at + last - first + 1 <= n,
         Holds(cells, at, name, first, last)
  PROVE  Holds(g, b + at, name, first, last)
  <1>1. b + at + last - first + 1 <= Len(g)
    BY DEF Placed
  <1>2. ASSUME NEW i \in first .. last PROVE g[b + at + i - first + 1] = <<name, i>>
    <2> DEFINE j == at + i - first + 1
    <2>1. j \in 1 .. n /\ b + at + i - first + 1 = b + j
      OBVIOUS
    <2>2. cells[j] = <<name, i>>
      BY DEF Holds
    <2> HIDE DEF j
    <2>3. g[b + j] = cells[j]
      BY <2>1 DEF Placed
    <2> QED
      BY <2>1, <2>2, <2>3
  <1> QED
    BY <1>1, <1>2 DEF Holds

LEMMA ZeroInPlace ==
  ASSUME NEW g, Len(g) \in Nat, NEW cells, NEW b \in Nat, NEW n \in Nat,
         Placed(g, cells, b, n), NEW from \in Nat, NEW to \in 0 .. n,
         ZeroFrom(cells, from, to)
  PROVE  ZeroFrom(g, b + from, b + to)
  <1>1. ASSUME NEW i \in b + from + 1 .. b + to PROVE g[i] = Zero
    <2> DEFINE j == i - b
    <2>1. j \in from + 1 .. to /\ j \in 1 .. n /\ b + j = i
      OBVIOUS
    <2> HIDE DEF j
    <2>2. cells[j] = Zero
      BY <2>1 DEF ZeroFrom
    <2>3. g[b + j] = cells[j]
      BY <2>1 DEF Placed
    <2> QED
      BY <2>1, <2>2, <2>3
  <1> QED
    BY <1>1 DEF ZeroFrom

LEMMA NameInPlace ==
  ASSUME NEW g, Len(g) \in Nat, NEW at \in Nat, NEW name \in DOMAIN MetaBlocks,
         Holds(g, at, name, 1, MetaBlocks[name].bits)
  PROVE  NameAt(g, at) = name /\ name # "none" /\ at < Len(g)
  <1> DEFINE n == MetaBlocks[name].bits
  <1>1. n \in Nat /\ n >= 1
    BY BlockFacts
  <1>2. at + n - 1 + 1 <= Len(g) /\ \A i \in 1 .. n : g[at + i - 1 + 1] = <<name, i>>
    BY DEF Holds
  <1> HIDE DEF n
  <1>3. at < Len(g)
    BY <1>1, <1>2
  <1>4. g[at + 1] = <<name, 1>>
    <2>1. 1 \in 1 .. n /\ at + 1 - 1 + 1 = at + 1
      BY <1>1
    <2>2. g[at + 1 - 1 + 1] = <<name, 1>>
      BY <1>2, <2>1
    <2> QED
      BY <2>1, <2>2
  <1>5. name # "none"
    BY ConcatAssumption
  <1> QED
    BY <1>3, <1>4, <1>5 DEF NameAt

LEMMA TurnIs ==
  ASSUME NEW g, Len(g) \in Nat, NEW t \in States, Reading(t),
         NEW name \in DOMAIN MetaBlocks, Holds(g, t.at, name, 1, MetaBlocks[name].bits)
  PROVE  Turn(g, t) = IF Reading(NextBlock(g, t, name)) /\ MetaBlocks[name].last
                      THEN EndStream(g, NextBlock(g, t, name))
                      ELSE NextBlock(g, t, name)
  <1>1. t.at \in Nat
    BY StateFields
  <1>2. NameAt(g, t.at) = name /\ name # "none"
    BY <1>1, NameInPlace
  <1> QED
    BY <1>2 DEF Turn

LEMMA StoredFollows ==
  ASSUME NEW g, Len(g) \in Nat, NEW cells, Len(cells) \in Nat, NEW b \in Nat, b % 8 = 0,
         NEW n \in Nat, Placed(g, cells, b, n),
         NEW s \in States, NEW t \in States, NEW p \in Bytes, Follows(t, s, p),
         t.at = b + s.at, NEW name \in DOMAIN MetaBlocks,
         MetaBlocks[name].kind = "stored",
         Reading(Stored(cells, s, name)), Stored(cells, s, name).at <= n
  PROVE  /\ Follows(Stored(g, t, name), Stored(cells, s, name), p)
         /\ Stored(g, t, name).at = b + Stored(cells, s, name).at
  <1> DEFINE header == MetaBlocks[name].bits
             start == AlignUp(s.at + header)
             data == 8 * Len(MetaBlocks[name].ops)
             c == Compressed(s, name, FALSE)
             d == Compressed(t, name, FALSE)
             fits == /\ start <= Len(cells) /\ ZeroFrom(cells, s.at + header, start)
                     /\ Holds(cells, start, name, header + 1, header + data)
  <1>1. header \in Nat /\ data \in Nat /\ s.at \in Nat /\ t.at \in Nat
    BY BlockFacts, StateFields
  <1>2. start \in Nat
    <2>1. s.at + header \in Nat
      BY <1>1
    <2> HIDE DEF header
    <2> QED
      BY <2>1, AlignFacts
  <1>3. AlignUp(t.at + header) = b + start
    <2>1. s.at + header \in Nat /\ t.at + header = b + (s.at + header)
      <3> HIDE DEF header
      <3> QED
        BY ONLY <1>1, t.at = b + s.at, b \in Nat
    <2>2. AlignUp(b + (s.at + header)) = b + AlignUp(s.at + header)
      <3> HIDE DEF header
      <3> QED
        BY <2>1, AlignedStart
    <2> QED
      BY <2>1, <2>2
  <1>4. c \in States /\ d \in States
    BY CompressedTyped
  <1>5. Stored(cells, s, name) = IF fits THEN [c EXCEPT !.at = start + data]
                                 ELSE Refuse(s, "misread")
    BY DEF Stored
  <1>6. fits
    <2>1. "misread" \in Verdicts
      BY DEF Verdicts
    <2>2. ~Reading(Refuse(s, "misread"))
      BY <2>1, StateFields DEF Reading
    <2> HIDE DEF fits, c, start, data
    <2> QED
      BY <1>5, <2>2
  <1>7. /\ Stored(cells, s, name) = [c EXCEPT !.at = start + data]
        /\ Stored(cells, s, name).at = start + data
        /\ Stored(cells, s, name).out = c.out /\ Reading(c)
    <2>1. Stored(cells, s, name) = [c EXCEPT !.at = start + data]
      BY <1>5, <1>6
    <2> HIDE DEF c, start, data, fits
    <2> QED
      BY <1>4, <2>1 DEF States, Reading
  <1>8. Follows(d, c, p)
    BY <1>7, CompressedFollows
  <1> HIDE DEF c, d
  <1>9. /\ b + start <= Len(g) /\ ZeroFrom(g, t.at + header, b + start)
        /\ Holds(g, b + start, name, header + 1, header + data)
    <2>1. start + data <= n /\ start \in 0 .. n /\ b + n <= Len(g)
      BY <1>1, <1>2, <1>7 DEF Placed
    <2>2. b + start <= Len(g)
      BY <1>1, <1>2, <2>1
    <2>3. ZeroFrom(g, b + (s.at + header), b + start)
      <3>1. ZeroFrom(cells, s.at + header, start) /\ s.at + header \in Nat
        BY <1>1, <1>6
      <3> HIDE DEF start
      <3> QED
        BY <2>1, <3>1, ZeroInPlace
    <2>4. b + (s.at + header) = t.at + header
      BY <1>1
    <2>5. Holds(g, b + start, name, header + 1, header + data)
      <3> DEFINE first == header + 1
                 last == header + data
      <3>1. Holds(cells, start, name, first, last)
        BY <1>6 DEF fits, first, last
      <3>2. /\ first \in Nat \ {0} /\ last \in Nat /\ first <= last + 1
            /\ start + last - first + 1 <= n
        <4>1. header + data \in Nat /\ start + (header + data) - (header + 1) + 1 = start + data
          <5> HIDE DEF header, data, start
          <5> QED
            BY <1>1, <1>2
        <4> HIDE DEF header, data, start
        <4> QED
          BY <1>1, <1>2, <2>1, <4>1 DEF first, last
      <3> HIDE DEF start, first, last
      <3>3. Holds(g, b + start, name, first, last)
        BY <1>2, <3>1, <3>2, HoldsInPlace
      <3> QED
        BY <3>3 DEF first, last
    <2> QED
      BY <2>2, <2>3, <2>4, <2>5
  <1>10. Stored(g, t, name) = [d EXCEPT !.at = b + start + data]
    <2> DEFINE from == AlignUp(t.at + header)
               holds == /\ from <= Len(g) /\ ZeroFrom(g, t.at + header, from)
                        /\ Holds(g, from, name, header + 1, header + data)
    <2>1. Stored(g, t, name) = IF holds THEN [d EXCEPT !.at = from + data]
                               ELSE Refuse(t, "misread")
      BY DEF Stored, d
    <2>2. from = b + start
      BY <1>3
    <2> HIDE DEF from, start, data, header
    <2>3. holds
      BY <1>9, <2>2
    <2> HIDE DEF holds
    <2> QED
      BY <2>1, <2>2, <2>3
  <1> HIDE DEF start, data, header, fits
  <1>11. b + start + data \in Nat /\ b + start + data = b + (start + data)
    BY <1>1, <1>2
  <1>12. /\ Stored(g, t, name).at = b + (start + data)
         /\ Stored(g, t, name).out = d.out
         /\ Stored(g, t, name).verdict = d.verdict
    BY <1>4, <1>10, <1>11 DEF States
  <1> QED
    BY <1>7, <1>8, <1>12 DEF Follows, Reading

LEMMA TurnFollows ==
  ASSUME NEW g, Len(g) \in Nat, NEW cells \in Seq(Cell), NEW b \in Nat,
         NEW bitLen \in Nat, Placed(g, cells, b, bitLen), bitLen <= Len(cells),
         HasStored(cells) => b % 8 = 0,
         NEW s \in States, NEW t \in States, NEW p \in Bytes, Follows(t, s, p),
         t.at = b + s.at,
         Reading(LocalTurn(cells, bitLen, s)), LocalTurn(cells, bitLen, s).at <= bitLen
  PROVE  /\ Follows(Turn(g, t), LocalTurn(cells, bitLen, s), p)
         /\ Turn(g, t).at = b + LocalTurn(cells, bitLen, s).at
  <1> DEFINE u == LocalTurn(cells, bitLen, s)
  <1>1. Len(cells) \in Nat /\ s.at \in Nat /\ t.at \in Nat /\ Reading(t)
    BY StateFields DEF Follows
  <1>2. u \in States /\ Reading(s) /\ s.at < bitLen /\ s.at < u.at
    BY <1>1, LocalTurnFacts
  <1>3. PICK name \in DOMAIN MetaBlocks :
          /\ Holds(cells, s.at, name, 1, MetaBlocks[name].bits)
          /\ \/ MetaBlocks[name].kind = "stored" /\ u = Stored(cells, s, name)
             \/ /\ MetaBlocks[name].kind = "compressed"
                /\ ~MetaBlocks[name].last
                /\ u = Compressed(s, name, TRUE)
    <2>2. \E name \in DOMAIN MetaBlocks : Reads(cells, s, u, name)
      BY <1>1, LocalTurnFacts
    <2> HIDE DEF u
    <2> QED
      BY <2>2 DEF Reads
  <1> HIDE DEF u
  <1> DEFINE n == MetaBlocks[name].bits
  <1>4. n \in Nat /\ n >= 1
    BY BlockFacts
  <1>5. ASSUME s.at + n <= bitLen
        PROVE  /\ Turn(g, t) = IF Reading(NextBlock(g, t, name)) /\ MetaBlocks[name].last
                               THEN EndStream(g, NextBlock(g, t, name))
                               ELSE NextBlock(g, t, name)
    <2>1. s.at + n - 1 + 1 <= bitLen /\ 1 <= n + 1
      BY <1>1, <1>4, <1>5
    <2> HIDE DEF n
    <2>2. Holds(g, b + s.at, name, 1, n)
      BY <1>1, <1>3, <1>4, <2>1, HoldsInPlace DEF n
    <2> QED
      BY <1>1, <2>2, TurnIs DEF n
  <1>6. CASE MetaBlocks[name].kind = "stored" /\ u = Stored(cells, s, name)
    <2>1. ~MetaBlocks[name].last
      BY <1>6, BlockFacts
    <2>2. b % 8 = 0
      <3>1. cells[s.at + 1] = <<name, 1>> /\ s.at + 1 \in DOMAIN cells
        <4>1. \A i \in 1 .. n : cells[s.at + i - 1 + 1] = <<name, i>>
          BY <1>3 DEF Holds
        <4>2. 1 \in 1 .. n /\ s.at + 1 - 1 + 1 = s.at + 1
          BY <1>1, <1>4
        <4>3. cells[s.at + 1 - 1 + 1] = <<name, 1>>
          <5> HIDE DEF n
          <5> QED
            BY <4>1, <4>2
        <4>4. s.at + 1 \in 1 .. Len(cells)
          BY <1>1, <1>2
        <4> QED
          BY <4>2, <4>3, <4>4, LenProperties
      <3>2. HasStored(cells)
        BY <1>6, <3>1 DEF HasStored
      <3> QED
        BY <3>2
    <2>3. s.at + n <= bitLen
      <3> DEFINE start == AlignUp(s.at + n)
                 data == 8 * Len(MetaBlocks[name].ops)
                 c == Compressed(s, name, FALSE)
      <3>1. u = [c EXCEPT !.at = start + data] \/ u = Refuse(s, "misread")
        BY <1>6 DEF Stored
      <3>2. u # Refuse(s, "misread")
        <4>1. "misread" \in Verdicts
          BY DEF Verdicts
        <4>2. Refuse(s, "misread").verdict = "misread"
          BY <4>1, StateFields
        <4> QED
          BY <4>2 DEF Reading, u
      <3>3. c \in States
        BY CompressedTyped
      <3>4. s.at + n \in Nat /\ data \in Nat
        BY <1>1, <1>4, BlockFacts
      <3>5. start \in Nat /\ s.at + n <= start
        BY <3>4, AlignFacts
      <3> HIDE DEF c, start, data
      <3>6. u.at = start + data
        BY <3>1, <3>2, <3>3 DEF States
      <3>7. u.at <= bitLen
        BY DEF u
      <3> HIDE DEF n
      <3> QED
        BY <1>1, <1>4, <3>4, <3>5, <3>6, <3>7
    <2>4. NextBlock(g, t, name) = Stored(g, t, name)
      BY <1>6 DEF NextBlock
    <2>5. Turn(g, t) = Stored(g, t, name)
      BY <1>5, <2>1, <2>3, <2>4
    <2>6. Follows(Stored(g, t, name), u, p) /\ Stored(g, t, name).at = b + u.at
      <3>1. Reading(Stored(cells, s, name)) /\ Stored(cells, s, name).at <= bitLen
        BY <1>6 DEF u
      <3>2. Len(cells) \in Nat
        OBVIOUS
      <3> HIDE DEF n
      <3>3. /\ Follows(Stored(g, t, name), Stored(cells, s, name), p)
            /\ Stored(g, t, name).at = b + Stored(cells, s, name).at
        BY <1>6, <2>2, <3>1, <3>2, StoredFollows
      <3> QED
        BY <1>6, <3>3
    <2> QED
      BY <2>5, <2>6 DEF u
  <1>7. CASE /\ MetaBlocks[name].kind = "compressed" /\ ~MetaBlocks[name].last
             /\ u = Compressed(s, name, TRUE)
    <2>1. u.at = s.at + n /\ u.at <= bitLen
      <3>1. u.at <= bitLen
        BY DEF u
      <3> QED
        BY <1>7, <3>1, CompressedTyped
    <2>2. NextBlock(g, t, name) = Compressed(t, name, FALSE)
      BY <1>7 DEF NextBlock
    <2>3. Turn(g, t) = Compressed(t, name, FALSE)
      BY <1>5, <1>7, <2>1, <2>2
    <2>4. Follows(Compressed(t, name, FALSE), u, p)
      <3>1. Reading(Compressed(s, name, TRUE))
        BY <1>7 DEF u
      <3>2. Follows(Compressed(t, name, FALSE), Compressed(s, name, TRUE), p)
        BY <3>1, CompressedFollows
      <3> QED
        BY <1>7, <3>2
    <2>5. Compressed(t, name, FALSE).at = t.at + n
      BY CompressedTyped
    <2>6. t.at + n = b + u.at
      BY <1>1, <1>4, <2>1
    <2> QED
      BY <2>3, <2>4, <2>5, <2>6 DEF u
  <1> QED
    BY <1>3, <1>6, <1>7

(***************************************************************************)
(* Whole payloads.                                                         *)
(***************************************************************************)
\* The loop over a payload reads on for m turns and is then at its end.
Run(cells, bitLen, m) ==
  /\ \A i \in 0 .. m : /\ Reading(LocalTurns(cells, bitLen)[i])
                       /\ LocalTurns(cells, bitLen)[i].at <= bitLen
  /\ LocalTurns(cells, bitLen)[m].at = bitLen
  /\ DecodePayload(cells, bitLen).out = LocalTurns(cells, bitLen)[m].out

LEMMA LocalRun ==
  ASSUME NEW cells, Len(cells) \in Nat, NEW bitLen \in Nat,
         DecodePayload(cells, bitLen).verdict = "ok"
  PROVE  \E m \in Nat : m < MaxTurns(cells) /\ Run(cells, bitLen, m)
  <1> DEFINE L == LocalTurns(cells, bitLen)
             N == MaxTurns(cells)
             Going == {i \in 0 .. N : Reading(L[i])}
  <1>1. /\ L \in [0 .. N -> States] /\ L[0] = Fresh(0)
        /\ \A i \in 1 .. N : L[i] = LocalTurn(cells, bitLen, L[i - 1])
    BY LocalTurnsUnfold
  <1>2. DecodePayload(cells, bitLen) = L[N]
    <2>1. Refuse(Fresh(0), "padding").verdict = "padding"
      <3>1. "padding" \in Verdicts
        BY DEF Verdicts
      <3> QED
        BY <3>1, FreshTyped, StateFields
    <2>2. \/ DecodePayload(cells, bitLen) = L[N]
          \/ DecodePayload(cells, bitLen) = Refuse(Fresh(0), "padding")
      BY DEF DecodePayload, MaxTurns
    <2> HIDE DEF L
    <2> QED
      BY <2>1, <2>2
  <1> HIDE DEF L
  <1>3. N \in Nat \ {0}
    BY MaxTurnsTyped
  <1> HIDE DEF N
  <1>4. ASSUME NEW i \in Nat, i < N
        PROVE  /\ L[i] \in States /\ L[i + 1] \in States
               /\ L[i + 1] = LocalTurn(cells, bitLen, L[i])
    <2>1. i \in 0 .. N /\ i + 1 \in 0 .. N /\ i + 1 \in 1 .. N
      BY <1>3, <1>4
    <2>2. L[i + 1] = LocalTurn(cells, bitLen, L[(i + 1) - 1])
      BY <1>1, <2>1
    <2>3. (i + 1) - 1 = i
      OBVIOUS
    <2> QED
      BY <1>1, <2>1, <2>2, <2>3
  <1>5. PICK m \in Going : \A i \in Going : i <= m
    <2>1. 0 \in Going
      BY <1>1, <1>3, FreshTyped
    <2>2. Going \in SUBSET Nat /\ \A i \in Going : i <= N
      BY <1>3
    <2> HIDE DEF Going
    <2> QED
      BY <1>3, <2>1, <2>2, BoundedSetHasLargest
  <1>6. m \in 0 .. N /\ Reading(L[m]) /\ \A i \in 0 .. N : Reading(L[i]) => i <= m
    BY <1>5
  <1> HIDE DEF Going
  <1>7. m < N
    <2>1. ~Reading(L[N])
      BY <1>2 DEF Reading
    <2> QED
      BY <1>3, <1>6, <2>1
  <1>8. ~Reading(L[m + 1])
    BY <1>3, <1>6, <1>7
  <1>9. L[N] = L[m + 1]
    <2> DEFINE Same == {j \in Nat : m + 1 + j <= N => L[m + 1 + j] = L[m + 1]}
    <2>1. 0 \in Same
      <3>1. m + 1 + 0 = m + 1
        BY <1>6
      <3> QED
        BY <3>1
    <2>2. ASSUME NEW j \in Nat, j \in Same PROVE j + 1 \in Same
      <3>1. SUFFICES ASSUME m + 1 + (j + 1) <= N PROVE L[m + 1 + (j + 1)] = L[m + 1]
        OBVIOUS
      <3> DEFINE i == m + 1 + j
      <3>2. i \in Nat /\ i < N /\ m + 1 + (j + 1) = i + 1
        BY <1>3, <1>6, <3>1
      <3>3. L[i] = L[m + 1]
        <4>1. m + 1 + j <= N => L[m + 1 + j] = L[m + 1]
          BY <2>2
        <4>2. m + 1 + j <= N
          BY <1>3, <1>6, <3>1
        <4> QED
          BY <4>1, <4>2
      <3> HIDE DEF i
      <3>4. L[i + 1] = LocalTurn(cells, bitLen, L[i]) /\ L[i] \in States
        BY <1>4, <3>2
      <3>5. L[i + 1] = L[i]
        BY <1>8, <3>3, <3>4, LocalTurnFacts
      <3> QED
        BY <3>2, <3>3, <3>5
    <2> HIDE DEF Same
    <2>3. \A j \in Nat : j \in Same
      BY <2>1, <2>2, AllNaturals
    <2>4. N - (m + 1) \in Nat /\ m + 1 + (N - (m + 1)) = N
      BY <1>3, <1>6, <1>7
    <2>5. N - (m + 1) \in Same
      BY <2>3, <2>4
    <2> QED
      BY <1>3, <2>4, <2>5 DEF Same
  <1>10. L[m].at = bitLen /\ L[m + 1].out = L[m].out
    <2>1. L[m + 1] = LocalTurn(cells, bitLen, L[m]) /\ L[m] \in States
      BY <1>4, <1>6, <1>7
    <2>2. L[m + 1].verdict = "ok"
      BY <1>2, <1>9
    <2> QED
      BY <1>6, <2>1, <2>2, LocalTurnFacts
  <1>11. ASSUME NEW i \in 0 .. m PROVE Reading(L[i]) /\ L[i].at <= bitLen
    <2> DEFINE Back == {j \in Nat : j <= m => Reading(L[m - j]) /\ L[m - j].at <= bitLen}
    <2>1. 0 \in Back
      <3>1. m - 0 = m /\ bitLen <= bitLen
        BY <1>6
      <3> QED
        BY <1>6, <1>10, <3>1
    <2>2. ASSUME NEW j \in Nat, j \in Back PROVE j + 1 \in Back
      <3>1. SUFFICES ASSUME j + 1 <= m
                     PROVE  Reading(L[m - (j + 1)]) /\ L[m - (j + 1)].at <= bitLen
        OBVIOUS
      <3> DEFINE k == m - (j + 1)
      <3>2. k \in Nat /\ k < N /\ m - j = k + 1 /\ j <= m
        BY <1>3, <1>6, <1>7, <3>1
      <3>3. Reading(L[k + 1]) /\ L[k + 1].at <= bitLen
        BY <2>2, <3>2
      <3> HIDE DEF k
      <3>4. /\ L[k + 1] = LocalTurn(cells, bitLen, L[k])
            /\ L[k] \in States /\ L[k + 1] \in States
        BY <1>4, <3>2
      <3>5. Reading(L[k]) /\ L[k].at < bitLen
        BY <3>3, <3>4, LocalTurnFacts
      <3>6. L[k].at \in Nat
        BY <3>4, StateFields
      <3> QED
        BY <3>5, <3>6 DEF k
    <2> HIDE DEF Back
    <2>3. \A j \in Nat : j \in Back
      BY <2>1, <2>2, AllNaturals
    <2>4. m - i \in Nat /\ m - i <= m /\ m - (m - i) = i
      BY <1>6
    <2>5. m - i \in Back
      BY <2>3, <2>4
    <2> QED
      BY <2>4, <2>5 DEF Back
  <1>12. Run(cells, bitLen, m)
    BY <1>2, <1>9, <1>10, <1>11 DEF Run, L
  <1>13. m \in Nat /\ m < MaxTurns(cells)
    BY <1>6, <1>7 DEF N
  <1> QED
    BY <1>12, <1>13

\* The decoder of a stream comes to bit `at` with `out` decoded.
Reaches(g, s, at, out) ==
  /\ at \in Nat /\ at <= Len(g)
  /\ \E k \in 0 .. BlocksBegun(g, at) :
       /\ Reading(Turns(g, s)[k])
       /\ Turns(g, s)[k].at = at /\ Turns(g, s)[k].out = out

\* Every decoder that has come so far goes on to `at` with `out`.
Leads(g, from, before, at, out) ==
  \A t \in States :
    Reading(t) /\ t.at = from /\ t.out = before =>
      Reading(Turn(g, t)) /\ Turn(g, t).at = at /\ Turn(g, t).out = out

\* A turn that reads on has met a meta-block's first bit.
LEMMA ReadsFromFirst ==
  ASSUME NEW g, NEW t \in States, Reading(Turn(g, t))
  PROVE  NameAt(g, t.at) # "none"
  <1>1. SUFFICES ASSUME NameAt(g, t.at) = "none", Reading(t) PROVE FALSE
    BY DEF Turn
  <1>2. Turn(g, t) = Refuse(t, "misread")
    BY <1>1 DEF Turn
  <1>3. Refuse(t, "misread").verdict = "misread"
    BY DEF Refuse, States
  <1> QED
    BY <1>2, <1>3 DEF Reading

LEMMA ReachesStep ==
  ASSUME NEW g, Len(g) \in Nat, NEW s \in States, NEW from, NEW before, NEW out,
         NEW at \in Nat, Reaches(g, s, from, before), from < at, at <= Len(g),
         Leads(g, from, before, at, out)
  PROVE  Reaches(g, s, at, out)
  <1>1. from \in Nat /\ from <= Len(g)
    BY DEF Reaches
  <1>2. PICK k \in 0 .. BlocksBegun(g, from) :
          /\ Reading(Turns(g, s)[k])
          /\ Turns(g, s)[k].at = from /\ Turns(g, s)[k].out = before
    BY DEF Reaches
  <1> DEFINE N == MaxTurns(g)
             here == BlocksBegun(g, from)
             there == BlocksBegun(g, at)
  <1>3. /\ here \in Nat /\ there \in Nat /\ BlocksBegun(g, Len(g)) \in Nat
        /\ here <= BlocksBegun(g, Len(g)) /\ there <= BlocksBegun(g, Len(g))
        /\ NameAt(g, from) # "none" => here + 1 <= there
    BY <1>1, BegunGrows
  <1>4. N = BlocksBegun(g, Len(g)) + 1
    BY DEF MaxTurns
  <1> HIDE DEF N, here, there
  <1>5. k \in 0 .. N /\ k + 1 \in 1 .. N /\ (k + 1) - 1 = k
    BY <1>2, <1>3, <1>4 DEF here
  <1>6. Turns(g, s)[k] \in States
    <2>1. Turns(g, s) \in [0 .. N -> States]
      BY TurnsUnfold DEF N
    <2> QED
      BY <1>5, <2>1
  <1>7. Turns(g, s)[k + 1] = Turn(g, Turns(g, s)[k])
    <2>1. Turns(g, s)[k + 1] = Turn(g, Turns(g, s)[(k + 1) - 1])
      BY <1>5, TurnsUnfold DEF N
    <2> QED
      BY <1>5, <2>1
  <1>8. /\ Reading(Turns(g, s)[k + 1])
        /\ Turns(g, s)[k + 1].at = at /\ Turns(g, s)[k + 1].out = out
    BY <1>2, <1>6, <1>7 DEF Leads
  <1>9. NameAt(g, from) # "none"
    <2>1. Reading(Turn(g, Turns(g, s)[k])) /\ Turns(g, s)[k] \in States
      BY <1>6, <1>7, <1>8
    <2> QED
      BY <1>2, <2>1, ReadsFromFirst
  <1>10. k + 1 \in 0 .. there
    BY <1>2, <1>5, <1>9, <1>3 DEF here
  <1> QED
    BY <1>8, <1>10 DEF Reaches, there

LEMMA ReachesFirst ==
  ASSUME NEW g, Len(g) \in Nat, NEW at \in Nat, at <= Len(g)
  PROVE  Reaches(g, Fresh(at), at, <<>>)
  <1>1. Fresh(at) \in States /\ Reading(Fresh(at))
    BY FreshTyped
  <1>2. Turns(g, Fresh(at))[0] = Fresh(at)
    BY <1>1, TurnsUnfold
  <1>3. Fresh(at).at = at /\ Fresh(at).out = <<>>
    BY DEF Fresh
  <1>4. 0 \in 0 .. BlocksBegun(g, at)
    <2>1. BlocksBegun(g, at) \in Nat
      BY BegunGrows
    <2> QED
      BY <2>1
  <1> QED
    BY <1>1, <1>2, <1>3, <1>4 DEF Reaches

\* A valid payload decodes as well, and to the same, from wherever it stands.
LEMMA PayloadFollows ==
  ASSUME NEW g, Len(g) \in Nat, NEW s0 \in States, NEW cells \in Seq(Cell), NEW b \in Nat,
         NEW bitLen \in Nat, Placed(g, cells, b, bitLen), bitLen <= Len(cells),
         HasStored(cells) => b % 8 = 0, NEW p \in Bytes, Reaches(g, s0, b, p),
         DecodePayload(cells, bitLen).verdict = "ok"
  PROVE  /\ DecodePayload(cells, bitLen).out \in Bytes
         /\ Reaches(g, s0, b + bitLen, p \o DecodePayload(cells, bitLen).out)
  <1> DEFINE L == LocalTurns(cells, bitLen)
  <1>1. Len(cells) \in Nat
    OBVIOUS
  <1> DEFINE N == MaxTurns(cells)
  <1>2. PICK m \in Nat : m < N /\ Run(cells, bitLen, m)
    BY <1>1, LocalRun
  <1>3. /\ \A i \in 0 .. m : Reading(L[i]) /\ L[i].at <= bitLen
        /\ L[m].at = bitLen /\ DecodePayload(cells, bitLen).out = L[m].out
    BY <1>2 DEF Run
  <1>4. /\ L \in [0 .. N -> States] /\ L[0] = Fresh(0) /\ N \in Nat
        /\ \A i \in 1 .. N : L[i] = LocalTurn(cells, bitLen, L[i - 1])
    BY <1>1, LocalTurnsUnfold, MaxTurnsTyped
  <1> HIDE DEF L, N
  <1> DEFINE There == {i \in Nat : i <= m => Reaches(g, s0, b + L[i].at, p \o L[i].out)}
  <1>5. 0 \in There
    <2>1. L[0].at = 0 /\ L[0].out = <<>>
      BY <1>4 DEF Fresh
    <2>2. b + 0 = b /\ p \o <<>> = p
      BY DEF Bytes
    <2> QED
      BY <2>1, <2>2
  <1>6. ASSUME NEW i \in Nat, i < m, i \in There PROVE i + 1 \in There
    <2>1. i \in 0 .. m /\ i + 1 \in 0 .. m /\ i + 1 \in 1 .. N /\ (i + 1) - 1 = i
          /\ i \in 0 .. N /\ i + 1 \in 0 .. N
      BY <1>2, <1>4, <1>6
    <2> DEFINE u == L[i]
               v == L[i + 1]
    <2>2. u \in States /\ v \in States
      BY <1>4, <2>1
    <2>3. v = LocalTurn(cells, bitLen, u)
      <3>1. L[i + 1] = LocalTurn(cells, bitLen, L[(i + 1) - 1])
        BY <1>4, <2>1
      <3> QED
        BY <2>1, <3>1
    <2>4. Reading(u) /\ Reading(v) /\ v.at <= bitLen
      BY <1>3, <2>1
    <2>5. Reaches(g, s0, b + u.at, p \o u.out)
      BY <1>6
    <2>6. SUFFICES Reaches(g, s0, b + v.at, p \o v.out)
      OBVIOUS
    <2> HIDE DEF u, v
    <2>7. u.at \in Nat /\ v.at \in Nat
      BY <2>2, StateFields
    <2>8. u.at < v.at
      BY <1>1, <2>2, <2>3, <2>4, LocalTurnFacts
    <2>9. Leads(g, b + u.at, p \o u.out, b + v.at, p \o v.out)
      <3>1. SUFFICES ASSUME NEW t \in States, Reading(t), t.at = b + u.at, t.out = p \o u.out
                     PROVE  /\ Reading(Turn(g, t)) /\ Turn(g, t).at = b + v.at
                            /\ Turn(g, t).out = p \o v.out
        BY DEF Leads
      <3>2. Follows(t, u, p)
        BY <3>1 DEF Follows
      <3>3. Follows(Turn(g, t), v, p) /\ Turn(g, t).at = b + v.at
        BY <2>2, <2>3, <2>4, <3>1, <3>2, TurnFollows
      <3> QED
        BY <3>3 DEF Follows
    <2>10. b + u.at < b + v.at /\ b + v.at <= Len(g) /\ b + v.at \in Nat
      BY <2>4, <2>7, <2>8 DEF Placed
    <2> QED
      BY <2>5, <2>9, <2>10, ReachesStep
  <1> HIDE DEF There
  <1>7. m \in There
    <2>1. m \in Nat /\ \A i \in Nat : i < m /\ i \in There => i + 1 \in There
      BY <1>6
    <2>2. \A i \in 0 .. m : i \in There
      BY <1>5, <2>1, UpTo
    <2> QED
      BY <2>1, <2>2
  <1>8. Reaches(g, s0, b + L[m].at, p \o L[m].out)
    BY <1>7 DEF There
  <1>9. L[m].out \in Bytes
    <2>1. L[m] \in States
      BY <1>2, <1>4
    <2> QED
      BY <2>1, StateFields DEF Bytes
  <1> QED
    BY <1>3, <1>8, <1>9

(***************************************************************************)
(* Parts, and the end of a stream.                                         *)
(***************************************************************************)
\* Induction downwards.
LEMMA DownFrom ==
  ASSUME NEW N \in Nat, NEW S, N \in S,
         \A n \in Nat : n < N /\ n + 1 \in S => n \in S
  PROVE  \A n \in 0 .. N : n \in S
  <1> DEFINE T == {j \in Nat : j <= N => N - j \in S}
  <1>1. 0 \in T
    <2>1. N - 0 = N
      OBVIOUS
    <2> QED
      BY <2>1
  <1>2. ASSUME NEW j \in Nat, j \in T PROVE j + 1 \in T
    <2>1. SUFFICES ASSUME j + 1 <= N PROVE N - (j + 1) \in S
      OBVIOUS
    <2> DEFINE n == N - (j + 1)
    <2>2. n \in Nat /\ n < N /\ n + 1 = N - j /\ j <= N
      BY <2>1
    <2>3. n + 1 \in S
      BY <1>2, <2>2
    <2> HIDE DEF n
    <2>4. n \in S
      BY <2>2, <2>3
    <2> QED
      BY <2>4 DEF n
  <1> HIDE DEF T
  <1>3. \A j \in Nat : j \in T
    BY <1>1, <1>2, AllNaturals
  <1>4. ASSUME NEW n \in 0 .. N PROVE n \in S
    <2>1. N - n \in Nat /\ N - n <= N /\ N - (N - n) = n
      OBVIOUS
    <2>2. N - n \in T
      BY <1>3, <2>1
    <2> QED
      BY <2>1, <2>2 DEF T
  <1> QED
    BY <1>4

\* A meta-block just written is there for whoever reads what begins so.
LEMMA WrittenHolds ==
  ASSUME NEW cells \in Seq(Cell), NEW name \in DOMAIN MetaBlocks,
         NEW g, Len(g) \in Nat, Begins(g, Written(cells, name))
  PROVE  Holds(g, Len(cells), name, 1, MetaBlocks[name].bits)
  <1> DEFINE n == MetaBlocks[name].bits
             w == Written(cells, name)
             len == Len(cells)
  <1>1. len \in Nat /\ n \in Nat \ {0}
    BY BlockFacts
  <1>2. Len(w) = len + n /\ \A i \in 1 .. n : w[len + i] = <<name, i>>
    BY WrittenTyped
  <1>3. Len(w) <= Len(g) /\ \A j \in 1 .. Len(w) : g[j] = w[j]
    BY DEF Begins
  <1> HIDE DEF n, w, len
  <1>4. len + n - 1 + 1 <= Len(g)
    BY <1>1, <1>2, <1>3
  <1>5. ASSUME NEW i \in 1 .. n PROVE g[len + i - 1 + 1] = <<name, i>>
    <2>1. len + i - 1 + 1 = len + i /\ len + i \in 1 .. Len(w)
      BY <1>1, <1>2
    <2>2. g[len + i] = w[len + i]
      BY <1>3, <2>1
    <2> QED
      BY <1>2, <2>1, <2>2
  <1>6. Holds(g, len, name, 1, n)
    BY <1>4, <1>5 DEF Holds
  <1> QED
    BY <1>6 DEF n, len

\* A part decodes to its content from wherever it stands.
LEMMA PartFollows ==
  ASSUME NEW cells \in Seq(Cell), NEW names \in Inputs, NEW g, Len(g) \in Nat,
         Begins(g, Part(cells, names)), g \in Seq(Cell), NEW s0 \in States, NEW p \in Bytes,
         Reaches(g, s0, Len(cells), p)
  PROVE  /\ Content(names).out \in Bytes
         /\ Reaches(g, s0, Len(Part(cells, names)), p \o Content(names).out)
  <1> DEFINE N == Len(names)
             W == AfterBlocks(cells, names)
             C == AfterContents(names)
  <1>1. /\ names \in Seq(DOMAIN MetaBlocks) /\ N \in Nat
        /\ \A i \in 1 .. N : /\ names[i] \in DOMAIN MetaBlocks
                             /\ MetaBlocks[names[i]].kind = "compressed"
                             /\ ~MetaBlocks[names[i]].last
        /\ Reading(Content(names))
    BY EncoderAssumption
  <1>2. /\ W \in [0 .. N -> Seq(Cell)] /\ W[0] = cells
        /\ \A i \in 1 .. N : W[i] = Written(W[i - 1], names[i])
    BY <1>1, BlocksUnfold
  <1>3. /\ C \in [0 .. N -> States] /\ C[0] = Fresh(0)
        /\ \A i \in 1 .. N : C[i] = Compressed(C[i - 1], names[i], TRUE)
    BY <1>1, ContentsUnfold
  <1>4. WrittenAll(cells, names) = W[N] /\ Content(names) = C[N]
    BY DEF WrittenAll, Content
  <1>5. Part(cells, names) = Aligned(W[N])
    BY <1>4 DEF Part
  <1>6. \A i \in 0 .. N : Begins(W[N], W[i])
    BY <1>1, <1>4, WrittenAllTyped
  <1> HIDE DEF W, C, N
  <1>7. ASSUME NEW i \in Nat, i < N
        PROVE  /\ W[i] \in Seq(Cell) /\ W[i + 1] \in Seq(Cell)
               /\ C[i] \in States /\ C[i + 1] \in States
               /\ names[i + 1] \in DOMAIN MetaBlocks
               /\ MetaBlocks[names[i + 1]].kind = "compressed"
               /\ ~MetaBlocks[names[i + 1]].last
               /\ W[i + 1] = Written(W[i], names[i + 1])
               /\ C[i + 1] = Compressed(C[i], names[i + 1], TRUE)
    <2>1. i \in 0 .. N /\ i + 1 \in 0 .. N /\ i + 1 \in 1 .. N /\ (i + 1) - 1 = i
      BY <1>1, <1>7
    <2>2. /\ W[i + 1] = Written(W[(i + 1) - 1], names[i + 1])
          /\ C[i + 1] = Compressed(C[(i + 1) - 1], names[i + 1], TRUE)
      BY <1>2, <1>3, <2>1
    <2> QED
      BY <1>1, <1>2, <1>3, <2>1, <2>2
  <1>8. \A i \in 0 .. N : Reading(C[i])
    <2> DEFINE Going == {i \in Nat : Reading(C[i])}
    <2>1. N \in Going
      BY <1>1, <1>4
    <2>2. ASSUME NEW i \in Nat, i < N, i + 1 \in Going PROVE i \in Going
      <3>1. C[i + 1] = Compressed(C[i], names[i + 1], TRUE) /\ C[i] \in States
            /\ names[i + 1] \in DOMAIN MetaBlocks
        BY <1>7, <2>2
      <3>2. Reading(C[i + 1])
        BY <2>2
      <3>3. ASSUME NEW s \in States, NEW name \in DOMAIN MetaBlocks,
                   Reading(Compressed(s, name, TRUE))
            PROVE  Reading(s)
        <4>1. TRUE \in BOOLEAN
          OBVIOUS
        <4> HIDE DEF Reading, Compressed
        <4> QED
          BY ONLY <3>3, <4>1, CompressedTyped
      <3>4. Reading(Compressed(C[i], names[i + 1], TRUE))
        BY ONLY <3>1, <3>2
      <3>5. Reading(C[i])
        BY ONLY <3>1, <3>3, <3>4
      <3> QED
        BY <3>5
    <2> HIDE DEF Going
    <2>3. \A i \in 0 .. N : i \in Going
      BY <1>1, <2>1, <2>2, DownFrom
    <2> QED
      BY <2>3 DEF Going
  <1>9. /\ Begins(g, Aligned(W[N])) /\ W[N] \in Seq(Cell) /\ Aligned(W[N]) \in Seq(Cell)
        /\ Begins(Aligned(W[N]), W[N])
    <2>1. W[N] \in Seq(Cell)
      BY <1>1, <1>2
    <2> QED
      BY <1>5, <2>1, AlignedTyped
  <1> DEFINE There == {i \in Nat : i <= N => Reaches(g, s0, Len(W[i]), p \o C[i].out)}
  <1>10. 0 \in There
    <2>1. C[0].out = <<>> /\ p \o <<>> = p
      BY <1>3 DEF Fresh, Bytes
    <2> QED
      BY <1>2, <2>1
  <1>11. ASSUME NEW i \in Nat, i < N, i \in There PROVE i + 1 \in There
    <2> DEFINE name == names[i + 1]
               u == C[i]
               v == C[i + 1]
               w == W[i]
               x == W[i + 1]
    <2>1. /\ w \in Seq(Cell) /\ x \in Seq(Cell) /\ u \in States /\ v \in States
          /\ name \in DOMAIN MetaBlocks /\ MetaBlocks[name].kind = "compressed"
          /\ ~MetaBlocks[name].last
          /\ x = Written(w, name) /\ v = Compressed(u, name, TRUE)
      BY <1>7, <1>11
    <2>2. Reading(v)
      <3>1. i + 1 \in 0 .. N
        BY <1>1, <1>11
      <3> QED
        BY <1>8, <3>1
    <2>3. Begins(g, x)
      <3>1. i + 1 \in 0 .. N
        BY <1>1, <1>11
      <3>2. Begins(W[N], x)
        BY <1>6, <3>1
      <3>3. Begins(Aligned(W[N]), x)
        BY <1>9, <2>1, <3>2, BeginsTransitive
      <3> QED
        BY <1>9, <2>1, <3>3, BeginsTransitive
    <2>4. Reaches(g, s0, Len(w), p \o u.out)
      <3>1. i <= N => Reaches(g, s0, Len(W[i]), p \o C[i].out)
        BY <1>11
      <3>2. i <= N
        BY <1>1, <1>11
      <3> QED
        BY <3>1, <3>2
    <2>5. SUFFICES Reaches(g, s0, Len(x), p \o v.out)
      OBVIOUS
    <2> HIDE DEF name, u, v, w, x
    <2>6. Len(w) \in Nat /\ Len(x) \in Nat /\ Len(w) < Len(x) /\ Len(x) <= Len(g)
          /\ Len(x) = Len(w) + MetaBlocks[name].bits
      <3>1. MetaBlocks[name].bits \in Nat \ {0} /\ Len(w) \in Nat
        BY <2>1, BlockFacts
      <3>2. Len(x) = Len(w) + MetaBlocks[name].bits
        BY <2>1, WrittenTyped
      <3> QED
        BY <2>3, <3>1, <3>2 DEF Begins
    <2>7. Holds(g, Len(w), name, 1, MetaBlocks[name].bits)
      BY <2>1, <2>3, WrittenHolds
    <2>8. Leads(g, Len(w), p \o u.out, Len(x), p \o v.out)
      <3>1. SUFFICES ASSUME NEW t \in States, Reading(t), t.at = Len(w), t.out = p \o u.out
                     PROVE  /\ Reading(Turn(g, t)) /\ Turn(g, t).at = Len(x)
                            /\ Turn(g, t).out = p \o v.out
        BY DEF Leads
      <3>2. Holds(g, t.at, name, 1, MetaBlocks[name].bits)
        BY <2>7, <3>1
      <3>3. NextBlock(g, t, name) = Compressed(t, name, FALSE)
        BY <2>1 DEF NextBlock
      <3>4. Turn(g, t) = Compressed(t, name, FALSE)
        BY <2>1, <3>1, <3>2, <3>3, TurnIs
      <3>5. Follows(t, u, p)
        BY <3>1 DEF Follows
      <3>6. Follows(Compressed(t, name, FALSE), v, p)
        BY <2>1, <2>2, <3>5, CompressedFollows
      <3>7. Compressed(t, name, FALSE).at = t.at + MetaBlocks[name].bits
        BY <2>1, CompressedTyped
      <3> QED
        BY <2>6, <3>1, <3>4, <3>6, <3>7 DEF Follows
    <2> QED
      BY <2>4, <2>6, <2>8, ReachesStep
  <1> HIDE DEF There
  <1>12. Reaches(g, s0, Len(W[N]), p \o C[N].out)
    <2>1. \A i \in 0 .. N : i \in There
      BY <1>1, <1>10, <1>11, UpTo
    <2> QED
      BY <1>1, <2>1 DEF There
  <1>13. C[N].out \in Bytes
    <2>1. C[N] \in States
      BY <1>1, <1>3
    <2> QED
      BY <2>1, StateFields DEF Bytes
  <1> DEFINE w == W[N]
             a == Aligned(w)
             empty == MetaBlocks["emptyMetadata"]
             q == p \o C[N].out
  <1>14. /\ "emptyMetadata" \in DOMAIN MetaBlocks /\ empty.kind = "metadata"
         /\ ~empty.last /\ empty.bits \in Nat \ {0}
    <2>1. "emptyMetadata" \in DOMAIN MetaBlocks
      BY ConcatAssumption
    <2> QED
      BY <2>1, ConcatAssumption, BlockFacts
  <1>15. /\ w \in Seq(Cell) /\ a \in Seq(Cell)
         /\ Begins(a, Written(w, "emptyMetadata"))
         /\ Len(a) = AlignUp(Len(w) + empty.bits)
         /\ \A j \in Len(w) + empty.bits + 1 .. Len(a) : a[j] = Zero
    BY <1>9, AlignedTyped
  <1>16. Reaches(g, s0, Len(w), q) /\ Begins(g, a)
    BY <1>9, <1>12
  <1> HIDE DEF w, a, empty, q
  <1>17. /\ Len(w) \in Nat /\ Len(a) \in Nat /\ Len(w) < Len(a) /\ Len(a) <= Len(g)
         /\ Len(w) + empty.bits <= Len(a)
    <2>1. Len(w) + empty.bits <= AlignUp(Len(w) + empty.bits)
      <3>1. Len(w) + empty.bits \in Nat
        BY <1>14, <1>15
      <3> QED
        BY <3>1, AlignFacts
    <2> QED
      BY <1>14, <1>15, <1>16, <2>1 DEF Begins
  <1>18. Holds(g, Len(w), "emptyMetadata", 1, empty.bits)
    <2>1. Written(w, "emptyMetadata") \in Seq(Cell)
      BY <1>14, <1>15, WrittenTyped
    <2>2. Begins(g, Written(w, "emptyMetadata"))
      BY <1>15, <1>16, <2>1, BeginsTransitive
    <2> QED
      BY <1>14, <1>15, <2>2, WrittenHolds DEF empty
  <1>19. ZeroFrom(g, Len(w) + empty.bits, Len(a))
    <2>1. ASSUME NEW j \in Len(w) + empty.bits + 1 .. Len(a) PROVE g[j] = Zero
      <3>1. j \in 1 .. Len(a)
        BY <1>14, <1>17
      <3>2. g[j] = a[j]
        BY <1>16, <3>1 DEF Begins
      <3> QED
        BY <1>15, <3>2
    <2> QED
      BY <2>1 DEF ZeroFrom
  <1>20. Leads(g, Len(w), q, Len(a), q)
    <2>1. SUFFICES ASSUME NEW t \in States, Reading(t), t.at = Len(w), t.out = q
                   PROVE  /\ Reading(Turn(g, t)) /\ Turn(g, t).at = Len(a)
                          /\ Turn(g, t).out = q
      BY DEF Leads
    <2>2. NextBlock(g, t, "emptyMetadata") = SkipMetadata(g, t, "emptyMetadata")
      BY <1>14 DEF NextBlock, empty
    <2> DEFINE end == AlignUp(t.at + empty.bits)
    <2>3. SkipMetadata(g, t, "emptyMetadata")
            = IF end <= Len(g) /\ ZeroFrom(g, t.at + empty.bits, end)
              THEN [t EXCEPT !.at = end] ELSE Refuse(t, "misread")
      BY DEF SkipMetadata, empty
    <2>4. end = Len(a)
      BY <1>15, <2>1
    <2> HIDE DEF end
    <2>5. SkipMetadata(g, t, "emptyMetadata") = [t EXCEPT !.at = Len(a)]
      BY <1>17, <1>19, <2>1, <2>3, <2>4
    <2>6. Turn(g, t) = SkipMetadata(g, t, "emptyMetadata")
      <3>1. Holds(g, t.at, "emptyMetadata", 1, MetaBlocks["emptyMetadata"].bits)
        BY <1>18, <2>1 DEF empty
      <3>2. ~MetaBlocks["emptyMetadata"].last
        BY <1>14 DEF empty
      <3> QED
        BY <1>14, <2>1, <2>2, <3>1, <3>2, TurnIs
    <2>7. Turn(g, t) = [t EXCEPT !.at = Len(a)]
      BY <2>5, <2>6
    <2> QED
      BY <2>1, <2>7 DEF States, Reading
  <1>21. Reaches(g, s0, Len(a), q)
    BY <1>16, <1>17, <1>20, ReachesStep
  <1> QED
    BY <1>4, <1>5, <1>13, <1>21 DEF w, a, q

\* Once the decoder is at the trailer, the stream ends and is complete.
LEMMA StreamEnds ==
  ASSUME NEW c \in Seq(Cell), NEW s0 \in States, NEW out \in Bytes,
         Reaches(Trailed(c), s0, Len(c), out)
  PROVE  Stream(Trailed(c), s0).verdict = "ok" /\ Stream(Trailed(c), s0).out = out
  <1> DEFINE g == Trailed(c)
             w == Written(c, "trailer")
             trailer == MetaBlocks["trailer"]
  <1>1. /\ "trailer" \in DOMAIN MetaBlocks /\ trailer.kind = "lastEmpty" /\ trailer.last
        /\ trailer.ops = <<>> /\ trailer.bits \in Nat \ {0}
    <2>1. "trailer" \in DOMAIN MetaBlocks
      BY ConcatAssumption
    <2> QED
      BY <2>1, ConcatAssumption, BlockFacts
  <1>2. w \in Seq(Cell) /\ Len(w) = Len(c) + trailer.bits
    BY <1>1, WrittenTyped
  <1>3. /\ g \in Seq(Cell) /\ Len(g) = AlignUp(Len(w)) /\ Begins(g, w)
        /\ \A j \in Len(w) + 1 .. Len(g) : g[j] = Zero
    <2>1. g = Padded(w)
      BY DEF Trailed
    <2>2. Len(w) \in Nat
      BY <1>2
    <2> HIDE DEF g, w
    <2>3. /\ Padded(w) \in Seq(Cell) /\ Len(Padded(w)) = AlignUp(Len(w))
          /\ \A j \in 1 .. Len(w) : Padded(w)[j] = w[j]
          /\ \A j \in Len(w) + 1 .. AlignUp(Len(w)) : Padded(w)[j] = Zero
      BY <1>2, PaddedTyped
    <2>4. Len(w) <= AlignUp(Len(w))
      BY <2>2, AlignFacts
    <2> QED
      BY <2>1, <2>3, <2>4 DEF Begins
  <1>4. Holds(g, Len(c), "trailer", 1, trailer.bits)
    BY <1>1, <1>3, WrittenHolds
  <1> HIDE DEF w, g, trailer
  <1>5. Len(c) \in Nat /\ Len(w) \in Nat /\ Len(g) \in Nat /\ Len(w) <= Len(g)
    BY <1>2, <1>3 DEF Begins
  <1>6. ASSUME NEW t \in States, Reading(t), t.at = Len(c), t.out = out
        PROVE  Turn(g, t).verdict = "ok" /\ Turn(g, t).out = out
    <2> DEFINE u == [t EXCEPT !.at = Len(w)]
    <2>1. NextBlock(g, t, "trailer") = Compressed(t, "trailer", FALSE)
      BY <1>1 DEF NextBlock, trailer
    <2>2. Compressed(t, "trailer", FALSE) = u
      <3> DEFINE h == [t EXCEPT !.at = t.at + MetaBlocks["trailer"].bits]
      <3> DEFINE ops == MetaBlocks["trailer"].ops
      <3>1. Compressed(t, "trailer", FALSE) = AfterOps(h, ops, FALSE)[Len(ops)]
        BY DEF Compressed
      <3>2. MetaBlocks["trailer"].ops = <<>> /\ Len(<<>>) = 0
        BY <1>1 DEF trailer
      <3>3. h \in States
        BY <1>1, AfterHeader
      <3>4. h = u
        BY <1>2, <1>6 DEF trailer
      <3> HIDE DEF h, u
      <3>5. IsOps(MetaBlocks["trailer"].ops)
        BY <1>1, BlockFacts
      <3>6. AfterOps(h, MetaBlocks["trailer"].ops, FALSE)[0] = h
        BY <3>3, <3>5, AfterOpsUnfold
      <3> QED
        BY <3>1, <3>2, <3>4, <3>6
    <2>3. u \in States /\ u.verdict = t.verdict /\ u.at = Len(w) /\ u.out = out
      BY <1>5, <1>6 DEF States
    <2> HIDE DEF u
    <2>4. Turn(g, t) = EndStream(g, u)
      <3>1. Holds(g, t.at, "trailer", 1, MetaBlocks["trailer"].bits)
        BY <1>4, <1>6 DEF trailer
      <3>2. MetaBlocks["trailer"].last /\ Reading(u)
        BY <1>1, <1>6, <2>3 DEF trailer, Reading
      <3> QED
        BY <1>1, <1>5, <1>6, <2>1, <2>2, <3>1, <3>2, TurnIs
    <2>5. AlignUp(u.at) = Len(g) /\ ZeroFrom(g, u.at, Len(g))
      BY <1>3, <2>3 DEF ZeroFrom
    <2>6. EndStream(g, u) = [u EXCEPT !.verdict = "ok"]
      BY <2>5 DEF EndStream
    <2> QED
      BY <2>3, <2>4, <2>6 DEF States
  <1>7. PICK k \in 0 .. BlocksBegun(g, Len(c)) : /\ Reading(Turns(g, s0)[k])
                                           /\ Turns(g, s0)[k].at = Len(c)
                                           /\ Turns(g, s0)[k].out = out
    BY DEF Reaches, g
  <1> DEFINE T == Turns(g, s0)
             N == MaxTurns(g)
  <1>8. T \in [0 .. N -> States] /\ \A i \in 1 .. N : T[i] = Turn(g, T[i - 1])
    BY <1>5, TurnsUnfold
  <1>9. /\ Reading(T[k]) /\ T[k].at = Len(c) /\ T[k].out = out
        /\ k \in Nat /\ N \in Nat /\ k + 1 <= N
    <2>1. Len(c) <= Len(g) /\ Len(c) \in Nat /\ Len(g) \in Nat
      BY <1>1, <1>2, <1>5
    <2>2. /\ BlocksBegun(g, Len(c)) \in Nat /\ BlocksBegun(g, Len(g)) \in Nat
          /\ BlocksBegun(g, Len(c)) <= BlocksBegun(g, Len(g))
      BY <2>1, BegunGrows
    <2>3. N = BlocksBegun(g, Len(g)) + 1
      BY DEF MaxTurns
    <2> HIDE DEF T, N
    <2>4. k \in Nat /\ N \in Nat /\ k + 1 <= N
      BY <1>7, <2>2, <2>3
    <2> QED
      BY <1>7, <2>4 DEF T
  <1>10. Stream(g, s0) = T[N]
    BY DEF Stream, MaxTurns
  <1> HIDE DEF T, N
  <1>11. ASSUME NEW i \in Nat, i < N
         PROVE  T[i] \in States /\ T[i + 1] \in States /\ T[i + 1] = Turn(g, T[i])
    <2>1. i \in 0 .. N /\ i + 1 \in 0 .. N /\ i + 1 \in 1 .. N /\ (i + 1) - 1 = i
      BY <1>9, <1>11
    <2>2. T[i + 1] = Turn(g, T[(i + 1) - 1])
      BY <1>8, <2>1
    <2> QED
      BY <1>8, <2>1, <2>2
  <1>12. T[k + 1].verdict = "ok" /\ T[k + 1].out = out
    <2>1. T[k] \in States /\ T[k + 1] = Turn(g, T[k])
      BY <1>9, <1>11
    <2> QED
      BY <1>6, <1>9, <2>1
  <1> DEFINE Same == {j \in Nat : k + 1 + j <= N => T[k + 1 + j] = T[k + 1]}
  <1>13. 0 \in Same
    <2>1. k + 1 + 0 = k + 1
      BY <1>9
    <2> QED
      BY <2>1
  <1>14. ASSUME NEW j \in Nat, j \in Same PROVE j + 1 \in Same
    <2>1. SUFFICES ASSUME k + 1 + (j + 1) <= N PROVE T[k + 1 + (j + 1)] = T[k + 1]
      OBVIOUS
    <2> DEFINE i == k + 1 + j
    <2>2. i \in Nat /\ i < N /\ i <= N /\ k + 1 + (j + 1) = i + 1
      BY <1>9, <2>1
    <2>3. T[i] = T[k + 1]
      <3>1. i <= N => T[i] = T[k + 1]
        BY <1>14
      <3> QED
        BY <2>2, <3>1
    <2> HIDE DEF i
    <2>4. T[i + 1] = Turn(g, T[i]) /\ T[i] \in States
      BY <1>11, <2>2
    <2>5. ~Reading(T[i])
      BY <1>12, <2>3 DEF Reading
    <2>6. T[i + 1] = T[i]
      BY <1>5, <2>4, <2>5, TurnTyped
    <2> QED
      BY <2>2, <2>3, <2>6
  <1>15. T[N] = T[k + 1]
    <2> HIDE DEF Same
    <2>1. \A j \in Nat : j \in Same
      BY <1>13, <1>14, AllNaturals
    <2>2. N - (k + 1) \in Nat /\ k + 1 + (N - (k + 1)) = N /\ N <= N
      BY <1>9
    <2>3. N - (k + 1) \in Same
      BY <2>1, <2>2
    <2> QED
      BY <2>2, <2>3 DEF Same
  <1> QED
    BY <1>10, <1>12, <1>15 DEF g

(***************************************************************************)
(* Streams: one payload or part after another.                             *)
(***************************************************************************)
LEMMA TrailedTyped ==
  ASSUME NEW c \in Seq(Cell)
  PROVE  /\ Trailed(c) \in Seq(Cell) /\ Begins(Trailed(c), c)
         /\ Len(Trailed(c)) \in Nat /\ Len(c) \in Nat /\ Len(c) < Len(Trailed(c))
  <1> DEFINE w == Written(c, "trailer")
             g == Trailed(c)
  <1>1. "trailer" \in DOMAIN MetaBlocks
    BY ConcatAssumption
  <1>2. w \in Seq(Cell) /\ Len(c) < Len(w) /\ Begins(w, c) /\ Len(w) \in Nat
    <2>1. /\ w \in Seq(Cell) /\ Begins(w, c)
          /\ Len(w) = Len(c) + MetaBlocks["trailer"].bits
      BY <1>1, WrittenTyped
    <2>2. MetaBlocks["trailer"].bits \in Nat \ {0} /\ Len(c) \in Nat
      BY <1>1, BlockFacts
    <2> HIDE DEF w
    <2> QED
      BY <2>1, <2>2
  <1>3. g = Padded(w)
    BY DEF Trailed
  <1> HIDE DEF w, g
  <1>4. /\ g \in Seq(Cell) /\ Len(g) = AlignUp(Len(w))
        /\ \A j \in 1 .. Len(w) : g[j] = w[j]
    BY <1>2, <1>3, PaddedTyped
  <1>5. Len(w) <= Len(g)
    BY <1>2, <1>4, AlignFacts
  <1>6. Begins(g, w)
    BY <1>4, <1>5 DEF Begins
  <1>7. Begins(g, c)
    BY <1>2, <1>4, <1>6, BeginsTransitive
  <1>8. Len(g) \in Nat /\ Len(c) \in Nat
    BY <1>4
  <1> QED
    BY <1>2, <1>4, <1>5, <1>7, <1>8 DEF g

\* What grows begins with what it was.
LEMMA Grows ==
  ASSUME NEW K \in Nat, NEW body \in [0 .. K -> Seq(Cell)],
         \A i \in 1 .. K : Begins(body[i], body[i - 1])
  PROVE  \A i \in 0 .. K : Begins(body[K], body[i])
  <1> DEFINE S == {i \in Nat : Begins(body[K], body[i])}
  <1>1. K \in S
    BY DEF Begins
  <1>2. ASSUME NEW i \in Nat, i < K, i + 1 \in S PROVE i \in S
    <2>1. i \in 0 .. K /\ i + 1 \in 0 .. K /\ i + 1 \in 1 .. K /\ K \in 0 .. K
      BY <1>2
    <2>2. Begins(body[i + 1], body[i])
      <3>1. (i + 1) - 1 = i
        OBVIOUS
      <3>2. Begins(body[i + 1], body[(i + 1) - 1])
        BY <2>1
      <3> QED
        BY <3>1, <3>2
    <2>3. Begins(body[K], body[i + 1])
      BY <1>2
    <2>4. body[K] \in Seq(Cell) /\ body[i + 1] \in Seq(Cell) /\ body[i] \in Seq(Cell)
      BY <2>1
    <2>5. Begins(body[K], body[i])
      BY <2>2, <2>3, <2>4, BeginsTransitive
    <2> QED
      BY <2>5
  <1> HIDE DEF S
  <1>3. \A i \in 0 .. K : i \in S
    BY <1>1, <1>2, DownFrom
  <1> QED
    BY <1>3 DEF S

\* Whatever was decoded up to bit `from`, `content` follows up to bit `at`.
Carries(g, from, at, content) ==
  \A s0 \in States, p \in Bytes :
    Reaches(g, s0, from, p) => Reaches(g, s0, at, p \o content)

LEMMA StreamDecodes ==
  ASSUME NEW K \in Nat, NEW body \in [0 .. K -> Seq(Cell)],
         NEW content \in Seq(Bytes), Len(content) = K,
         \A i \in 1 .. K : Begins(body[i], body[i - 1]),
         \A i \in 1 .. K : Carries(Trailed(body[K]), Len(body[i - 1]), Len(body[i]), content[i]),
         NEW j \in 0 .. K
  PROVE  LET s == Stream(Trailed(body[K]), Fresh(Len(body[j])))
         IN  s.verdict = "ok" /\ s.out = FlattenSeq(SubSeq(content, j + 1, K))
  <1> DEFINE c == body[K]
             g == Trailed(c)
             s0 == Fresh(Len(body[j]))
             Out(i) == FlattenSeq(SubSeq(content, j + 1, i))
  <1>1. c \in Seq(Cell) /\ K \in 0 .. K
    OBVIOUS
  <1>2. \A i \in 0 .. K : Begins(c, body[i]) /\ body[i] \in Seq(Cell)
    BY Grows
  <1>3. /\ g \in Seq(Cell) /\ Begins(g, c) /\ Len(g) \in Nat
        /\ Len(c) \in Nat /\ Len(c) < Len(g)
    BY <1>1, TrailedTyped
  <1>4. ASSUME NEW i \in 0 .. K
        PROVE  /\ SubSeq(content, j + 1, i) \in Seq(Bytes)
               /\ Out(i) \in Bytes /\ Len(body[i]) \in Nat /\ Len(body[i]) <= Len(g)
    <2>1. ASSUME NEW k \in j + 1 .. i PROVE content[k] \in Bytes
      <3>1. k \in 1 .. Len(content)
        BY <2>1
      <3> QED
        BY <3>1
    <2>2. SubSeq(content, j + 1, i) \in Seq(Bytes)
      <3>1. j + 1 \in Int /\ i \in Int
        OBVIOUS
      <3> QED
        BY <2>1, <3>1, SubSeqProperties
    <2>3. Len(body[i]) \in Nat /\ Len(body[i]) <= Len(c)
      <3>1. body[i] \in Seq(Cell) /\ Begins(c, body[i])
        BY <1>2
      <3> HIDE DEF c
      <3> QED
        BY <3>1 DEF Begins
    <2>4. Out(i) \in Bytes
      BY <2>2, FlattenTyped
    <2> HIDE DEF c, g, Out
    <2>5. Len(body[i]) <= Len(g)
      BY <1>3, <2>3
    <2> QED
      BY <2>2, <2>3, <2>4, <2>5
  <1>5. Len(body[j]) \in Nat /\ s0 \in States
    BY <1>4, FreshTyped
  <1> DEFINE There == {n \in Nat : j + n <= K => Reaches(g, s0, Len(body[j + n]), Out(j + n))}
  <1>6. 0 \in There
    <2>1. Reaches(g, s0, Len(body[j]), <<>>)
      <3> HIDE DEF g
      <3> QED
        BY <1>3, <1>4, ReachesFirst
    <2>2. Out(j) = <<>>
      <3>1. SubSeq(content, j + 1, j) = <<>>
        BY SubSeqEmpty
      <3>2. <<>> \in Seq(Bytes) /\ Len(<<>>) = 0
        BY EmptySeq
      <3> QED
        BY <3>1, <3>2, FlattenTyped
    <2>3. j + 0 = j
      OBVIOUS
    <2> HIDE DEF Out, g, s0
    <2> QED
      BY <2>1, <2>2, <2>3
  <1>7. ASSUME NEW n \in Nat, n \in There PROVE n + 1 \in There
    <2>1. SUFFICES ASSUME j + (n + 1) <= K
                   PROVE  Reaches(g, s0, Len(body[j + (n + 1)]), Out(j + (n + 1)))
      OBVIOUS
    <2> DEFINE i == j + n
    <2>2. /\ i \in 0 .. K /\ j + (n + 1) = i + 1 /\ i + 1 \in 1 .. K /\ i + 1 \in 0 .. K
          /\ (i + 1) - 1 = i /\ i <= K
      BY <2>1
    <2>3. Reaches(g, s0, Len(body[i]), Out(i))
      <3>1. i <= K => Reaches(g, s0, Len(body[i]), Out(i))
        BY <1>7
      <3> QED
        BY <2>2, <3>1
    <2>4. SubSeq(content, j + 1, i + 1) = Append(SubSeq(content, j + 1, i), content[i + 1])
      <3>1. /\ content[i + 1] \in Bytes /\ j + 1 \in 1 .. Len(content)
            /\ i + 1 \in j + 1 .. Len(content)
        BY <2>2
      <3>2. SubSeq(content, j + 1, i + 1)
              = SubSeq(content, j + 1, (i + 1) - 1) \o <<content[i + 1]>>
        <4> HIDE DEF i
        <4> QED
          BY <3>1, SubSeqRecursiveSecond
      <3>3. SubSeq(content, j + 1, i) \in Seq(Bytes)
        BY <1>4, <2>2
      <3> HIDE DEF i
      <3>4. SubSeq(content, j + 1, i) \o <<content[i + 1]>>
              = Append(SubSeq(content, j + 1, i), content[i + 1])
        BY <3>1, <3>3, AppendIsConcat
      <3> QED
        BY <2>2, <3>2, <3>4
    <2>5. Out(i + 1) = Out(i) \o content[i + 1]
      <3>1. content[i + 1] \in Bytes
        BY <2>2
      <3>2. SubSeq(content, j + 1, i) \in Seq(Bytes)
        BY <1>4, <2>2
      <3>3. FlattenSeq(Append(SubSeq(content, j + 1, i), content[i + 1]))
              = FlattenSeq(SubSeq(content, j + 1, i)) \o content[i + 1]
        BY <3>1, <3>2, FlattenAppend
      <3> QED
        BY <2>4, <3>3
    <2>6. Carries(g, Len(body[i]), Len(body[i + 1]), content[i + 1])
      <3>1. Carries(g, Len(body[(i + 1) - 1]), Len(body[i + 1]), content[i + 1])
        BY <2>2
      <3> QED
        BY <2>2, <3>1
    <2>7. Out(i) \in Bytes
      BY <1>4, <2>2
    <2> HIDE DEF Out, g, s0, i
    <2>8. Reaches(g, s0, Len(body[i + 1]), Out(i) \o content[i + 1])
      BY <1>5, <2>3, <2>6, <2>7 DEF Carries
    <2> QED
      BY <2>2, <2>5, <2>8
  <1>8. Reaches(g, s0, Len(c), Out(K))
    <2> HIDE DEF There
    <2>1. \A n \in Nat : n \in There
      BY <1>6, <1>7, AllNaturals
    <2>2. K - j \in Nat /\ j + (K - j) = K /\ K <= K
      OBVIOUS
    <2>3. K - j \in There
      BY <2>1, <2>2
    <2>4. j + (K - j) <= K => Reaches(g, s0, Len(body[j + (K - j)]), Out(j + (K - j)))
      <3> HIDE DEF g, s0, Out
      <3> QED
        BY <2>3 DEF There
    <2> HIDE DEF g, s0, Out
    <2> QED
      BY <2>2, <2>4
  <1>9. Out(K) \in Bytes
    BY <1>1, <1>4
  <1> HIDE DEF Out, s0, c
  <1>10. Stream(g, s0).verdict = "ok" /\ Stream(g, s0).out = Out(K)
    BY <1>1, <1>5, <1>8, <1>9, StreamEnds
  <1> QED
    BY <1>10 DEF Out, s0, c

\* The streams of an assembler and of assemble_rfc7932_parts.
LEMMA HeaderTyped == Header \in Seq(Cell) /\ Len(Header) = HeaderBits
  <1>1. HeaderBits \in Nat /\ 1 <= HeaderBits + 1 /\ HeaderBits - 1 + 1 = HeaderBits
    BY ConcatAssumption
  <1> QED
    BY <1>1, CellsTyped DEF Header

LEMMA JoinBegins ==
  ASSUME NEW a \in Seq(Cell), NEW b \in Seq(Cell)
  PROVE  /\ Begins(a \o b, a) /\ Len(a \o b) = Len(a) + Len(b)
         /\ \A i \in 1 .. Len(b) : (a \o b)[Len(a) + i] = b[i]
  <1>1. /\ Len(a) \in Nat /\ Len(b) \in Nat /\ Len(a \o b) = Len(a) + Len(b)
        /\ \A i \in 1 .. Len(a) + Len(b) :
             (a \o b)[i] = IF i <= Len(a) THEN a[i] ELSE b[i - Len(a)]
    BY ConcatProperties
  <1>2. \A i \in 1 .. Len(a) : (a \o b)[i] = a[i]
    BY <1>1
  <1>3. ASSUME NEW i \in 1 .. Len(b) PROVE (a \o b)[Len(a) + i] = b[i]
    <2> DEFINE k == Len(a) + i
    <2>1. k \in 1 .. Len(a) + Len(b) /\ ~(k <= Len(a)) /\ k - Len(a) = i
      BY <1>1
    <2> HIDE DEF k
    <2>2. (a \o b)[k] = b[k - Len(a)]
      BY <1>1, <2>1
    <2> QED
      BY <2>1, <2>2 DEF k
  <1> QED
    BY <1>1, <1>2, <1>3 DEF Begins

\* The contents of fragments.
Contents(fs) == [i \in 1 .. Len(fs) |-> DecodePayload(fs[i].payload, fs[i].bitLen).out]

\* A stored meta-block needs its fragment to start at a byte.
InPlace(fs) ==
  \A i \in 1 .. Len(fs) : HasStored(fs[i].payload) => Len(Bodies(fs)[i - 1]) % 8 = 0

LEMMA ContentsTyped ==
  ASSUME NEW fs, Accepted(fs)
  PROVE  Contents(fs) \in Seq(Bytes) /\ Len(Contents(fs)) = Len(fs)
  <1>1. Len(fs) \in Nat /\ \A i \in 1 .. Len(fs) : fs[i] \in Fragments /\ Valid(fs[i])
    BY DEF Accepted
  <1>2. ASSUME NEW i \in 1 .. Len(fs)
        PROVE  DecodePayload(fs[i].payload, fs[i].bitLen).out \in Bytes
    <2> DEFINE f == fs[i]
               cells == f.payload
    <2>1. /\ f.bitLen \in Nat /\ cells \in Seq(Cell)
          /\ DecodePayload(cells, f.bitLen).verdict = "ok"
      BY <1>1, FragmentTyped DEF IsFragment, Valid, Matches
    <2> HIDE DEF f, cells
    <2>2. Len(cells) \in Nat
      BY <2>1
    <2>3. PICK m \in Nat : m < MaxTurns(cells) /\ Run(cells, f.bitLen, m)
      BY <2>1, <2>2, LocalRun
    <2>4. /\ LocalTurns(cells, f.bitLen) \in [0 .. MaxTurns(cells) -> States]
          /\ MaxTurns(cells) \in Nat
      BY <2>1, <2>2, LocalTurnsUnfold, MaxTurnsTyped
    <2>5. m \in 0 .. MaxTurns(cells)
      BY <2>3, <2>4
    <2>6. LocalTurns(cells, f.bitLen)[m] \in States
      BY <2>4, <2>5
    <2>7. DecodePayload(cells, f.bitLen).out \in Bytes
      BY <2>3, <2>6, StateFields DEF Run, Bytes
    <2> QED
      BY <2>7 DEF f, cells
  <1>3. Contents(fs) \in [1 .. Len(fs) -> Bytes]
    BY <1>2 DEF Contents
  <1> QED
    BY <1>1, <1>3

LEMMA FragmentsDecode ==
  ASSUME NEW fs, Accepted(fs), InPlace(fs), NEW j \in 0 .. Len(fs)
  PROVE  LET s == Stream(Trailed(Bodies(fs)[Len(fs)]), Fresh(Len(Bodies(fs)[j])))
         IN  /\ s.verdict = "ok"
             /\ s.out = FlattenSeq(SubSeq(Contents(fs), j + 1, Len(fs)))
  <1> DEFINE K == Len(fs)
             body == Bodies(fs)
             content == Contents(fs)
             g == Trailed(body[K])
  <1>1. K \in Nat /\ \A i \in 1 .. K : fs[i] \in Fragments /\ Valid(fs[i])
    BY DEF Accepted
  <1>2. /\ body \in [0 .. K -> Seq(Cell)]
        /\ \A i \in 1 .. K : body[i] = body[i - 1] \o FragmentBits(fs[i])
    BY BodiesUnfold
  <1>3. \A i \in 1 .. K : HasStored(fs[i].payload) => Len(body[i - 1]) % 8 = 0
    BY DEF InPlace
  <1> HIDE DEF K, body
  <1>4. ASSUME NEW i \in 1 .. K
        PROVE  /\ Begins(body[i], body[i - 1]) /\ body[i - 1] \in Seq(Cell)
               /\ body[i] \in Seq(Cell)
    <2>1. i - 1 \in 0 .. K /\ i \in 0 .. K
      BY <1>1
    <2>2. FragmentBits(fs[i]) \in Seq(Cell)
      BY <1>1, FragmentBitsTyped
    <2>3. body[i - 1] \in Seq(Cell) /\ body[i] \in Seq(Cell)
      BY <1>2, <2>1
    <2> QED
      BY <1>2, <2>2, <2>3, JoinBegins
  <1>5. \A i \in 0 .. K : Begins(body[K], body[i]) /\ body[i] \in Seq(Cell)
    BY <1>1, <1>2, <1>4, Grows
  <1>6. /\ g \in Seq(Cell) /\ Begins(g, body[K]) /\ Len(g) \in Nat
    <2>1. body[K] \in Seq(Cell)
      BY <1>1, <1>2
    <2> QED
      BY <2>1, TrailedTyped
  <1> HIDE DEF g
  <1>7. ASSUME NEW i \in 1 .. K
        PROVE  Carries(g, Len(body[i - 1]), Len(body[i]),
                       DecodePayload(fs[i].payload, fs[i].bitLen).out)
    <2> DEFINE f == fs[i]
               cells == f.payload
               b == Len(body[i - 1])
               d == DecodePayload(cells, f.bitLen)
    <2>1. f \in Fragments /\ Valid(f)
      BY <1>1
    <2>2. /\ FragmentBits(f) \in Seq(Cell) /\ Len(FragmentBits(f)) = f.bitLen
          /\ f.bitLen \in Nat /\ f.bitLen <= Len(f.payload)
          /\ \A k \in 1 .. f.bitLen : FragmentBits(f)[k] = f.payload[k]
      BY <2>1, FragmentBitsTyped
    <2>3. cells \in Seq(Cell)
      BY <2>1, FragmentTyped DEF IsFragment
    <2>4. d.verdict = "ok"
      BY <2>1 DEF Valid, Matches
    <2>5. HasStored(cells) => b % 8 = 0
      BY <1>3
    <2>6. /\ b \in Nat /\ Len(body[i]) = b + f.bitLen
          /\ Placed(g, cells, b, f.bitLen)
      <3>1. body[i - 1] \in Seq(Cell) /\ body[i] \in Seq(Cell)
            /\ body[i] = body[i - 1] \o FragmentBits(f)
        BY <1>2, <1>4
      <3>2. /\ Len(body[i]) = Len(body[i - 1]) + Len(FragmentBits(f))
            /\ \A k \in 1 .. Len(FragmentBits(f)) :
                 body[i][Len(body[i - 1]) + k] = FragmentBits(f)[k]
        <4> DEFINE was == body[i - 1]
                   bits == FragmentBits(f)
        <4>1. was \in Seq(Cell) /\ bits \in Seq(Cell) /\ body[i] = was \o bits
          BY <2>2, <3>1
        <4> HIDE DEF was, bits
        <4>2. /\ Len(was \o bits) = Len(was) + Len(bits)
              /\ \A k \in 1 .. Len(bits) : (was \o bits)[Len(was) + k] = bits[k]
          BY <4>1, JoinBegins
        <4> QED
          BY <4>1, <4>2 DEF was, bits
      <3>3. Begins(g, body[i])
        <4>1. i \in 0 .. K /\ K \in 0 .. K
          BY <1>1
        <4>2. Begins(body[K], body[i]) /\ body[K] \in Seq(Cell)
          BY <1>5, <4>1
        <4> QED
          BY <1>6, <3>1, <4>2, BeginsTransitive
      <3>4. b \in Nat
        BY <3>1
      <3>5. b = Len(body[i - 1])
        OBVIOUS
      <3> HIDE DEF f, cells, b
      <3>6. Len(body[i]) = b + f.bitLen /\ b + f.bitLen <= Len(g)
        BY <2>2, <3>2, <3>3, <3>5 DEF Begins
      <3>7. ASSUME NEW k \in 1 .. f.bitLen PROVE g[b + k] = cells[k]
        <4>1. body[i][b + k] = FragmentBits(f)[k]
          BY <2>2, <3>2, <3>5
        <4>2. b + k \in 1 .. Len(body[i])
          BY <2>2, <3>4, <3>6
        <4>3. g[b + k] = body[i][b + k]
          BY <3>3, <4>2 DEF Begins
        <4> QED
          BY <2>2, <4>1, <4>3 DEF cells
      <3> QED
        BY <3>4, <3>6, <3>7 DEF Placed
    <2> HIDE DEF b, cells
    <2>7. ASSUME NEW s0 \in States, NEW p \in Bytes, Reaches(g, s0, b, p)
          PROVE  d.out \in Bytes /\ Reaches(g, s0, b + f.bitLen, p \o d.out)
      <3>1. f.bitLen <= Len(cells)
        BY <2>2 DEF cells
      <3> HIDE DEF f
      <3> QED
        BY <1>6, <2>2, <2>3, <2>4, <2>5, <2>6, <2>7, <3>1, PayloadFollows
    <2>8. Carries(g, b, Len(body[i]), d.out)
      <3> HIDE DEF d, f
      <3> QED
        BY <2>6, <2>7 DEF Carries
    <2> QED
      BY <2>8 DEF b, cells
  <1>8. content \in Seq(Bytes) /\ Len(content) = K
        /\ \A i \in 1 .. K : content[i] = DecodePayload(fs[i].payload, fs[i].bitLen).out
    <2>1. content = [i \in 1 .. K |-> DecodePayload(fs[i].payload, fs[i].bitLen).out]
      BY DEF Contents, K
    <2>2. content \in Seq(Bytes) /\ Len(content) = K
      BY ContentsTyped DEF K
    <2> HIDE DEF content
    <2> QED
      BY <2>1, <2>2
  <1>9. \A i \in 1 .. K : Carries(g, Len(body[i - 1]), Len(body[i]), content[i])
    BY <1>7, <1>8
  <1>10. j \in 0 .. K
    BY DEF K
  <1> HIDE DEF content
  <1>11. LET s == Stream(g, Fresh(Len(body[j])))
         IN  s.verdict = "ok" /\ s.out = FlattenSeq(SubSeq(content, j + 1, K))
    BY <1>1, <1>2, <1>4, <1>8, <1>9, <1>10, StreamDecodes DEF g
  <1> QED
    BY <1>11 DEF g, body, content, K

\* The contents of parts.
PartContents(inputs) == [i \in 1 .. Len(inputs) |-> Content(inputs[i]).out]

LEMMA PartContentsTyped ==
  ASSUME NEW inputs \in Seq(Inputs)
  PROVE  PartContents(inputs) \in Seq(Bytes) /\ Len(PartContents(inputs)) = Len(inputs)
  <1>1. Len(inputs) \in Nat /\ \A i \in 1 .. Len(inputs) : inputs[i] \in Inputs
    OBVIOUS
  <1>2. ASSUME NEW names \in Inputs PROVE Content(names).out \in Bytes
    <2>1. names \in Seq(DOMAIN MetaBlocks) /\ Len(names) \in Nat
      BY EncoderAssumption
    <2>2. Len(names) \in 0 .. Len(names)
      BY <2>1
    <2>3. AfterContents(names)[Len(names)] \in States
      BY <2>1, <2>2, ContentsUnfold
    <2> QED
      BY <2>3, StateFields DEF Content, Bytes
  <1>3. PartContents(inputs) \in [1 .. Len(inputs) -> Bytes]
    BY <1>1, <1>2 DEF PartContents
  <1> QED
    BY <1>1, <1>3

LEMMA PartsDecode ==
  ASSUME NEW inputs \in Seq(Inputs), NEW j \in 0 .. Len(inputs)
  PROVE  LET s == Stream(Trailed(PartBodies(inputs)[Len(inputs)]),
                         Fresh(Len(PartBodies(inputs)[j])))
         IN  /\ s.verdict = "ok"
             /\ s.out = FlattenSeq(SubSeq(PartContents(inputs), j + 1, Len(inputs)))
  <1> DEFINE K == Len(inputs)
             body == PartBodies(inputs)
             content == PartContents(inputs)
             g == Trailed(body[K])
  <1>1. K \in Nat /\ \A i \in 1 .. K : inputs[i] \in Inputs /\ inputs[i] \in Seq(DOMAIN MetaBlocks)
    BY EncoderAssumption
  <1>2. /\ body \in [0 .. K -> Seq(Cell)]
        /\ \A i \in 1 .. K : body[i] = Part(body[i - 1], inputs[i])
    BY PartBodiesUnfold
  <1> HIDE DEF K, body
  <1>3. ASSUME NEW i \in 1 .. K
        PROVE  /\ Begins(body[i], body[i - 1]) /\ body[i - 1] \in Seq(Cell)
               /\ body[i] \in Seq(Cell)
    <2>1. i - 1 \in 0 .. K /\ i \in 0 .. K
      BY <1>1
    <2>2. body[i - 1] \in Seq(Cell) /\ body[i] \in Seq(Cell)
      BY <1>2, <2>1
    <2> QED
      BY <1>1, <1>2, <2>2, PartTyped
  <1>4. \A i \in 0 .. K : Begins(body[K], body[i]) /\ body[i] \in Seq(Cell)
    BY <1>1, <1>2, <1>3, Grows
  <1>5. /\ g \in Seq(Cell) /\ Begins(g, body[K]) /\ Len(g) \in Nat
    <2>1. body[K] \in Seq(Cell)
      BY <1>1, <1>2
    <2> QED
      BY <2>1, TrailedTyped
  <1> HIDE DEF g
  <1>6. ASSUME NEW i \in 1 .. K
        PROVE  Carries(g, Len(body[i - 1]), Len(body[i]), Content(inputs[i]).out)
    <2> DEFINE names == inputs[i]
               cells == body[i - 1]
    <2>1. names \in Inputs /\ cells \in Seq(Cell) /\ body[i] = Part(cells, names)
      BY <1>1, <1>2, <1>3
    <2>2. Begins(g, Part(cells, names))
      <3>1. i \in 0 .. K /\ K \in 0 .. K
        BY <1>1
      <3>2. Begins(body[K], body[i]) /\ body[K] \in Seq(Cell) /\ body[i] \in Seq(Cell)
        BY <1>4, <3>1
      <3>3. Begins(g, body[i])
        BY <1>5, <3>2, BeginsTransitive
      <3> QED
        BY <2>1, <3>3
    <2> HIDE DEF names, cells
    <2>3. ASSUME NEW s0 \in States, NEW p \in Bytes, Reaches(g, s0, Len(cells), p)
          PROVE  Reaches(g, s0, Len(body[i]), p \o Content(names).out)
      BY <1>5, <2>1, <2>2, <2>3, PartFollows
    <2>4. Carries(g, Len(cells), Len(body[i]), Content(names).out)
      BY <2>3 DEF Carries
    <2> QED
      BY <2>4 DEF cells, names
  <1>7. content \in Seq(Bytes) /\ Len(content) = K
        /\ \A i \in 1 .. K : content[i] = Content(inputs[i]).out
    <2>1. content = [i \in 1 .. K |-> Content(inputs[i]).out]
      BY DEF PartContents, K
    <2>2. content \in Seq(Bytes) /\ Len(content) = K
      BY PartContentsTyped DEF K
    <2> HIDE DEF content
    <2> QED
      BY <2>1, <2>2
  <1>8. \A i \in 1 .. K : Carries(g, Len(body[i - 1]), Len(body[i]), content[i])
    BY <1>6, <1>7
  <1>9. j \in 0 .. K
    BY DEF K
  <1> HIDE DEF content
  <1>10. LET s == Stream(g, Fresh(Len(body[j])))
         IN  s.verdict = "ok" /\ s.out = FlattenSeq(SubSeq(content, j + 1, K))
    BY <1>1, <1>2, <1>3, <1>7, <1>8, <1>9, StreamDecodes DEF g
  <1> QED
    BY <1>10 DEF g, body, content, K

(***************************************************************************)
(* The inductive invariant.  What is staged was made or received, each of  *)
(* it valid and all of it within the cap; and the stream written last is   *)
(* that of what is staged still, or that of some parts.                    *)
(***************************************************************************)
TypeInv == made \subseteq Fragments /\ staged \in Seq(Fragments)

StreamKnown ==
  \/ stream = Nothing
  \/ stream = StreamOf(staged)
  \/ \E inputs \in Seq(Inputs) : stream = StreamOfParts(inputs)

IInv == TypeInv /\ Assembles(staged) /\ StreamKnown

LEMMA NothingStaged == InputLen(<<>>) = 0
  <1> DEFINE fs == <<>>
             Good(g) == g = [i \in 0 .. Len(fs) |-> IF i = 0 THEN 0
                                                    ELSE g[i - 1] + fs[i].inputLen]
             sum == CHOOSE g : Good(g)
             g0 == [i \in 0 .. 0 |-> 0]
  <1>1. Len(fs) = 0 /\ \A i \in 0 .. 0 : i = 0
    OBVIOUS
  <1>2. Good(g0)
    BY <1>1
  <1>3. Good(sum)
    <2> HIDE DEF Good
    <2> QED
      BY <1>2
  <1>4. InputLen(fs) = sum[Len(fs)]
    BY DEF InputLen
  <1>5. 0 \in 0 .. Len(fs)
    BY <1>1
  <1>6. sum = [i \in 0 .. Len(fs) |-> IF i = 0 THEN 0 ELSE sum[i - 1] + fs[i].inputLen]
    BY <1>3
  <1> HIDE DEF sum
  <1>7. sum[0] = 0
    BY <1>5, <1>6
  <1> QED
    BY <1>1, <1>4, <1>7

LEMMA InitIInv == Init => IInv
  <1> SUFFICES ASSUME Init PROVE IInv
    OBVIOUS
  <1>1. made = {} /\ staged = <<>> /\ stream = Nothing
    BY DEF Init
  <1>2. <<>> \in Seq(Fragments) /\ DOMAIN <<>> = {}
    OBVIOUS
  <1>3. InputLen(<<>>) <= AssembledCap
    BY NothingStaged, ConcatAssumption
  <1> QED
    BY <1>1, <1>2, <1>3 DEF IInv, TypeInv, Assembles, StreamKnown

\* The staging loop of push_all keeps what it accepted.
LEMMA PushKeeps ==
  ASSUME IInv, NEW n \in Nat, NEW fs \in [1 .. n -> made \cup Received], PushAll(fs)
  PROVE  IInv'
  <1>1. /\ made \subseteq Fragments /\ staged \in Seq(Fragments) /\ Len(staged) \in Nat
        /\ \A i \in 1 .. Len(staged) : Valid(staged[i])
        /\ InputLen(staged) <= AssembledCap
    BY DEF IInv, TypeInv, Assembles
  <1>2. fs \in Seq(Fragments) /\ Len(fs) = n
    <2>1. fs \in [1 .. n -> Fragments]
      BY <1>1 DEF Fragments
    <2> QED
      BY <2>1
  <1> DEFINE before(i) == staged \o SubSeq(fs, 1, i - 1)
  <1>3. PICK m \in 0 .. Len(fs) :
          /\ \A i \in 1 .. m : Valid(fs[i]) /\ Fits(before(i), fs[i])
          /\ staged' = before(m + 1)
    BY DEF PushAll
  <1>4. stream' = Nothing /\ made' = made
    BY DEF PushAll
  <1>5. ASSUME NEW k \in 0 .. n
        PROVE  /\ SubSeq(fs, 1, k) \in Seq(Fragments) /\ Len(SubSeq(fs, 1, k)) = k
               /\ \A i \in 1 .. k : SubSeq(fs, 1, k)[i] = fs[i]
    <2>1. \A i \in 1 .. k : fs[i] \in Fragments
      BY <1>2
    <2>2. 1 \in Int /\ k \in Int
      OBVIOUS
    <2>3. /\ SubSeq(fs, 1, k) \in Seq(Fragments)
          /\ Len(SubSeq(fs, 1, k)) = IF 1 <= k THEN k - 1 + 1 ELSE 0
          /\ \A i \in 1 .. k - 1 + 1 : SubSeq(fs, 1, k)[i] = fs[1 + i - 1]
      BY <2>1, <2>2, SubSeqProperties
    <2>4. Len(SubSeq(fs, 1, k)) = k
      BY <2>3
    <2>5. ASSUME NEW i \in 1 .. k PROVE SubSeq(fs, 1, k)[i] = fs[i]
      <3>1. i \in 1 .. k - 1 + 1 /\ 1 + i - 1 = i
        OBVIOUS
      <3> QED
        BY <2>3, <3>1
    <2> QED
      BY <2>3, <2>4, <2>5
  <1> DEFINE more == SubSeq(fs, 1, m)
  <1>6. /\ more \in Seq(Fragments) /\ Len(more) = m
        /\ \A i \in 1 .. m : more[i] = fs[i]
    BY <1>2, <1>5
  <1>7. staged' = staged \o more
    <2>1. (m + 1) - 1 = m
      OBVIOUS
    <2> QED
      BY <1>3, <2>1
  <1>8. staged' \in Seq(Fragments)
    <2> HIDE DEF more
    <2> QED
      BY <1>1, <1>6, <1>7, ConcatProperties
  <1>9. ASSUME NEW i \in DOMAIN staged' PROVE Valid(staged'[i])
    <2> HIDE DEF more, before
    <2>1. /\ Len(staged \o more) = Len(staged) + Len(more)
          /\ \A k \in 1 .. Len(staged) + Len(more) :
               (staged \o more)[k] = IF k <= Len(staged) THEN staged[k]
                                     ELSE more[k - Len(staged)]
      BY <1>1, <1>6, ConcatProperties
    <2>2. i \in 1 .. Len(staged) + m
      <3>1. DOMAIN (staged \o more) = 1 .. Len(staged \o more)
        <4>1. staged \o more \in Seq(Fragments)
          BY <1>7, <1>8
        <4> QED
          BY <4>1, LenProperties
      <3> QED
        BY <1>6, <1>7, <2>1, <3>1
    <2>3. CASE i <= Len(staged)
      <3>1. staged'[i] = staged[i] /\ i \in 1 .. Len(staged)
        BY <1>1, <1>6, <1>7, <2>1, <2>2, <2>3
      <3> QED
        BY <1>1, <3>1
    <2>4. CASE i > Len(staged)
      <3> DEFINE k == i - Len(staged)
      <3>1. k \in 1 .. m /\ staged'[i] = more[k]
        BY <1>1, <1>6, <1>7, <2>1, <2>2, <2>4
      <3> HIDE DEF k
      <3> QED
        BY <1>3, <1>6, <3>1
    <2> QED
      BY <1>1, <2>2, <2>3, <2>4
  <1>10. InputLen(staged') <= AssembledCap
    <2>1. CASE m = 0
      <3>1. more = <<>>
        BY <1>6, <2>1
      <3>2. staged' = staged
        <4> HIDE DEF more
        <4> QED
          BY <1>1, <1>7, <3>1, ConcatEmptySeq
      <3> QED
        BY <1>1, <3>2
    <2>2. CASE m # 0
      <3>1. m \in 1 .. m /\ m \in 1 .. Len(fs) /\ m - 1 \in 0 .. n
        BY <1>2, <2>2
      <3>2. InputLen(Append(before(m), fs[m])) <= AssembledCap
        BY <1>3, <3>1 DEF Fits
      <3>3. more = SubSeq(fs, 1, m - 1) \o <<fs[m]>>
        <4>1. 1 \in 1 .. Len(fs) /\ m \in 1 .. Len(fs)
          BY <1>2, <3>1
        <4> QED
          BY <1>2, <4>1, SubSeqRecursiveSecond
      <3>4. SubSeq(fs, 1, m - 1) \in Seq(Fragments) /\ fs[m] \in Fragments
            /\ <<fs[m]>> \in Seq(Fragments)
        BY <1>2, <1>5, <3>1
      <3> DEFINE few == SubSeq(fs, 1, m - 1)
                 f == fs[m]
      <3>5. /\ few \in Seq(Fragments) /\ f \in Fragments /\ <<f>> \in Seq(Fragments)
            /\ more = few \o <<f>> /\ before(m) = staged \o few
        BY <3>3, <3>4
      <3>6. InputLen(Append(before(m), f)) <= AssembledCap
        BY <3>2
      <3> HIDE DEF few, f, more, before
      <3>7. staged \o (few \o <<f>>) = (staged \o few) \o <<f>>
        BY <1>1, <3>5, ConcatAssociative
      <3>8. staged \o few \in Seq(Fragments)
        BY <1>1, <3>5, ConcatProperties
      <3>9. Append(staged \o few, f) = (staged \o few) \o <<f>>
        BY <3>5, <3>8, AppendIsConcat
      <3>10. staged' = Append(before(m), f)
        BY <1>7, <3>5, <3>7, <3>9
      <3> QED
        BY <3>6, <3>10
    <2> QED
      BY <2>1, <2>2
  <1> HIDE DEF more, before
  <1> QED
    BY <1>1, <1>4, <1>8, <1>9, <1>10 DEF IInv, TypeInv, Assembles, StreamKnown

LEMMA NextIInv == IInv /\ [Next]_vars => IInv'
  <1> SUFFICES ASSUME IInv, [Next]_vars PROVE IInv'
    OBVIOUS
  <1>1. CASE \E names \in Inputs : EncodeFragment(names)
    <2>1. PICK names \in Inputs : EncodeFragment(names)
      BY <1>1
    <2>2. Fragment(names) \in Fragments
      BY DEF Fragments
    <2> QED
      BY <2>1, <2>2 DEF EncodeFragment, IInv, TypeInv, StreamKnown, Assembles
  <1>2. CASE \E n \in 1 .. 2 : \E fs \in [1 .. n -> made \cup Received] : PushAll(fs)
    <2>1. PICK n \in 1 .. 2 : \E fs \in [1 .. n -> made \cup Received] : PushAll(fs)
      BY <1>2
    <2>2. PICK fs \in [1 .. n -> made \cup Received] : PushAll(fs)
      BY <2>1
    <2>3. n \in Nat
      OBVIOUS
    <2> QED
      BY <2>2, <2>3, PushKeeps
  <1>3. CASE Finish
    BY <1>3 DEF Finish, IInv, TypeInv, StreamKnown, Assembles
  <1>4. CASE \E n \in 0 .. MaxStaged : \E inputs \in [1 .. n -> Inputs] : AssembleParts(inputs)
    <2>1. PICK n \in 0 .. MaxStaged : \E inputs \in [1 .. n -> Inputs] : AssembleParts(inputs)
      BY <1>4
    <2>2. PICK inputs \in [1 .. n -> Inputs] : AssembleParts(inputs)
      BY <2>1
    <2>3. inputs \in Seq(Inputs)
      <3>1. n \in Nat
        OBVIOUS
      <3> QED
        BY <2>2, <3>1
    <2> QED
      BY <2>2, <2>3 DEF AssembleParts, IInv, TypeInv, StreamKnown, Assembles
  <1>5. CASE UNCHANGED vars
    BY <1>5 DEF vars, IInv, TypeInv, StreamKnown, Assembles
  <1> QED
    BY <1>1, <1>2, <1>3, <1>4, <1>5 DEF Next

LEMMA SpecIInv == Spec => []IInv
  BY InitIInv, NextIInv, PTL DEF Spec

(***************************************************************************)
(* The properties.                                                         *)
(***************************************************************************)
\* From each of the starts, a decoder reads the rest of the contents.
ReadsFromEach(cells, starts, content) ==
  /\ DOMAIN starts = 1 .. Len(content)
  /\ \A i \in 1 .. Len(content) :
       LET s == Stream(cells, Fresh(starts[i]))
       IN  s.verdict = "ok" /\ s.out = FlattenSeq(SubSeq(content, i, Len(content)))
  /\ LET s == Stream(cells, Fresh(HeaderBits))
     IN  s.verdict = "ok" /\ s.out = FlattenSeq(content)

\* What follows for any body, one part after another.
LEMMA EachStart ==
  ASSUME NEW K \in Nat, NEW body, NEW content, NEW cells, NEW starts, Len(body[0]) = HeaderBits,
         content = [i \in 1 .. K |-> content[i]], Len(content) = K, content \in Seq(Bytes),
         starts = [i \in 1 .. K |-> Len(body[i - 1])],
         \A j \in 0 .. K :
           LET s == Stream(cells, Fresh(Len(body[j])))
           IN  s.verdict = "ok" /\ s.out = FlattenSeq(SubSeq(content, j + 1, K))
  PROVE  ReadsFromEach(cells, starts, content)
  <1>1. ASSUME NEW i \in 1 .. K
        PROVE  LET s == Stream(cells, Fresh(starts[i]))
               IN  s.verdict = "ok" /\ s.out = FlattenSeq(SubSeq(content, i, K))
    <2> DEFINE j == i - 1
    <2>1. j \in 0 .. K /\ j + 1 = i /\ starts[i] = Len(body[j])
      OBVIOUS
    <2> HIDE DEF j
    <2>2. LET s == Stream(cells, Fresh(Len(body[j])))
          IN  s.verdict = "ok" /\ s.out = FlattenSeq(SubSeq(content, j + 1, K))
      BY <2>1
    <2> QED
      BY <2>1, <2>2
  <1>2. LET s == Stream(cells, Fresh(HeaderBits))
        IN  s.verdict = "ok" /\ s.out = FlattenSeq(content)
    <2>1. 0 \in 0 .. K /\ 0 + 1 = 1
      OBVIOUS
    <2>2. LET s == Stream(cells, Fresh(Len(body[0])))
          IN  s.verdict = "ok" /\ s.out = FlattenSeq(SubSeq(content, 0 + 1, K))
      BY <2>1
    <2>3. SubSeq(content, 1, K) = content
      BY SubSeqFull
    <2> QED
      BY <2>1, <2>2, <2>3
  <1>3. DOMAIN starts = 1 .. Len(content)
    OBVIOUS
  <1> QED
    BY <1>1, <1>2, <1>3 DEF ReadsFromEach

LEMMA StagedReads ==
  ASSUME NEW fs, Accepted(fs), InPlace(fs)
  PROVE  ReadsFromEach(StreamOf(fs).cells, StreamOf(fs).starts, StreamOf(fs).content)
  <1> DEFINE K == Len(fs)
             body == Bodies(fs)
             content == Contents(fs)
             cells == Trailed(body[K])
             starts == [i \in 1 .. K |-> Len(body[i - 1])]
  <1>1. fs \in Seq(Fragments) /\ K \in Nat /\ DOMAIN fs = 1 .. K
    BY LenProperties DEF Accepted
  <1>2. /\ StreamOf(fs).cells = cells /\ StreamOf(fs).starts = starts
        /\ StreamOf(fs).content = content
    BY <1>1 DEF StreamOf, Contents
  <1>3. Len(body[0]) = HeaderBits
    BY BodiesUnfold, HeaderTyped
  <1>4. content \in Seq(Bytes) /\ Len(content) = K /\ content = [i \in 1 .. K |-> content[i]]
    BY <1>1, ContentsTyped DEF Contents
  <1>5. ASSUME NEW j \in 0 .. K
        PROVE  LET s == Stream(cells, Fresh(Len(body[j])))
               IN  s.verdict = "ok" /\ s.out = FlattenSeq(SubSeq(content, j + 1, K))
    BY FragmentsDecode
  <1>6. starts = [i \in 1 .. K |-> Len(body[i - 1])]
    OBVIOUS
  <1> HIDE DEF K, body, content, cells, starts
  <1>7. ReadsFromEach(cells, starts, content)
    BY <1>1, <1>3, <1>4, <1>5, <1>6, EachStart
  <1> QED
    BY <1>2, <1>7

LEMMA PartsRead ==
  ASSUME NEW inputs \in Seq(Inputs)
  PROVE  ReadsFromEach(StreamOfParts(inputs).cells, StreamOfParts(inputs).starts,
                       StreamOfParts(inputs).content)
  <1> DEFINE K == Len(inputs)
             body == PartBodies(inputs)
             content == PartContents(inputs)
             cells == Trailed(body[K])
             starts == [i \in 1 .. K |-> Len(body[i - 1])]
  <1>1. K \in Nat /\ DOMAIN inputs = 1 .. K
    BY LenProperties
  <1>2. /\ StreamOfParts(inputs).cells = cells /\ StreamOfParts(inputs).starts = starts
        /\ StreamOfParts(inputs).content = content
    BY <1>1 DEF StreamOfParts, PartContents
  <1>3. Len(body[0]) = HeaderBits
    BY PartBodiesUnfold, HeaderTyped
  <1>4. content \in Seq(Bytes) /\ Len(content) = K /\ content = [i \in 1 .. K |-> content[i]]
    BY <1>1, PartContentsTyped DEF PartContents
  <1>5. ASSUME NEW j \in 0 .. K
        PROVE  LET s == Stream(cells, Fresh(Len(body[j])))
               IN  s.verdict = "ok" /\ s.out = FlattenSeq(SubSeq(content, j + 1, K))
    BY PartsDecode
  <1>6. starts = [i \in 1 .. K |-> Len(body[i - 1])]
    OBVIOUS
  <1> HIDE DEF K, body, content, cells, starts
  <1>7. ReadsFromEach(cells, starts, content)
    BY <1>1, <1>3, <1>4, <1>5, <1>6, EachStart
  <1> QED
    BY <1>2, <1>7

LEMMA StreamReads ==
  ASSUME IInv, ~Misplaced, stream # Nothing
  PROVE  ReadsFromEach(stream.cells, stream.starts, stream.content)
  <1>1. CASE stream = StreamOf(staged)
    <2>1. staged \in Seq(Fragments) /\ DOMAIN staged = 1 .. Len(staged)
      BY LenProperties DEF IInv, TypeInv
    <2>2. Accepted(staged)
      BY <2>1 DEF IInv, Assembles, Accepted
    <2>3. /\ stream.starts = [i \in 1 .. Len(staged) |-> Len(Bodies(staged)[i - 1])]
          /\ stream.stored = [i \in 1 .. Len(staged) |-> HasStored(staged[i].payload)]
      BY <1>1, <2>1 DEF StreamOf
    <2>4. InPlace(staged)
      BY <2>3 DEF Misplaced, InPlace
    <2> QED
      BY <1>1, <2>2, <2>4, StagedReads
  <1>2. CASE \E inputs \in Seq(Inputs) : stream = StreamOfParts(inputs)
    <2>1. PICK inputs \in Seq(Inputs) : stream = StreamOfParts(inputs)
      BY <1>2
    <2> QED
      BY <2>1, PartsRead
  <1> QED
    BY <1>1, <1>2 DEF IInv, StreamKnown

(***************************************************************************)
(* What push and push_all staged, finish assembles, whatever was refused   *)
(* half-way (cat/lib.rs:464-490, 507).                                     *)
(***************************************************************************)
THEOREM FinishSucceeds == Spec => []FinishNeverFails
  <1>1. IInv => FinishNeverFails
    BY DEF IInv, FinishNeverFails
  <1> QED
    BY <1>1, SpecIInv, PTL

(***************************************************************************)
(* The stream finish or assemble_rfc7932_parts wrote is Brotli and decodes *)
(* to the contents of its fragments or parts in order, stored meta-blocks  *)
(* off their byte boundary excepted (cat/lib.rs:512-545, 637-683).         *)
(***************************************************************************)
THEOREM DecodesInOrder == Spec => []AssembledDecodes
  <1>1. IInv => AssembledDecodes
    <2>1. SUFFICES ASSUME IInv, stream.cells # <<>>, ~Misplaced
                   PROVE  LET s == Stream(stream.cells, Fresh(HeaderBits))
                          IN  s.verdict = "ok" /\ s.out = FlattenSeq(stream.content)
      BY DEF AssembledDecodes
    <2>2. stream # Nothing
      BY <2>1 DEF Nothing
    <2>3. ReadsFromEach(stream.cells, stream.starts, stream.content)
      BY <2>1, <2>2, StreamReads
    <2> QED
      BY <2>3 DEF ReadsFromEach
  <1> QED
    BY <1>1, SpecIInv, PTL

(***************************************************************************)
(* No fragment or part depends on what stands before it: a decoder that    *)
(* starts at any of them reads the rest; and parts start at bytes          *)
(* (cat/lib.rs:637-669).                                                   *)
(***************************************************************************)
THEOREM StandsAlone == Spec => []PartsStandAlone
  <1>1. IInv => PartsStandAlone
    <2> SUFFICES ASSUME IInv PROVE PartsStandAlone
      OBVIOUS
    <2>1. CASE stream = Nothing
      <3>1. DOMAIN stream.starts = {} /\ ~stream.parts
        BY <2>1 DEF Nothing
      <3> QED
        BY <3>1 DEF PartsStandAlone
    <2>2. CASE stream # Nothing
      <3>1. ASSUME ~Misplaced, NEW i \in DOMAIN stream.starts PROVE DecodesFrom(i)
        <4>1. ReadsFromEach(stream.cells, stream.starts, stream.content)
          BY <2>2, <3>1, StreamReads
        <4> QED
          BY <3>1, <4>1 DEF ReadsFromEach, DecodesFrom
      <3>2. ASSUME stream.parts, NEW i \in DOMAIN stream.starts, i > 1
            PROVE  stream.starts[i] % 8 = 0
        <4>1. CASE stream = StreamOf(staged)
          BY <3>2, <4>1 DEF StreamOf
        <4>2. CASE \E inputs \in Seq(Inputs) : stream = StreamOfParts(inputs)
          <5>1. PICK inputs \in Seq(Inputs) : stream = StreamOfParts(inputs)
            BY <4>2
          <5>2. DOMAIN inputs = 1 .. Len(inputs) /\ Len(inputs) \in Nat
            BY LenProperties
          <5>3. /\ stream.starts = [k \in 1 .. Len(inputs) |-> Len(PartBodies(inputs)[k - 1])]
            BY <5>1, <5>2 DEF StreamOfParts
          <5> DEFINE k == i - 1
          <5>4. k \in 1 .. Len(inputs) /\ stream.starts[i] = Len(PartBodies(inputs)[k])
            BY <3>2, <5>2, <5>3
          <5> HIDE DEF k
          <5>5. /\ PartBodies(inputs)[k] = Part(PartBodies(inputs)[k - 1], inputs[k])
                /\ PartBodies(inputs)[k - 1] \in Seq(Cell)
            <6>1. k - 1 \in 0 .. Len(inputs)
              BY <5>2, <5>4
            <6> QED
              BY <5>4, <6>1, PartBodiesUnfold
          <5>6. inputs[k] \in Seq(DOMAIN MetaBlocks)
            BY <5>4, EncoderAssumption
          <5> QED
            BY <5>4, <5>5, <5>6, PartTyped
        <4> QED
          BY <2>2, <4>1, <4>2 DEF IInv, StreamKnown
      <3> QED
        BY <3>1, <3>2 DEF PartsStandAlone
    <2> QED
      BY <2>1, <2>2
  <1> QED
    BY <1>1, SpecIInv, PTL
=============================================================================
