-------------------------- MODULE CollectorsProofs --------------------------
(***************************************************************************)
(* TLAPS proofs about Collectors: for every input, hash, dictionary,       *)
(* window and table size, and every engine and scanner within the          *)
(* assumptions, the tokens that the encoder's matchers find decode to      *)
(* their input, and what they load lies in it.                             *)
(*                                                                         *)
(* TokensReproduce says nothing of matches that are found and not yet      *)
(* written.  IInv adds what is known of these: that a match in `best`, in  *)
(* `found` or at `candidate` repeats the input or spells a word of it      *)
(* (GoodToken), that candidates are positions or last distances, that the  *)
(* entries of a scanner's table are behind it, and where the decoder is.   *)
(* Scores decide which match is taken, and nothing here depends on them.   *)
(***************************************************************************)
EXTENDS Collectors, TLAPS, FiniteSetTheorems, WellFoundedInduction

(***************************************************************************)
(* The inductive invariant.                                                *)
(***************************************************************************)
MaybeDistance == {NoPosition} \cup 1 .. Window

(***************************************************************************)
(* A token as the decoder will take it at `p`: its copy reaches back into  *)
(* the input and repeats what is there, or names a word that is the input. *)
(***************************************************************************)
WordOf(distance, p, code) == Word(distance - Reach(p) - 1, code)

RepeatsInput(p, distance, len) ==
  distance <= p /\ SameFor(p - distance, p, len)

SpellsInput(p, distance, len, code) ==
  /\ IsWord(distance - Reach(p) - 1, code)
  /\ WordOf(distance, p, code) \in Seq(Nat)
  /\ Len(WordOf(distance, p, code)) = len
  /\ \A k \in 0 .. len - 1 : WordOf(distance, p, code)[k + 1] = Byte(p + k)

GoodToken(p, distance, len, code) ==
  /\ distance \in Nat \ {0} /\ len \in Nat \ {0} /\ p + len <= End
  /\ distance <= Reach(p) => RepeatsInput(p, distance, len)
  /\ distance > Reach(p) => SpellsInput(p, distance, len, code)

GoodMatch(m, p) == GoodToken(p, m.distance, m.len, m.code)

\* What the decoder has left of a copy is what comes next in the input, of
\* which it has written `n` bytes.
CopyIs(n, left, distance, word) ==
  /\ distance > 0 =>
       /\ distance <= n
       /\ \A k \in 0 .. left - 1 : Byte(n - distance + k) = Byte(n + k)
  /\ distance = 0 =>
       /\ left <= Len(word)
       /\ \A k \in 0 .. left - 1 : word[Len(word) + 1 - left + k] = Byte(n + k)

CopyTrue ==
  /\ Len(output) + copying.left = start
  /\ CopyIs(Len(output), copying.left, copying.distance, copying.word)

Copies == [left : Nat, distance : Nat, word : Seq(Nat)]

OutputInv ==
  /\ output \in Seq(Nat) /\ copying \in Copies
  /\ Len(output) <= End
  /\ \A n \in 1 .. Len(output) : output[n] = input[n]

SharedInv ==
  /\ input \in Inputs /\ base \in Bases
  /\ pos \in Nat /\ start \in Nat /\ start <= End
  /\ table \in [0 .. TableSize - 1 -> Seq(Nat)]
  /\ OutputInv
  /\ phase = "read" => CopyTrue
  /\ phase = "done" => Len(output) = End

\* A candidate: a last distance, or a position that was stored.
GoodCandidate(trial) ==
  /\ trial.last \in 0 .. 4
  /\ trial.last > 0 => trial.previous = at - cache[trial.last]
  /\ trial.last = 0 => trial.previous \in Nat

ProbeInv ==
  /\ at \in Nat /\ at + engine.ahead <= End /\ check < MaxLen
  /\ candidates \in Seq([last : 0 .. 4, previous : Int])
  /\ \A i \in 1 .. Len(candidates) : GoodCandidate(candidates[i])
  /\ best # NoMatch => GoodMatch(best, at)
  /\ at = IF found = NoMatch THEN pos ELSE pos + 1

Runs == [next : Nat, end : 0 .. StoreEnd, step : Nat \ {0}]

SearchInv ==
  /\ phase \in {"search", "probe", "lazy", "emit", "read", "store", "skip", "done"}
  /\ cache \in [1 .. 4 -> 1 .. Window]
  /\ phase \notin {"read", "done"} => Len(output) = start
  /\ phase \in {"search", "probe", "lazy", "emit", "skip"} => start <= pos
  /\ phase \in {"search", "skip"} => found = NoMatch
  /\ phase = "probe" => ProbeInv
  /\ phase \in {"lazy", "emit"} => found # NoMatch
  /\ phase \in {"lazy", "emit", "probe"} /\ found # NoMatch => GoodMatch(found, pos)
  /\ phase \in {"read", "skip", "store"} => run \in Runs
  /\ phase = "skip" => start <= run.next

\* Entries are behind the position a scanner is at.
EntriesBelow(bound) ==
  \A key \in 0 .. TableSize - 1 : table[key] # <<>> => table[key][1] < bound

BlockInv ==
  /\ block \in [from : Nat, to : Nat]
  /\ block.from <= block.to /\ block.to <= End
  /\ stored \in {NoPosition} \cup 0 .. block.to
  /\ phase = "block" => Len(output) = Pending
  /\ phase \in {"scan", "copy", "read", "tail", "rest"} =>
       block.from <= start /\ start <= block.to /\ stored = NoPosition
  /\ phase \in {"scan", "copy", "tail", "rest"} => Len(output) = start
  /\ phase \in {"scan", "copy", "tail"} => start <= pos
  /\ engine.stride > 0 =>
       block.from = 0 /\ block.to \in {0, End} /\ phase # "tail"

TableInv ==
  /\ engine.stride = 0 => EntriesBelow(Larger(block.to, 1))
  /\ engine.stride > 0 /\ block.to = 0 => EntriesBelow(0)
  /\ phase \in {"scan", "read", "tail"} => EntriesBelow(pos)
  /\ phase = "copy" => EntriesBelow(pos + 1)

ScanInv ==
  /\ Len(input) <= engine.longest
  /\ phase \in {"block", "scan", "copy", "read", "tail", "rest", "done"}
  /\ last \in MaybeDistance /\ kept \in MaybeDistance
  /\ skip \in Nat /\ skip >= Patience
  /\ BlockInv /\ TableInv
  /\ phase = "read" => pos = start /\ block.from + engine.min <= pos
  /\ phase = "copy" =>
       /\ pos <= Limit
       /\ candidate \in Nat /\ candidate < pos /\ pos - candidate <= Window
       /\ Agrees(candidate)
  /\ phase = "scan" /\ engine.stride = 0 => pos + 8 <= block.to
  /\ phase = "tail" =>
       /\ pos <= Limit /\ ~AtEnd
       /\ tail \in Nat /\ block.from <= tail /\ tail <= pos

IInv ==
  /\ SharedInv
  /\ engine \in Engines \cup Scanners
  /\ engine \in Engines => SearchInv
  /\ engine \in Scanners => ScanInv
(***************************************************************************)
(* Numbers and sequences.                                                  *)
(***************************************************************************)
\* Remainders and quotients as the tables and the words of the dictionary
\* use them.
LEMMA Remainder ==
  ASSUME NEW n \in Int, NEW d \in Nat \ {0}
  PROVE  n % d \in 0 .. d - 1 /\ (n \in Nat => n % d <= n)
OBVIOUS

LEMMA Quotient ==
  ASSUME NEW n \in Nat, NEW d \in Nat \ {0}
  PROVE  n \div d \in Nat /\ (n >= d => n \div d >= 1)
OBVIOUS

LEMMA RoundsUp ==
  ASSUME NEW p \in Nat, NEW d \in Nat \ {0}
  PROVE  /\ ((p + d - 1) \div d) * d \in Nat
         /\ ((p + d - 1) \div d) * d >= p
OBVIOUS

LEMMA IndexAndTransform ==
  ASSUME NEW i \in Nat, NEW t \in Nat, NEW d \in Nat \ {0}, i < d
  PROVE  (i + t * d) % d = i /\ (i + t * d) \div d = t /\ i + t * d \in Nat
OBVIOUS

\* A slice, and a function, as sequences.
LEMMA Slice ==
  ASSUME NEW S, NEW s \in Seq(S), NEW a \in Nat, NEW b \in Nat,
         a <= b, b <= Len(s)
  PROVE  /\ SubSeq(s, a + 1, b) \in Seq(S) /\ Len(SubSeq(s, a + 1, b)) = b - a
         /\ \A k \in 1 .. b - a : SubSeq(s, a + 1, b)[k] = s[a + k]
OBVIOUS

LEMMA FunctionIsSeq ==
  ASSUME NEW S, NEW n \in Nat, NEW f \in [1 .. n -> S]
  PROVE  f \in Seq(S) /\ Len(f) = n
OBVIOUS

\* A distance goes into the ring, the oldest leaves.
LEMMA RingTakes ==
  ASSUME NEW S, NEW ring \in [1 .. 4 -> S], NEW d \in S
  PROVE  <<d>> \o SubSeq(ring, 1, 3) \in [1 .. 4 -> S]
<1>1. PICK four \in Nat : four = 4
  OBVIOUS
<1>2. ring \in Seq(S) /\ Len(ring) = four
  <2>1. ring \in [1 .. four -> S]
    BY <1>1
  <2> QED
    BY <2>1, FunctionIsSeq
<1>3. SubSeq(ring, 1, 3) \in Seq(S) /\ Len(SubSeq(ring, 1, 3)) = 3
  BY <1>1, <1>2
<1>4. PICK rest \in Seq(S) : rest = SubSeq(ring, 1, 3) /\ Len(rest) = 3
  BY <1>3
<1>5. <<d>> \in Seq(S) /\ Len(<<d>>) = 1
  OBVIOUS
<1>6. <<d>> \o rest \in Seq(S) /\ Len(<<d>> \o rest) = four
  BY <1>1, <1>4, <1>5
<1>7. PICK s \in Seq(S) : s = <<d>> \o rest /\ Len(s) = four
  BY <1>6
<1>8. s \in [1 .. Len(s) -> S]
  OBVIOUS
<1> QED
  BY <1>1, <1>4, <1>7, <1>8

LEMMA BoundedSetHasLargest ==
  ASSUME NEW S \in SUBSET Nat, S # {}, NEW n \in Nat, \A x \in S : x <= n
  PROVE  \E x \in S : \A y \in S : y <= x
  <1> DEFINE Above(x) == {y \in S : y > x}
             Aboves == {Above(x) : x \in S}
  <1>1. Aboves \subseteq FiniteSubsetsOf(S)
    <2>1. IsFiniteSet(S)
      BY FS_BoundedSetOfNaturals
    <2>2. \A x \in S : IsFiniteSet(Above(x))
      BY <2>1, FS_Subset
    <2> QED
      BY <2>2 DEF FiniteSubsetsOf
  <1>2. \E A \in Aboves :
          \A B \in Aboves : ~ (<<B, A>> \in StrictSubsetOrdering(S))
    <2>1. Aboves # {}
      OBVIOUS
    <2> HIDE DEF Aboves
    <2> QED
      BY <1>1, <2>1, FS_StrictSubsetOrderingWellFounded, WFMin
  <1>3. PICK x \in S :
          \A y \in S : ~ (<<Above(y), Above(x)>> \in StrictSubsetOrdering(S))
    BY <1>2
  <1>4. ASSUME NEW y \in S, ~(y <= x)
        PROVE  FALSE
    <2>1. S \subseteq Nat /\ y \in Nat /\ x \in Nat /\ x < y
      BY <1>4
    <2>2. Above(y) \subseteq Above(x) /\ y \in Above(x) /\ y \notin Above(y)
      <3>1. y \in Above(x) /\ y \notin Above(y)
        BY <1>4, <2>1
      <3>2. \A z \in Above(y) : z \in Above(x)
        BY <2>1
      <3> QED
        BY <3>1, <3>2
    <2>3. <<Above(y), Above(x)>> \in StrictSubsetOrdering(S)
      BY <2>2 DEF StrictSubsetOrdering
    <2> QED
      BY <1>3, <2>3
  <1> QED
    BY <1>4
\* MatchLen and WordLen are among the lengths they choose from.
LEMMA LongestIsOne ==
  ASSUME NEW max \in Nat, NEW lens \in SUBSET (0 .. max), lens # {}
  PROVE  Longest(lens) \in lens
<1>1. lens \in SUBSET Nat /\ \A n \in lens : n <= max
  OBVIOUS
<1>2. \E n \in lens : \A m \in lens : m <= n
  BY <1>1, BoundedSetHasLargest
<1> QED
  BY <1>2 DEF Longest

LEMMA MatchLenIs ==
  ASSUME NEW previous \in Int, NEW p \in Int, NEW max \in Nat
  PROVE  /\ MatchLen(previous, p, max) \in 0 .. max
         /\ SameFor(previous, p, MatchLen(previous, p, max))
<1> DEFINE lens == {n \in 0 .. max : SameFor(previous, p, n)}
<1>1. 0 \in lens
  BY DEF SameFor
<1>2. Longest(lens) \in lens
  BY <1>1, LongestIsOne
<1> QED
  BY <1>2 DEF MatchLen

LEMMA WordLenIs ==
  ASSUME NEW word \in Seq(Nat), NEW p \in Nat
  PROVE  /\ WordLen(word, p) \in 0 .. Len(word)
         /\ \A k \in 1 .. WordLen(word, p) : word[k] = Byte(p + k - 1)
<1> DEFINE lens == {n \in 0 .. Len(word) : \A k \in 1 .. n : word[k] = Byte(p + k - 1)}
<1>1. 0 \in lens /\ Len(word) \in Nat
  OBVIOUS
<1>2. Longest(lens) \in lens
  BY <1>1, LongestIsOne
<1> QED
  BY <1>2 DEF WordLen

(***************************************************************************)
(* The decoder.                                                            *)
(***************************************************************************)
LEMMA InputIs ==
  ASSUME input \in Inputs
  PROVE  input \in Seq(Nat) /\ End \in Nat
BY TokensAssumption DEF End

LEMMA ReachIs ==
  ASSUME base \in Bases, NEW p \in Nat
  PROVE  /\ Reach(p) \in Nat /\ Reach(p) <= Window
         /\ \A d \in Nat : d <= p /\ d <= Window => d <= Reach(p)
BY TokensAssumption DEF Reach, Lesser

\* Literals: the output goes on as the input does.
LEMMA OutputGoesOn ==
  ASSUME input \in Seq(Nat), OutputInv, NEW to \in Nat, Len(output) <= to, to <= End,
         output' = output \o Bytes(Len(output), to), UNCHANGED input
  PROVE  /\ output' \in Seq(Nat) /\ Len(output') = to
         /\ \A n \in 1 .. to : output'[n] = input[n]
<1> DEFINE more == Bytes(Len(output), to)
<1>1. /\ output \in Seq(Nat) /\ Len(output) \in Nat
      /\ \A n \in 1 .. Len(output) : output[n] = input[n]
  BY DEF OutputInv
<1>2. /\ more \in Seq(Nat) /\ Len(more) = to - Len(output)
      /\ \A k \in 1 .. to - Len(output) : more[k] = input[Len(output) + k]
  BY <1>1, Slice DEF Bytes, End
<1> HIDE DEF more
<1>3. /\ output' \in Seq(Nat) /\ Len(output') = Len(output) + Len(more)
      /\ \A n \in 1 .. Len(output) : output'[n] = output[n]
      /\ \A n \in Len(output) + 1 .. Len(output) + Len(more) :
           output'[n] = more[n - Len(output)]
  BY <1>1, <1>2 DEF more
<1>4. Len(output') = to
  BY <1>1, <1>2, <1>3
<1>5. ASSUME NEW n \in 1 .. to
      PROVE  output'[n] = input[n]
  <2>1. PICK o \in Nat : o = Len(output)
    BY <1>1
  <2>2. CASE n <= o
    BY <1>1, <1>3, <2>1, <2>2
  <2>3. CASE n > o
    <3>1. n - o \in 1 .. to - o /\ o + (n - o) = n
      BY ONLY <2>1, <2>3, to \in Nat, n \in 1 .. to
    <3>2. output'[n] = more[n - o]
      BY <1>2, <1>3, <2>1, <2>3
    <3>3. more[n - o] = input[o + (n - o)]
      BY <1>2, <2>1, <3>1
    <3> QED
      BY <3>1, <3>2, <3>3
  <2> QED
    BY ONLY <2>1, <2>2, <2>3, n \in 1 .. to
<1> QED
  BY <1>3, <1>4, <1>5

LEMMA TakesLiterals ==
  ASSUME input \in Seq(Nat), OutputInv, NEW from \in Nat, NEW to \in Nat,
         Len(output) = from, from <= to, to <= End,
         TakeLiterals(from, to), UNCHANGED input
  PROVE  OutputInv' /\ Len(output') = to
<1>1. output' = output \o Bytes(Len(output), to) /\ copying' = NoCopy
  BY DEF TakeLiterals
<1>2. /\ output' \in Seq(Nat) /\ Len(output') = to
      /\ \A n \in 1 .. to : output'[n] = input[n]
  BY <1>1, OutputGoesOn
<1>3. copying' \in Copies
  BY <1>1 DEF NoCopy, Copies
<1>4. End' = End
  BY DEF End
<1> QED
  BY <1>2, <1>3, <1>4 DEF OutputInv

\* Literals and a copy: the decoder finds the copy as the encoder meant it.
LEMMA TakesToken ==
  ASSUME input \in Inputs, base \in Bases, OutputInv,
         NEW to \in Nat, NEW distance, NEW len, NEW code,
         Len(output) <= to, GoodToken(to, distance, len, code),
         TakeToken(to, distance, len, code),
         Len(output) = start,
         UNCHANGED input, start' = to + len
  PROVE  OutputInv' /\ CopyTrue' /\ start' \in Nat /\ start' <= End'
<1>1. /\ input \in Seq(Nat) /\ End \in Nat /\ End' = End
  BY InputIs DEF End
<1>2. /\ distance \in Nat /\ distance > 0 /\ len \in Nat /\ len > 0
      /\ to + len <= End /\ to <= End
  BY <1>1 DEF GoodToken
<1>3. /\ output' = output \o Bytes(Len(output), to)
      /\ copying' = CopyAt(Len(output) + to - start, distance, len, code)
  BY DEF TakeToken
<1>4. Len(output) + to - start = to
  BY DEF OutputInv
<1>5. /\ output' \in Seq(Nat) /\ Len(output') = to
      /\ \A n \in 1 .. to : output'[n] = input[n]
  BY <1>1, <1>2, <1>3, OutputGoesOn
<1>6. Reach(to) \in Nat
  BY ReachIs
<1>7. CASE distance <= Reach(to)
  <2>1. distance <= to /\ SameFor(to - distance, to, len)
    BY <1>7 DEF GoodToken, RepeatsInput
  <2>2. copying' = [left |-> len, distance |-> distance, word |-> <<>>]
    BY <1>2, <1>3, <1>4, <1>7, <2>1 DEF CopyAt
  <2>3. copying' \in Copies
    BY <1>2, <2>2 DEF Copies
  <2>4. CopyIs(to, len, distance, <<>>)
    BY <1>2, <2>1 DEF CopyIs, SameFor
  <2>5. CopyTrue'
    BY <1>5, <2>2, <2>4 DEF CopyTrue, CopyIs, Byte
  <2> QED
    BY <1>1, <1>2, <1>5, <2>3, <2>5 DEF OutputInv
<1>8. CASE distance > Reach(to)
  <2> DEFINE word == WordOf(distance, to, code)
  <2>1. /\ IsWord(distance - Reach(to) - 1, code)
        /\ word \in Seq(Nat) /\ Len(word) = len
        /\ \A k \in 0 .. len - 1 : word[k + 1] = Byte(to + k)
    BY <1>8 DEF GoodToken, SpellsInput
  <2>2. copying' = [left |-> Len(word), distance |-> 0, word |-> word]
    BY <1>2, <1>3, <1>4, <1>6, <1>8, <2>1 DEF CopyAt, WordOf
  <2> HIDE DEF word
  <2>3. copying' \in Copies
    BY <1>2, <2>1, <2>2 DEF Copies
  <2>4. CopyIs(to, len, 0, word)
    <3>1. \A k \in 0 .. len - 1 : Len(word) + 1 - len + k = k + 1
      BY ONLY <2>1, len \in Nat
    <3> QED
      BY <1>2, <2>1, <3>1 DEF CopyIs
  <2>5. CopyTrue'
    BY <1>5, <2>1, <2>2, <2>4 DEF CopyTrue, CopyIs, Byte
  <2> QED
    BY <1>1, <1>2, <1>5, <2>3, <2>5 DEF OutputInv
<1> QED
  BY <1>2, <1>6, <1>7, <1>8

\* Byte by byte, the copy is the input.
LEMMA CopyGoesOn ==
  ASSUME NEW n \in Nat, NEW left \in Nat, left > 0, NEW distance \in Nat,
         NEW word \in Seq(Nat), CopyIs(n, left, distance, word)
  PROVE  CopyIs(n + 1, left - 1, distance, word)
<1>1. ASSUME distance > 0
      PROVE  /\ distance <= n + 1
             /\ \A k \in 0 .. (left - 1) - 1 :
                  Byte(n + 1 - distance + k) = Byte(n + 1 + k)
  <2>1. /\ distance <= n
        /\ \A k \in 0 .. left - 1 : Byte(n - distance + k) = Byte(n + k)
    BY <1>1 DEF CopyIs
  <2>2. ASSUME NEW k \in 0 .. (left - 1) - 1
        PROVE  Byte(n + 1 - distance + k) = Byte(n + 1 + k)
    <3>1. /\ k + 1 \in 0 .. left - 1
          /\ n - distance + (k + 1) = n + 1 - distance + k
          /\ n + (k + 1) = n + 1 + k
      OBVIOUS
    <3>2. Byte(n - distance + (k + 1)) = Byte(n + (k + 1))
      BY <2>1, <3>1
    <3> QED
      BY <3>1, <3>2
  <2> QED
    BY <2>1, <2>2
<1>2. ASSUME distance = 0
      PROVE  /\ left - 1 <= Len(word)
             /\ \A k \in 0 .. (left - 1) - 1 :
                  word[Len(word) + 1 - (left - 1) + k] = Byte(n + 1 + k)
  <2>1. /\ left <= Len(word)
        /\ \A k \in 0 .. left - 1 : word[Len(word) + 1 - left + k] = Byte(n + k)
    BY <1>2 DEF CopyIs
  <2>2. ASSUME NEW k \in 0 .. (left - 1) - 1
        PROVE  word[Len(word) + 1 - (left - 1) + k] = Byte(n + 1 + k)
    <3>1. /\ k + 1 \in 0 .. left - 1
          /\ Len(word) + 1 - left + (k + 1) = Len(word) + 1 - (left - 1) + k
          /\ n + (k + 1) = n + 1 + k
      OBVIOUS
    <3>2. word[Len(word) + 1 - left + (k + 1)] = Byte(n + (k + 1))
      BY <2>1, <3>1
    <3> QED
      BY <3>1, <3>2
  <2> QED
    BY <2>1, <2>2
<1> QED
  BY <1>1, <1>2 DEF CopyIs

LEMMA CopiesOn ==
  ASSUME input \in Seq(Nat), OutputInv, CopyTrue, CopyByte,
         start \in Nat, start <= End, UNCHANGED <<input, start>>
  PROVE  OutputInv' /\ CopyTrue'
<1>1. PICK n \in Nat : n = Len(output)
  BY DEF OutputInv
<1>2. /\ output \in Seq(Nat) /\ copying \in Copies
      /\ \A m \in 1 .. n : output[m] = input[m]
  BY <1>1 DEF OutputInv
<1>3. PICK left \in Nat, distance \in Nat, word \in Seq(Nat) :
        copying = [left |-> left, distance |-> distance, word |-> word]
  BY <1>2 DEF Copies
<1>4. left > 0
  BY <1>3 DEF CopyByte
<1>5. PICK byte :
        /\ byte = IF distance > 0 THEN output[n + 1 - distance]
                  ELSE word[Len(word) + 1 - left]
        /\ output' = Append(output, byte)
        /\ copying' = [left |-> left - 1, distance |-> distance, word |-> word]
  BY <1>1, <1>3 DEF CopyByte
<1>6. n + left = start /\ CopyIs(n, left, distance, word)
  BY <1>1, <1>3 DEF CopyTrue
<1>7. /\ n + 1 <= End /\ End \in Nat /\ End' = End
      /\ n + 1 \in 1 .. Len(input) /\ input[n + 1] \in Nat
  <2>1. Len(input) \in Nat /\ End = Len(input) /\ End' = End
    BY DEF End
  <2>2. n + 1 <= Len(input) /\ n + 1 \in 1 .. Len(input)
    BY ONLY <1>4, <1>6, <2>1, start <= End, start \in Nat, n \in Nat, left \in Nat
  <2> QED
    BY <2>1, <2>2
<1>8. byte = input[n + 1]
  <2>1. CASE distance > 0
    <3>1. distance <= n /\ Byte(n - distance + 0) = Byte(n + 0)
      BY <1>4, <1>6, <2>1 DEF CopyIs
    <3>2. /\ n + 1 - distance \in 1 .. n
          /\ (n - distance + 0) + 1 = n + 1 - distance /\ (n + 0) + 1 = n + 1
      BY <2>1, <3>1
    <3>3. byte = input[n + 1 - distance]
      BY <1>2, <1>5, <2>1, <3>2
    <3> QED
      BY <3>1, <3>2, <3>3 DEF Byte
  <2>2. CASE distance = 0
    <3>1. word[Len(word) + 1 - left + 0] = Byte(n + 0)
      <4>1. \A k \in 0 .. left - 1 : word[Len(word) + 1 - left + k] = Byte(n + k)
        BY <1>6, <2>2 DEF CopyIs
      <4>2. 0 \in 0 .. left - 1
        BY <1>4
      <4> QED
        BY <4>1, <4>2
    <3>2. Len(word) + 1 - left + 0 = Len(word) + 1 - left /\ (n + 0) + 1 = n + 1
      OBVIOUS
    <3> QED
      BY <1>5, <2>2, <3>1, <3>2 DEF Byte
  <2> QED
    BY <2>1, <2>2
<1>9. /\ output' \in Seq(Nat) /\ Len(output') = n + 1
      /\ \A m \in 1 .. n + 1 : output'[m] = input[m]
  <2>1. byte \in Nat
    BY <1>7, <1>8
  <2>2. /\ output' \in Seq(Nat) /\ Len(output') = n + 1
        /\ output'[n + 1] = byte
        /\ \A m \in 1 .. n : output'[m] = output[m]
    BY <1>1, <1>2, <1>5, <2>1
  <2>3. \A m \in 1 .. n + 1 : m = n + 1 \/ m \in 1 .. n
    OBVIOUS
  <2> QED
    BY <1>2, <1>8, <2>2, <2>3
<1>10. copying' \in Copies
  BY <1>4, <1>5 DEF Copies
<1>11. OutputInv'
  BY <1>7, <1>9, <1>10 DEF OutputInv
<1>12. CopyIs(n + 1, left - 1, distance, word)
  BY <1>4, <1>6, CopyGoesOn
<1>13. CopyIs(n + 1, left - 1, distance, word)'
  BY <1>12 DEF CopyIs, Byte
<1>14. CopyTrue'
  BY <1>5, <1>6, <1>9, <1>13 DEF CopyTrue
<1> QED
  BY <1>11, <1>14

(***************************************************************************)
(* Tokens of the searchers.                                                *)
(***************************************************************************)
\* What a token means depends on the input and its base only.
LEMMA FoundIs ==
  ASSUME UNCHANGED <<input, base>>, NEW m, NEW p, GoodMatch(m, p),
         found' = m, pos' = p
  PROVE  GoodMatch(found, pos)'
BY DEF GoodMatch, GoodToken, RepeatsInput, SpellsInput, WordOf, Reach, SameFor,
       Byte, End

LEMMA BestIs ==
  ASSUME UNCHANGED <<input, base>>, NEW m, NEW p, GoodMatch(m, p),
         best' = m, at' = p
  PROVE  GoodMatch(best, at)'
BY DEF GoodMatch, GoodToken, RepeatsInput, SpellsInput, WordOf, Reach, SameFor,
       Byte, End

\* An earlier position of the window, and bytes it has in common.
LEMMA EarlierIsGood ==
  ASSUME base \in Bases, NEW p \in Nat, NEW previous \in Nat, previous < p,
         p - previous <= Window, NEW len \in Nat \ {0}, p + len <= End,
         SameFor(previous, p, len), NEW code
  PROVE  GoodToken(p, p - previous, len, code)
<1>1. p - previous \in Nat \ {0} /\ p - previous <= p /\ p - (p - previous) = previous
  OBVIOUS
<1>2. p - previous <= Reach(p) /\ Reach(p) \in Nat
  BY <1>1, ReachIs
<1>3. RepeatsInput(p, p - previous, len)
  BY <1>1 DEF RepeatsInput
<1> QED
  BY <1>1, <1>2, <1>3 DEF GoodToken

\* The transforms that leave off the end of a word leave off that much.
LEMMA CutsOff ==
  ASSUME NEW cut \in 0 .. 9
  PROVE  /\ CutTransform(cut) \in Nat /\ CutTransform(cut) \in DOMAIN OmitLast
         /\ OmitLast[CutTransform(cut)] = cut
<1>1. /\ CutTransform(0) = 0 /\ CutTransform(1) = 12 /\ CutTransform(2) = 27
      /\ CutTransform(3) = 23 /\ CutTransform(4) = 42 /\ CutTransform(5) = 63
      /\ CutTransform(6) = 56 /\ CutTransform(7) = 48 /\ CutTransform(8) = 59
      /\ CutTransform(9) = 64
  BY DEF CutTransform, CUTOFF_TRANSFORMS
<1>2. /\ OmitLast[0] = 0 /\ OmitLast[12] = 1 /\ OmitLast[27] = 2
      /\ OmitLast[23] = 3 /\ OmitLast[42] = 4 /\ OmitLast[63] = 5
      /\ OmitLast[56] = 6 /\ OmitLast[48] = 7 /\ OmitLast[59] = 8
      /\ OmitLast[64] = 9
  BY DEF OmitLast
<1>3. DOMAIN OmitLast = {0, 12, 23, 27, 42, 48, 56, 59, 63, 64}
  BY DEF OmitLast
<1>4. cut \in {0, 1, 2, 3, 4, 5, 6, 7, 8, 9}
  OBVIOUS
<1> QED
  BY <1>1, <1>2, <1>3, <1>4

\* A word of the dictionary, cut to what it has in common with the input.
LEMMA WordIsGood ==
  ASSUME input \in Inputs, base \in Bases, at \in Nat, at <= End,
         NEW item \in [len : Nat, index : Nat], WordMatch(item) # NoMatch
  PROVE  GoodMatch(WordMatch(item), at)
<1> DEFINE words == Dictionary[item.len]
           word == words[item.index + 1]
           n == WordLen(word, at)
           cut == item.len - n
           id == item.index + CutTransform(cut) * Len(words)
           distance == WordBase + item.index + CutTransform(cut) * Len(words) + 1
<1>1. /\ WordMatch(item) = [len |-> n, code |-> item.len, distance |-> distance,
                            score |-> ScoreDistance(n, distance)]
      /\ item.len \in DOMAIN Dictionary /\ item.len <= MaxLen
      /\ item.index < Len(words) /\ n > 0 /\ n + 10 > item.len
  <2> DEFINE score == ScoreDistance(n, distance)
             fits == /\ item.len \in DOMAIN Dictionary /\ item.len <= MaxLen
                     /\ item.index < Len(words)
                     /\ n > 0 /\ n + CUTOFF_TRANSFORMS_COUNT > item.len
                     /\ HasDistanceCode(distance) /\ score >= bestScore
             found_it == [len |-> n, code |-> item.len, distance |-> distance,
                          score |-> score]
  <2>1. WordMatch(item) = IF fits THEN found_it ELSE NoMatch
    BY DEF WordMatch
  <2>2. fits
    <3> HIDE DEF fits, found_it
    <3> QED
      BY <2>1
  <2> QED
    BY <2>1, <2>2 DEF CUTOFF_TRANSFORMS_COUNT
<1>2. /\ item.len \in 4 .. 24 /\ item.len \in Nat /\ item.index \in Nat
      /\ words \in Seq([1 .. item.len -> Nat]) /\ Len(words) \in Nat \ {0}
  <2>1. /\ item.len \in 4 .. 24 /\ item.index \in Nat
        /\ words \in Seq([1 .. item.len -> Nat])
    BY <1>1, TokensAssumption
  <2>2. Len(words) \in Nat
    BY <2>1
  <2> HIDE DEF words
  <2> QED
    BY <1>1, <2>1, <2>2
<1>3. word \in Seq(Nat) /\ Len(word) = item.len
  <2>1. word \in [1 .. item.len -> Nat]
    BY <1>1, <1>2
  <2> QED
    BY <1>2, <2>1, FunctionIsSeq
<1>4. n \in 0 .. item.len /\ \A k \in 1 .. n : word[k] = Byte(at + k - 1)
  BY <1>3, WordLenIs
<1> HIDE DEF n, word, words
<1>5. cut \in 0 .. 9
  <2>1. /\ item.len \in Nat /\ n \in 0 .. item.len
        /\ n + 10 > item.len
    BY <1>1, <1>2, <1>4
  <2> QED
    BY ONLY <2>1
<1>6. /\ CutTransform(cut) \in Nat /\ CutTransform(cut) \in DOMAIN OmitLast
      /\ OmitLast[CutTransform(cut)] = cut
  BY <1>5, CutsOff
<1>7. PICK t \in Nat : t = CutTransform(cut)
  BY <1>6
<1>8. PICK d \in Nat \ {0} : d = Len(words)
  BY <1>2
<1>9. id % d = item.index /\ id \div d = t /\ id \in Nat
  <2>1. PICK i \in Nat : i = item.index /\ i < d
    BY <1>1, <1>2, <1>8
  <2>2. (i + t * d) % d = i /\ (i + t * d) \div d = t /\ i + t * d \in Nat
    BY <2>1, IndexAndTransform
  <2> QED
    BY <1>7, <1>8, <2>1, <2>2
<1>10. Reach(at) \in Nat /\ distance \in Nat /\ distance > Reach(at)
       /\ distance - Reach(at) - 1 = id
  <2>1. PICK r \in Nat, i \in Nat : r = Reach(at) /\ i = item.index
    BY <1>2, ReachIs
  <2>2. distance = r + i + t * d + 1 /\ id = i + t * d
    BY <1>7, <1>8, <2>1 DEF WordBase
  <2>3. PICK product \in Nat : product = t * d
    OBVIOUS
  <2>4. distance = r + i + product + 1 /\ id = i + product
    BY ONLY <2>2, <2>3
  <2> HIDE DEF distance, id
  <2> QED
    BY ONLY <2>1, <2>3, <2>4, r \in Nat, i \in Nat, product \in Nat
<1> HIDE DEF id, distance
<1>11. IsWord(id, item.len)
  BY <1>1, <1>6, <1>7, <1>8, <1>9 DEF IsWord, Transform, words
<1>12. Word(id, item.len) = SubSeq(word, 1, n)
  <2>1. Word(id, item.len)
          = SubSeq(words[(id % d) + 1], 1, Larger(item.len - OmitLast[id \div d], 0))
    BY <1>8 DEF Word, WordIndex, Transform, words
  <2>2. item.len - cut = n /\ Larger(n, 0) = n
    BY <1>2, <1>4 DEF Larger
  <2> QED
    BY <1>6, <1>7, <1>9, <2>1, <2>2 DEF word
<1>13. /\ SubSeq(word, 1, n) \in Seq(Nat) /\ Len(SubSeq(word, 1, n)) = n
       /\ \A k \in 0 .. n - 1 : SubSeq(word, 1, n)[k + 1] = Byte(at + k)
  <2>1. /\ SubSeq(word, 0 + 1, n) \in Seq(Nat) /\ Len(SubSeq(word, 0 + 1, n)) = n - 0
        /\ \A k \in 1 .. n - 0 : SubSeq(word, 0 + 1, n)[k] = word[0 + k]
    BY <1>3, <1>4, Slice
  <2>2. ASSUME NEW k \in 0 .. n - 1
        PROVE  SubSeq(word, 1, n)[k + 1] = Byte(at + k)
    <3>1. k + 1 \in 1 .. n /\ at + (k + 1) - 1 = at + k /\ 0 + (k + 1) = k + 1
      BY <1>4
    <3> QED
      BY <1>4, <2>1, <3>1
  <2> QED
    BY <1>4, <2>1, <2>2
<1>14. SpellsInput(at, distance, n, item.len)
  BY <1>10, <1>11, <1>12, <1>13 DEF SpellsInput, WordOf
<1>15. at + n <= End /\ n \in Nat \ {0} /\ distance \in Nat \ {0}
  BY <1>1, <1>2, <1>4, <1>10, InputIs DEF MaxLen
<1> QED
  BY <1>1, <1>10, <1>14, <1>15 DEF GoodMatch, GoodToken

\* What find_match returns is a token of the input.
LEMMA OutcomeIsGood ==
  ASSUME input \in Inputs, base \in Bases, engine \in Engines, ProbeInv,
         Outcome # NoMatch
  PROVE  GoodMatch(Outcome, at)
<1>1. /\ at \in Nat /\ at + engine.ahead <= End
      /\ engine.read \in 4 .. 8 /\ engine.ahead \in engine.read .. 9
      /\ End = Len(input) /\ End \in Nat
  BY SearchersAssumption, InputIs DEF ProbeInv, End
<1>2. CASE Outcome = best
  BY <1>2 DEF ProbeInv
<1>3. CASE Outcome = DictionaryMatch
  <2> DEFINE items == ItemsOf(Bytes(at, at + 4))
  <2>1. at \in 0 .. Len(input) - engine.read
    BY <1>1
  <2>2. items \in [1 .. 2 -> [len : Nat, index : Nat]]
    BY <2>1, SearchersAssumption DEF Bytes
  <2>3. /\ items[1] \in [len : Nat, index : Nat]
        /\ items[2] \in [len : Nat, index : Nat]
    BY <2>2
  <2>4. PICK one, other : /\ one = WordMatch(items[1]) /\ other = WordMatch(items[2])
                          /\ Outcome \in {one, other}
    BY <1>3 DEF DictionaryMatch
  <2>5. at <= End
    BY <1>1
  <2> QED
    BY <1>1, <2>3, <2>4, <2>5, WordIsGood
<1> QED
  BY <1>2, <1>3 DEF Outcome

\* The table.
LEMMA SlotIs ==
  ASSUME input \in Inputs, engine \in Engines, NEW p \in Nat,
         p + engine.read <= End, NEW n \in Nat
  PROVE  Slot(p, n) \in 0 .. TableSize - 1
<1>1. /\ engine.read \in 4 .. 8 /\ End = Len(input) /\ End \in Nat
      /\ TableSize \in Nat \ {0}
  BY SearchersAssumption, TokensAssumption, InputIs DEF End
<1>2. p \in 0 .. Len(input) - engine.read
  BY <1>1
<1>3. Hash(p, engine.hash) \in Nat
  BY <1>2, SearchersAssumption DEF Hash, Bytes
<1>4. PICK s \in Int : s = Hash(p, engine.hash) + 8 * n
  BY <1>3
<1>5. s % TableSize \in 0 .. TableSize - 1
  BY <1>1, Remainder
<1> QED
  BY <1>4, <1>5 DEF Slot

LEMMA StoredIs ==
  ASSUME input \in Inputs, engine \in Engines,
         table \in [0 .. TableSize - 1 -> Seq(Nat)],
         NEW p \in Nat, p + engine.read <= End
  PROVE  Stored(p) \in [0 .. TableSize - 1 -> Seq(Nat)]
<1>1. engine.slots \in 1 .. 2 /\ engine.depth \in Nat \ {0}
  BY SearchersAssumption
<1>2. StoreSlot(p) \in 0 .. TableSize - 1
  <2>1. (p \div 8) % engine.slots \in Nat
    BY <1>1
  <2> QED
    BY <2>1, SlotIs DEF StoreSlot
<1>3. ASSUME NEW old \in Seq(Nat)
      PROVE  Newest(<<p>> \o old, engine.depth) \in Seq(Nat)
  <2>1. PICK s \in Seq(Nat) : s = <<p>> \o old
    <3>1. <<p>> \in Seq(Nat)
      OBVIOUS
    <3>2. <<p>> \o old \in Seq(Nat)
      BY <3>1
    <3> QED
      BY <3>2
  <2>2. PICK m \in Nat : m = Lesser(engine.depth, Len(s)) /\ m <= Len(s)
    BY <1>1 DEF Lesser
  <2>3. SubSeq(s, 0 + 1, m) \in Seq(Nat)
    BY <2>2, Slice
  <2> QED
    BY <2>1, <2>2, <2>3 DEF Newest
<1>4. Newest(<<p>> \o table[StoreSlot(p)], engine.depth) \in Seq(Nat)
  BY <1>2, <1>3
<1> QED
  BY <1>2, <1>4 DEF Stored

\* find_match starts with the last distances and the positions of the table.
LEMMA FindsCandidates ==
  ASSUME input \in Inputs, engine \in Engines,
         table \in [0 .. TableSize - 1 -> Seq(Nat)],
         cache \in [1 .. 4 -> 1 .. Window],
         NEW p \in Nat, p + engine.ahead <= End,
         NEW n \in 0 .. 4, NEW b \in Int,
         FindMatch(p, b, n), UNCHANGED <<input, base, engine, cache>>,
         found' = found, pos' = pos,
         p = (IF found = NoMatch THEN pos ELSE pos + 1)
  PROVE  ProbeInv'
<1>1. /\ engine.read \in 4 .. 8 /\ engine.ahead \in engine.read .. 9
      /\ End \in Nat /\ End' = End /\ p + engine.read <= End
  <2>1. engine.read \in 4 .. 8 /\ engine.ahead \in engine.read .. 9
    BY SearchersAssumption
  <2>2. End \in Nat /\ End' = End
    BY InputIs DEF End
  <2>3. PICK r \in 4 .. 8 : r = engine.read
    BY <2>1
  <2>4. PICK a \in r .. 9 : a = engine.ahead
    BY <2>1, <2>3
  <2>5. p + r <= End
    BY <2>2, <2>4
  <2> QED
    BY <2>1, <2>2, <2>3, <2>5
<1>2. TablePositions(p) \in Seq(Nat)
  <2>1. Slot(p, 0) \in 0 .. TableSize - 1 /\ Slot(p, 1) \in 0 .. TableSize - 1
    BY <1>1, SlotIs
  <2>2. PICK s \in Seq(Nat), t \in Seq(Nat) :
          s = table[Slot(p, 0)] /\ t = table[Slot(p, 1)]
    BY <2>1
  <2> QED
    BY <2>2 DEF TablePositions
<1> DEFINE Record == [last : 0 .. 4, previous : Int]
<1>3. PICK lasts \in Seq(Record) :
        /\ lasts = LastCandidates(p, n)
        /\ \A i \in 1 .. Len(lasts) :
             /\ lasts[i].last \in 1 .. 4
             /\ lasts[i].previous = p - cache[lasts[i].last]
  <2> DEFINE f == [i \in 1 .. n |-> [last |-> i, previous |-> p - cache[i]]]
  <2>1. \A i \in 1 .. n : [last |-> i, previous |-> p - cache[i]] \in Record
    <3> TAKE i \in 1 .. n
    <3>1. i \in 1 .. 4 /\ cache[i] \in 1 .. Window /\ 1 .. Window \subseteq Int
      BY TokensAssumption
    <3> QED
      BY <3>1
  <2> HIDE DEF Record
  <2>2. f \in [1 .. n -> Record]
    BY <2>1
  <2>3. f \in Seq(Record) /\ Len(f) = n
    BY <2>2, FunctionIsSeq
  <2>4. \A i \in 1 .. n : f[i].last = i /\ f[i].previous = p - cache[i]
    OBVIOUS
  <2>5. f = LastCandidates(p, n)
    BY DEF LastCandidates
  <2> HIDE DEF f
  <2>6. \A i \in 1 .. Len(f) : i \in 1 .. 4 /\ i \in 1 .. n
    BY <2>3
  <2>7. \A i \in 1 .. Len(f) :
          f[i].last \in 1 .. 4 /\ f[i].previous = p - cache[f[i].last]
    BY <2>4, <2>6
  <2> QED
    BY <2>3, <2>5, <2>7
<1>4. PICK older \in Seq(Record) :
        /\ older = TableCandidates(p)
        /\ \A i \in 1 .. Len(older) :
             older[i].last = 0 /\ older[i].previous \in Nat
  <2>1. PICK s \in Seq(Nat) : s = TablePositions(p)
    BY <1>2
  <2> DEFINE f == [i \in 1 .. Len(s) |-> [last |-> 0, previous |-> s[i]]]
  <2>2. \A i \in 1 .. Len(s) : s[i] \in Nat
    OBVIOUS
  <2>3. \A i \in 1 .. Len(s) : [last |-> 0, previous |-> s[i]] \in Record
    BY <2>2
  <2> HIDE DEF Record
  <2>4. f \in [1 .. Len(s) -> Record] /\ Len(s) \in Nat
    BY <2>3
  <2>5. f \in Seq(Record) /\ Len(f) = Len(s)
    <3>1. PICK m \in Nat : m = Len(s)
      BY <2>4
    <3> HIDE DEF f
    <3> QED
      BY <2>4, <3>1, FunctionIsSeq
  <2>6. \A i \in 1 .. Len(s) : f[i].last = 0 /\ f[i].previous \in Nat
    BY <2>2
  <2>7. f = TableCandidates(p)
    BY <2>1 DEF TableCandidates
  <2> HIDE DEF f
  <2> QED
    BY <2>5, <2>6, <2>7
<1>5. candidates' = lasts \o older /\ at' = p /\ best' = NoMatch
      /\ check' = Lesser(b, End - p - 1)
  BY <1>3, <1>4 DEF FindMatch
<1> HIDE DEF Record
<1>6. candidates' \in Seq(Record)
  BY <1>5
<1>7. ASSUME NEW i \in 1 .. Len(candidates')
      PROVE  GoodCandidate(candidates[i])'
  <2>1. /\ Len(candidates') = Len(lasts) + Len(older)
        /\ Len(lasts) \in Nat /\ Len(older) \in Nat
        /\ i <= Len(lasts) => candidates'[i] = lasts[i]
        /\ i > Len(lasts) => candidates'[i] = older[i - Len(lasts)]
    BY <1>5
  <2>2. CASE i <= Len(lasts)
    <3>1. /\ i \in 1 .. Len(lasts) /\ candidates'[i] = lasts[i]
      BY <2>1, <2>2
    <3>2. /\ candidates'[i].last \in 1 .. 4
          /\ candidates'[i].previous = p - cache[candidates'[i].last]
      BY <1>3, <3>1
    <3> QED
      BY <1>5, <3>2 DEF GoodCandidate
  <2>3. CASE i > Len(lasts)
    <3>1. /\ i - Len(lasts) \in 1 .. Len(older)
          /\ candidates'[i] = older[i - Len(lasts)]
      BY <2>1, <2>3
    <3>2. candidates'[i].last = 0 /\ candidates'[i].previous \in Nat
      BY <1>4, <3>1
    <3> QED
      BY <3>2 DEF GoodCandidate
  <2> QED
    BY <2>1, <2>2, <2>3
<1>8. check' < End' - at'
  BY <1>1, <1>5 DEF Lesser
<1> QED
  BY <1>1, <1>5, <1>6, <1>7, <1>8 DEF ProbeInv, MaxLen, Record

LEMMA EngineIs ==
  ASSUME engine \in Engines
  PROVE  /\ engine.read \in 4 .. 8 /\ engine.ahead \in engine.read .. 9
         /\ engine.probes \in 0 .. 4 /\ engine.lazyProbes \in 0 .. 4
         /\ engine.step \in Nat \ {0} /\ engine.longStep \in Nat \ {0}
BY SearchersAssumption

LEMMA WhereItSearches ==
  ASSUME input \in Inputs, engine \in Engines, NEW p \in Nat,
         p + engine.ahead <= End
  PROVE  p + engine.read <= End /\ p + 4 <= End /\ p <= End
<1>1. PICK r \in 4 .. 8 : r = engine.read
  BY EngineIs
<1>2. PICK a \in r .. 9 : a = engine.ahead
  BY <1>1, EngineIs
<1>3. End \in Nat /\ p + a <= End
  BY <1>2, InputIs
<1>4. p + r <= End /\ p + 4 <= End /\ p <= End
  BY ONLY <1>3, p \in Nat, r \in 4 .. 8, a \in r .. 9
<1> QED
  BY <1>1, <1>4

\* What a candidate that is taken has in common with the input.
LEMMA TriedIsGood ==
  ASSUME input \in Inputs, base \in Bases, engine \in Engines,
         cache \in [1 .. 4 -> 1 .. Window], ProbeInv,
         NEW c, GoodCandidate(c),
         IF c.last > 0 THEN LastMatches(c) ELSE TableMatches(c)
  PROVE  GoodToken(at, at - c.previous, CandidateLen(c), CandidateLen(c))
<1>1. at \in Nat /\ End \in Nat /\ at <= End /\ Window \in Nat
  BY WhereItSearches, InputIs, TokensAssumption DEF ProbeInv
<1>2. PICK max \in Nat : max = MaxLen /\ at + max = End
  BY <1>1 DEF MaxLen
<1>3. PICK previous \in Nat : /\ previous = c.previous /\ previous < at
                              /\ at - previous <= Window
  <2>1. CASE c.last > 0
    <3>1. c.last \in 1 .. 4 /\ c.previous = at - cache[c.last] /\ c.previous >= 0
      BY <2>1 DEF GoodCandidate, LastMatches
    <3>2. PICK d \in 1 .. Window : d = cache[c.last]
      BY <3>1
    <3> QED
      BY <1>1, <3>1, <3>2
  <2>2. CASE ~(c.last > 0)
    <3>1. c.last = 0 /\ c.previous \in Nat
      BY <2>2 DEF GoodCandidate
    <3> QED
      BY <2>2, <3>1 DEF TableMatches
  <2> QED
    BY <2>1, <2>2
<1>4. PICK len \in 0 .. max : len = CandidateLen(c) /\ SameFor(previous, at, len)
  <2>1. /\ MatchLen(previous, at, max) \in 0 .. max
        /\ SameFor(previous, at, MatchLen(previous, at, max))
    <3>1. previous \in Int /\ at \in Int
      BY <1>1
    <3> QED
      BY <3>1, MatchLenIs
  <2>2. CandidateLen(c) = MatchLen(previous, at, max)
    BY <1>2, <1>3 DEF CandidateLen
  <2> QED
    BY <2>1, <2>2
<1>5. len > 0
  <2>1. CASE c.last > 0
    <3>1. IF engine.order = "chain" THEN len >= 3 \/ (len = 2 /\ c.last <= 2)
          ELSE len >= 4
      BY <1>4, <2>1 DEF LastMatches, MIN_MATCH_BYTES
    <3> QED
      BY <3>1
  <2>2. CASE ~(c.last > 0)
    BY <1>4, <2>2 DEF TableMatches, MIN_MATCH_BYTES
  <2> QED
    BY <2>1, <2>2
<1>6. at + len <= End /\ len \in Nat \ {0}
  BY <1>1, <1>2, <1>5
<1>7. GoodToken(at, at - previous, len, len)
  BY <1>1, <1>3, <1>4, <1>6, EarlierIsGood
<1> QED
  BY <1>3, <1>4, <1>7

(***************************************************************************)
(* Steps of the searchers.                                                 *)
(***************************************************************************)
\* What stays where the decoder does not move.
LEMMA SharedStays ==
  ASSUME SharedInv, UNCHANGED <<input, base, output, copying, start>>,
         pos' \in Nat, table' \in [0 .. TableSize - 1 -> Seq(Nat)],
         phase' \notin {"read", "done"}
  PROVE  SharedInv'
BY DEF SharedInv, OutputInv, End

\* Candidates left over are still candidates.
LEMMA ProbesOn ==
  ASSUME ProbeInv, candidates # <<>>, candidates' \in {<<>>, Tail(candidates)},
         UNCHANGED <<input, base, engine, cache, at, check, found, pos>>,
         best' # NoMatch => GoodMatch(best, at)'
  PROVE  ProbeInv'
<1> DEFINE Record == [last : 0 .. 4, previous : Int]
<1>1. PICK cs \in Seq(Record) : cs = candidates /\ cs # <<>>
  BY DEF ProbeInv
<1>2. \A i \in 1 .. Len(cs) : GoodCandidate(cs[i])
  BY <1>1 DEF ProbeInv
<1> HIDE DEF Record
<1>3. /\ candidates' \in Seq(Record)
      /\ \A i \in 1 .. Len(candidates') : \E j \in 1 .. Len(cs) : candidates'[i] = cs[j]
  <2>1. CASE candidates' = <<>>
    BY <2>1
  <2>2. CASE candidates' = Tail(cs)
    <3>1. /\ Tail(cs) \in Seq(Record) /\ Len(Tail(cs)) = Len(cs) - 1
          /\ \A i \in 1 .. Len(cs) - 1 : Tail(cs)[i] = cs[i + 1]
      BY <1>1
    <3>2. \A i \in 1 .. Len(cs) - 1 : i + 1 \in 1 .. Len(cs)
      BY <1>1
    <3> QED
      BY <2>2, <3>1, <3>2
  <2> QED
    BY <1>1, <2>1, <2>2
<1>4. ASSUME NEW i \in 1 .. Len(candidates')
      PROVE  GoodCandidate(candidates[i])'
  <2>1. PICK j \in 1 .. Len(cs) : candidates'[i] = cs[j]
    BY <1>3
  <2>2. GoodCandidate(cs[j])
    BY <1>2
  <2> QED
    BY <2>1, <2>2 DEF GoodCandidate
<1> QED
  BY <1>3, <1>4 DEF ProbeInv, MaxLen, End, Record

LEMMA SearchKeeps ==
  ASSUME SharedInv, engine \in Engines, SearchInv, Search
  PROVE  SharedInv' /\ SearchInv'
<1>1. /\ phase = "search" /\ phase' = "probe" /\ pos + engine.ahead <= End
      /\ FindMatch(pos, 0, engine.probes) /\ found = NoMatch
      /\ UNCHANGED <<input, base, engine, pos, start, table, output, copying, cache,
                     found>>
  BY DEF Search, CanSearch, FindMatch, SearchInv, fixed, decoder
<1>2. SharedInv'
  BY <1>1, SharedStays DEF SharedInv
<1>3. ProbeInv'
  BY <1>1, EngineIs, FindsCandidates DEF SharedInv, SearchInv
<1>4. SearchInv'
  BY <1>1, <1>3 DEF SearchInv
<1> QED
  BY <1>2, <1>4

LEMMA SearchNextKeeps ==
  ASSUME SharedInv, engine \in Engines, SearchInv, SearchNext
  PROVE  SharedInv' /\ SearchInv'
<1> DEFINE most == Lesser(Larger(found.len - 1, 0), End - (pos + 1))
<1>1. /\ phase = "lazy" /\ phase' = "probe" /\ pos + 1 + engine.ahead <= End
      /\ FindMatch(pos + 1, most, engine.lazyProbes)
      /\ found # NoMatch /\ GoodMatch(found, pos)
      /\ UNCHANGED <<input, base, engine, pos, start, table, output, copying, cache,
                     found>>
  BY DEF SearchNext, CanDefer, CanSearch, FindMatch, SearchInv, fixed, decoder
<1>2. SharedInv'
  BY <1>1, SharedStays DEF SharedInv
<1>3. most \in Int /\ pos + 1 \in Nat
  <2>1. found.len \in Nat /\ End \in Nat /\ pos \in Nat
    BY <1>1, InputIs DEF GoodMatch, GoodToken, SharedInv
  <2> QED
    BY <2>1 DEF Lesser, Larger
<1> HIDE DEF most
<1>4. ProbeInv'
  BY <1>1, <1>3, EngineIs, FindsCandidates DEF SharedInv, SearchInv
<1>5. GoodMatch(found, pos)'
  BY <1>1, FoundIs
<1>6. SearchInv'
  BY <1>1, <1>4, <1>5 DEF SearchInv
<1> QED
  BY <1>2, <1>6

LEMMA TryCandidateKeeps ==
  ASSUME SharedInv, engine \in Engines, SearchInv, TryCandidate
  PROVE  SharedInv' /\ SearchInv'
<1> DEFINE c == Head(candidates)
<1>1. /\ phase = "probe" /\ candidates # <<>> /\ candidates' \in {<<>>, Tail(candidates)}
      /\ Unchanged
  BY DEF TryCandidate, TryLast, TryTable, PassOver, Probing, TakeMatch
<1>2. /\ UNCHANGED <<input, base, engine, phase, pos, start, table, output, copying>>
      /\ UNCHANGED <<cache, found, run, at, check>>
  BY <1>1 DEF Unchanged
<1>3. SharedInv'
  BY <1>1, <1>2, SharedStays DEF SharedInv
<1>4. ProbeInv /\ GoodCandidate(c)
  <2>1. ProbeInv
    BY <1>1 DEF SearchInv
  <2>2. PICK cs \in Seq([last : 0 .. 4, previous : Int]) :
          cs = candidates /\ cs # <<>> /\ \A i \in 1 .. Len(cs) : GoodCandidate(cs[i])
    BY <1>1, <2>1 DEF ProbeInv
  <2>3. 1 \in 1 .. Len(cs) /\ Head(cs) = cs[1]
    BY <2>2
  <2> QED
    BY <2>1, <2>2, <2>3
<1>5. best' # NoMatch => GoodMatch(best, at)'
  <2>1. CASE best' = best
    <3>1. best # NoMatch => GoodMatch(best, at)
      BY <1>4 DEF ProbeInv
    <3> QED
      BY <1>2, <2>1, <3>1, BestIs
  <2>2. CASE best' # best
    <3> HIDE DEF c
    <3>1. IF c.last > 0 THEN LastMatches(c) ELSE TableMatches(c)
      BY <2>2 DEF TryCandidate, TryLast, TryTable, PassOver, c
    <3>2. GoodToken(at, at - c.previous, CandidateLen(c), CandidateLen(c))
      BY <1>4, <3>1, TriedIsGood DEF SharedInv, SearchInv
    <3>3. /\ best'.distance = at - c.previous /\ best'.len = CandidateLen(c)
          /\ best'.code = CandidateLen(c)
      BY <2>2 DEF TryCandidate, TryLast, TryTable, PassOver, TakeMatch, c
    <3>4. PICK m : m = best'
      OBVIOUS
    <3>5. GoodMatch(m, at)
      BY <3>2, <3>3, <3>4 DEF GoodMatch
    <3> QED
      BY <1>2, <3>4, <3>5, BestIs
  <2> QED
    BY <2>1, <2>2
<1>6. ProbeInv'
  BY <1>1, <1>2, <1>4, <1>5, ProbesOn
<1>7. found # NoMatch => GoodMatch(found, pos)'
  BY <1>1, <1>2, FoundIs DEF SearchInv
<1>8. SearchInv'
  BY <1>1, <1>2, <1>6, <1>7 DEF SearchInv
<1> QED
  BY <1>3, <1>8

\* Where a search ends, the position is stored, and the rest stays.
LEMMA Concludes ==
  ASSUME SharedInv, engine \in Engines, SearchInv, Concluded,
         phase' \notin {"read", "done"}, pos' \in {pos, pos + 1}
  PROVE  /\ SharedInv' /\ phase = "probe" /\ ProbeInv
         /\ at \in Nat /\ at + 1 <= End /\ at + engine.read <= End
         /\ start <= pos /\ Len(output) = start
         /\ (Outcome # NoMatch => GoodMatch(Outcome, at))
         /\ UNCHANGED <<input, base, engine, start, output, copying, cache>>
<1>1. /\ phase = "probe" /\ table' = Stored(at)
      /\ UNCHANGED <<input, base, engine, start, output, copying, cache>>
  BY DEF Concluded, fixed, decoder
<1>2. /\ ProbeInv /\ at \in Nat /\ at + engine.ahead <= End
      /\ start <= pos /\ Len(output) = start
  BY <1>1 DEF SearchInv, ProbeInv
<1>3. at + engine.read <= End /\ at + 4 <= End /\ End \in Nat
  BY <1>2, WhereItSearches, InputIs DEF SharedInv
<1>4. table' \in [0 .. TableSize - 1 -> Seq(Nat)]
  BY <1>1, <1>2, <1>3, StoredIs DEF SharedInv
<1>5. pos' \in Nat
  BY DEF SharedInv
<1>6. SharedInv'
  BY <1>1, <1>4, <1>5, SharedStays
<1>7. Outcome # NoMatch => GoodMatch(Outcome, at)
  BY <1>2, OutcomeIsGood DEF SharedInv
<1> QED
  BY <1>1, <1>2, <1>3, <1>6, <1>7

\* Positions before the end of a run can be hashed.
LEMMA StoreEndIs ==
  ASSUME input \in Inputs, engine \in Engines
  PROVE  /\ StoreEnd \in Nat
         /\ \A p \in Nat : p < StoreEnd => p + engine.read <= End
<1>1. PICK r \in 4 .. 8 : r = engine.read
  BY EngineIs
<1>2. PICK end \in Nat : end = End
  BY InputIs
<1>3. StoreEnd = Larger(end - (r - 1), 0)
  BY <1>1, <1>2 DEF StoreEnd
<1> QED
  BY <1>1, <1>2, <1>3 DEF Larger

LEMMA MissKeeps ==
  ASSUME SharedInv, engine \in Engines, SearchInv, Miss
  PROVE  SharedInv' /\ SearchInv'
<1>1. /\ Concluded /\ found = NoMatch /\ pos' = pos + 1 /\ found' = found
      /\ phase' \in {"skip", "search"}
      /\ phase' = "skip" => run' = SkipRun(pos + 1)
  BY DEF Miss
<1>2. /\ SharedInv' /\ start <= pos /\ Len(output) = start
      /\ UNCHANGED <<input, base, engine, start, output, copying, cache>>
  BY <1>1, Concludes
<1>3. pos \in Nat /\ start \in Nat
  BY DEF SharedInv
<1>4. StoreEnd \in Nat /\ StoreEnd' = StoreEnd
  BY <1>2, StoreEndIs DEF SharedInv, StoreEnd, End
<1>5. ASSUME phase' = "skip"
      PROVE  run' \in Runs' /\ start <= run'.next
  <2>1. PICK far \in {8, 16}, step \in {2, 4} :
          run' = [next |-> pos + 1, step |-> step, end |-> Lesser(pos + 1 + far, StoreEnd)]
    BY <1>1, <1>5 DEF SkipRun
  <2>2. Lesser(pos + 1 + far, StoreEnd) \in 0 .. StoreEnd
    BY <1>3, <1>4 DEF Lesser
  <2> QED
    BY <1>2, <1>3, <1>4, <2>1, <2>2 DEF Runs
<1>6. SearchInv'
  BY <1>1, <1>2, <1>3, <1>5 DEF SearchInv
<1> QED
  BY <1>2, <1>6

LEMMA HitKeeps ==
  ASSUME SharedInv, engine \in Engines, SearchInv, Hit
  PROVE  SharedInv' /\ SearchInv'
<1>1. /\ Concluded /\ found = NoMatch /\ Outcome # NoMatch /\ pos' = pos
      /\ found' = Outcome /\ phase' = "lazy"
  BY DEF Hit
<1>2. /\ SharedInv' /\ start <= pos /\ Len(output) = start
      /\ GoodMatch(Outcome, at) /\ ProbeInv
      /\ UNCHANGED <<input, base, engine, start, output, copying, cache>>
  BY <1>1, Concludes
<1>3. at = pos
  BY <1>1, <1>2 DEF ProbeInv
<1>4. GoodMatch(found, pos)'
  BY <1>1, <1>2, <1>3, FoundIs
<1>5. SearchInv'
  BY <1>1, <1>2, <1>4 DEF SearchInv
<1> QED
  BY <1>2, <1>5

LEMMA DeferKeeps ==
  ASSUME SharedInv, engine \in Engines, SearchInv, Defer
  PROVE  SharedInv' /\ SearchInv'
<1>1. /\ Concluded /\ found # NoMatch /\ Outcome # NoMatch /\ pos' = pos + 1
      /\ found' = Outcome /\ phase' = "lazy"
  BY DEF Defer, IsBetter
<1>2. /\ SharedInv' /\ start <= pos /\ Len(output) = start
      /\ GoodMatch(Outcome, at) /\ ProbeInv
      /\ UNCHANGED <<input, base, engine, start, output, copying, cache>>
  BY <1>1, Concludes
<1>3. at = pos + 1 /\ start <= pos + 1
  BY <1>1, <1>2 DEF ProbeInv, SharedInv
<1>4. GoodMatch(found, pos)'
  BY <1>1, <1>2, <1>3, FoundIs
<1>5. SearchInv'
  BY <1>1, <1>2, <1>3, <1>4 DEF SearchInv
<1> QED
  BY <1>2, <1>5

LEMMA SettleKeeps ==
  ASSUME SharedInv, engine \in Engines, SearchInv, Settle
  PROVE  SharedInv' /\ SearchInv'
<1>1. /\ Concluded /\ found # NoMatch /\ pos' = pos
      /\ found' = found /\ phase' = "emit"
  BY DEF Settle
<1>2. /\ SharedInv' /\ start <= pos /\ Len(output) = start /\ phase = "probe"
      /\ UNCHANGED <<input, base, engine, start, output, copying, cache>>
  BY <1>1, Concludes
<1>3. GoodMatch(found, pos)
  BY <1>1, <1>2 DEF SearchInv
<1>4. GoodMatch(found, pos)'
  BY <1>1, <1>2, <1>3, FoundIs
<1>5. SearchInv'
  BY <1>1, <1>2, <1>4 DEF SearchInv
<1> QED
  BY <1>2, <1>5

LEMMA EmitKeeps ==
  ASSUME SharedInv, engine \in Engines, SearchInv, Emit
  PROVE  SharedInv' /\ SearchInv'
<1>1. /\ phase \in {"lazy", "emit"} /\ phase' = "read"
      /\ TakeToken(pos, found.distance, found.len, found.code)
      /\ start' = pos + found.len /\ run' = MatchRun(pos + found.len)
      /\ cache' = IF found.distance <= Reach(pos) /\ found.distance # cache[1]
                  THEN <<found.distance>> \o SubSeq(cache, 1, 3) ELSE cache
      /\ UNCHANGED <<input, base, engine, pos, table>>
  BY DEF Emit, fixed
<1>2. /\ GoodToken(pos, found.distance, found.len, found.code)
      /\ start <= pos /\ Len(output) = start
  BY <1>1 DEF SearchInv, GoodMatch
<1>3. /\ input \in Inputs /\ base \in Bases /\ OutputInv /\ pos \in Nat
      /\ End \in Nat /\ Window \in Nat
  BY InputIs, TokensAssumption DEF SharedInv
<1>4. OutputInv' /\ CopyTrue' /\ start' \in Nat /\ start' <= End'
  BY <1>1, <1>2, <1>3, TakesToken
<1>5. SharedInv'
  BY <1>1, <1>3, <1>4 DEF SharedInv
<1>6. cache' \in [1 .. 4 -> 1 .. Window]
  <2>1. PICK ring \in [1 .. 4 -> 1 .. Window] : ring = cache
    BY DEF SearchInv
  <2>2. CASE cache' = cache
    BY <2>1, <2>2
  <2>3. CASE found.distance <= Reach(pos) /\ cache' = <<found.distance>> \o SubSeq(cache, 1, 3)
    <3>1. /\ found.distance \in Nat \ {0} /\ found.distance <= Reach(pos)
          /\ Reach(pos) \in Nat /\ Reach(pos) <= Window
      BY <1>2, <1>3, <2>3, ReachIs DEF GoodToken
    <3>2. PICK d \in 1 .. Window : d = found.distance
      BY <1>3, <3>1
    <3>3. cache' = <<d>> \o SubSeq(ring, 1, 3)
      BY <2>1, <2>3, <3>2
    <3> QED
      BY <3>3, RingTakes
  <2> QED
    BY <1>1, <2>2, <2>3
<1>7. run' \in Runs'
  <2>1. StoreEnd \in Nat /\ StoreEnd' = StoreEnd
    BY <1>1, <1>3, StoreEndIs DEF StoreEnd, End
  <2>2. PICK len \in Nat : len = found.len
    BY <1>2 DEF GoodToken
  <2>3. PICK step \in Nat \ {0} :
          run' = [next |-> pos + 2, end |-> RunEnd(pos + len), step |-> step]
    BY <1>1, <2>2, EngineIs DEF MatchRun
  <2>4. RunEnd(pos + len) \in 0 .. StoreEnd
    BY <1>3, <2>1 DEF RunEnd, Lesser
  <2> QED
    BY <1>3, <2>1, <2>3, <2>4 DEF Runs
<1>8. SearchInv'
  BY <1>1, <1>6, <1>7 DEF SearchInv
<1> QED
  BY <1>5, <1>8

LEMMA ReadKeeps ==
  ASSUME SharedInv, engine \in Engines, SearchInv, ReadByte \/ ReadAll
  PROVE  SharedInv' /\ SearchInv'
<1>1. /\ phase = "read" /\ CopyTrue /\ OutputInv /\ input \in Seq(Nat)
      /\ start \in Nat /\ start <= End /\ run \in Runs
      /\ UNCHANGED <<input, base, engine, pos, start, table, cache, run>>
  BY InputIs DEF ReadByte, ReadAll, CopyByte, SharedInv, SearchInv, fixed
<1>2. Runs' = Runs
  BY <1>1 DEF Runs, StoreEnd, End
<1>3. CASE ReadByte
  <2>1. CopyByte /\ phase' = "read"
    BY <1>1, <1>3 DEF ReadByte
  <2>2. OutputInv' /\ CopyTrue'
    BY <1>1, <2>1, CopiesOn
  <2>3. SharedInv'
    BY <1>1, <2>1, <2>2 DEF SharedInv, End
  <2>4. SearchInv'
    BY <1>1, <1>2, <2>1 DEF SearchInv
  <2> QED
    BY <2>3, <2>4
<1>4. CASE ReadAll
  <2>1. copying.left = 0 /\ phase' = "store" /\ UNCHANGED <<output, copying>>
    BY <1>4 DEF ReadAll, decoder
  <2>2. Len(output) = start
    BY <1>1, <2>1 DEF CopyTrue, OutputInv
  <2>3. SharedInv'
    BY <1>1, <2>1, SharedStays DEF SharedInv
  <2>4. SearchInv'
    BY <1>1, <1>2, <2>1, <2>2 DEF SearchInv
  <2> QED
    BY <2>3, <2>4
<1> QED
  BY <1>3, <1>4

LEMMA StoreNextKeeps ==
  ASSUME SharedInv, engine \in Engines, SearchInv, StoreNext
  PROVE  SharedInv' /\ SearchInv'
<1>1. /\ phase \in {"skip", "store"} /\ phase' = phase /\ run.next < run.end
      /\ table' = Stored(run.next) /\ run' = [run EXCEPT !.next = @ + run.step]
      /\ UNCHANGED <<input, base, engine, pos, start, output, copying, cache, found>>
  BY DEF StoreNext, fixed, decoder
<1>2. StoreEnd \in Nat /\ Runs' = Runs
  BY <1>1, StoreEndIs DEF SharedInv, Runs, StoreEnd, End
<1>3. PICK next \in Nat, end \in 0 .. StoreEnd, step \in Nat \ {0} :
        run = [next |-> next, end |-> end, step |-> step]
  BY <1>1 DEF SearchInv, Runs
<1>4. next < StoreEnd /\ run' = [next |-> next + step, end |-> end, step |-> step]
  BY <1>1, <1>2, <1>3
<1>5. run' \in Runs'
  <2>1. next + step \in Nat
    OBVIOUS
  <2> QED
    BY <1>2, <1>4, <2>1 DEF Runs
<1>6. next + engine.read <= End
  BY <1>4, StoreEndIs DEF SharedInv
<1>7. table' \in [0 .. TableSize - 1 -> Seq(Nat)]
  BY <1>1, <1>3, <1>6, StoredIs DEF SharedInv
<1>8. SharedInv'
  BY <1>1, <1>7, SharedStays DEF SharedInv
<1>9. phase = "skip" => start <= pos /\ start <= next + step
  BY <1>3 DEF SearchInv, SharedInv
<1>10. SearchInv'
  BY <1>1, <1>4, <1>5, <1>9 DEF SearchInv
<1> QED
  BY <1>8, <1>10

LEMMA EndRunKeeps ==
  ASSUME SharedInv, engine \in Engines, SearchInv, EndRun
  PROVE  SharedInv' /\ SearchInv'
<1>1. /\ phase \in {"skip", "store"} /\ phase' = "search" /\ found' = NoMatch
      /\ pos' = IF phase = "skip" THEN run.next ELSE start
      /\ UNCHANGED <<input, base, engine, start, table, output, copying, cache>>
  BY DEF EndRun, fixed, decoder
<1>2. /\ run.next \in Nat /\ start \in Nat /\ Len(output) = start
      /\ phase = "skip" => start <= run.next
  BY <1>1 DEF SearchInv, SharedInv, Runs
<1>3. pos' \in Nat /\ start <= pos'
  BY <1>1, <1>2
<1>4. SharedInv'
  BY <1>1, <1>3, SharedStays DEF SharedInv
<1>5. SearchInv'
  BY <1>1, <1>2, <1>3 DEF SearchInv
<1> QED
  BY <1>4, <1>5

LEMMA PushTailKeeps ==
  ASSUME SharedInv, engine \in Engines, SearchInv, PushTail
  PROVE  SharedInv' /\ SearchInv'
<1>1. /\ phase = "search" /\ phase' = "done" /\ start' = End
      /\ TakeLiterals(start, End)
      /\ UNCHANGED <<input, base, engine, pos, table, cache>>
  BY DEF PushTail, fixed
<1>2. /\ input \in Seq(Nat) /\ End \in Nat /\ End' = End /\ OutputInv
      /\ start \in Nat /\ start <= End /\ Len(output) = start
  BY <1>1, InputIs DEF SharedInv, SearchInv, End
<1>3. OutputInv' /\ Len(output') = End
  BY <1>1, <1>2, TakesLiterals
<1>4. SharedInv'
  BY <1>1, <1>2, <1>3 DEF SharedInv
<1>5. SearchInv'
  BY <1>1 DEF SearchInv
<1> QED
  BY <1>4, <1>5

\* Every step of a searcher keeps the invariant.
LEMMA SearchersKeep ==
  ASSUME SharedInv, engine \in Engines, SearchInv, SearchersNext
  PROVE  SharedInv' /\ SearchInv' /\ engine' = engine
<1>1. engine' = engine
  BY DEF SearchersNext, Collect, LookFurther, TryCandidate, Search, Miss, Hit,
         SearchNext, Defer, Settle, Emit, PushTail, TryLast, TryTable, PassOver,
         Unchanged, Concluded, ReadByte, ReadAll, StoreNext, EndRun, fixed
<1> QED
  BY <1>1, SearchKeeps, SearchNextKeeps, TryCandidateKeeps, MissKeeps, HitKeeps,
     DeferKeeps, SettleKeeps, EmitKeeps, ReadKeeps, StoreNextKeeps, EndRunKeeps,
     PushTailKeeps
  DEF SearchersNext, Collect, LookFurther

(***************************************************************************)
(* Tokens of the scanners.                                                 *)
(***************************************************************************)
\* What the code fixes of a scanner.
LEMMA ScannerIs ==
  ASSUME engine \in Scanners
  PROVE  /\ engine.longest \in Nat /\ engine.block \in Nat \ {0}
         /\ engine.min \in 4 .. 6 /\ engine.margin \in 8 .. 16
         /\ engine.least \in engine.margin .. 18
         /\ engine.farthest \in 0 .. Window /\ engine.reach \in 0 .. Window
         /\ engine.farthest = 0 =>
              engine.reach > 0 \/ engine.longest <= Window + engine.margin
         /\ engine.tail \in 0 .. engine.min /\ engine.stride \in Nat
         /\ engine.stride > 0 => engine.block >= engine.longest
         /\ engine.stride = 0 => engine.least > engine.margin
         /\ engine.stride = 0 /\ engine.past => engine.margin > 8
         /\ engine.first \subseteq MaybeDistance
         /\ Patience \in Nat \ {0}
<1>1. /\ engine.longest \in Nat /\ engine.block \in Nat \ {0}
      /\ engine.min \in 4 .. 6 /\ engine.margin \in 8 .. 16
      /\ engine.least \in engine.margin .. 18
      /\ engine.farthest \in 0 .. Window /\ engine.reach \in 0 .. Window
      /\ engine.farthest = 0 =>
           engine.reach > 0 \/ engine.longest <= Window + engine.margin
      /\ engine.tail \in 0 .. engine.min /\ engine.stride \in Nat
      /\ engine.first \subseteq MaybeDistance
      /\ Patience \in Nat \ {0}
  BY ScannersAssumption DEF MaybeDistance
<1>2. IF engine.stride > 0 THEN engine.block >= engine.longest
      ELSE engine.least > engine.margin /\ (engine.past => engine.margin > 8)
  BY ScannersAssumption
<1> QED
  BY <1>1, <1>2

\* A position is stored, and entries stay behind what is ahead of it.
LEMMA StoresOne ==
  ASSUME input \in Inputs, engine \in Scanners,
         table \in [0 .. TableSize - 1 -> Seq(Nat)],
         NEW p \in Nat, p + engine.min <= End, table' = StoredOne(p)
  PROVE  /\ table' \in [0 .. TableSize - 1 -> Seq(Nat)]
         /\ Key(p) \in 0 .. TableSize - 1
         /\ \A b \in Nat : EntriesBelow(b) /\ p < b => EntriesBelow(b)'
<1>1. PICK m \in 4 .. 6 : m = engine.min
  BY ScannerIs
<1>2. Len(input) \in Nat /\ TableSize \in Nat \ {0} /\ p + m <= Len(input)
  BY <1>1, InputIs, TokensAssumption DEF End
<1>3. p \in 0 .. Len(input) - engine.min
  BY <1>1, <1>2
<1>4. Hash(p, engine.min) \in Nat
  BY <1>3, ScannersAssumption DEF Hash, Bytes
<1>5. PICK key \in 0 .. TableSize - 1 : key = Key(p)
  BY <1>2, <1>4, Remainder DEF Key
<1>6. table' = [table EXCEPT ![key] = <<p>>]
  BY <1>5 DEF StoredOne
<1>7. <<p>> \in Seq(Nat) /\ <<p>>[1] = p
  OBVIOUS
<1>8. table' \in [0 .. TableSize - 1 -> Seq(Nat)]
  BY <1>6, <1>7
<1>9. ASSUME NEW b \in Nat, EntriesBelow(b), p < b,
             NEW k \in 0 .. TableSize - 1, table'[k] # <<>>
      PROVE  table'[k][1] < b
  <2>1. CASE k = key
    BY <1>6, <1>7, <1>9, <2>1
  <2>2. CASE k # key
    <3>1. table'[k] = table[k]
      BY <1>6, <2>2
    <3> QED
      BY <1>9, <3>1 DEF EntriesBelow
  <2> QED
    BY <2>1, <2>2
<1> QED
  BY <1>5, <1>8, <1>9 DEF EntriesBelow

\* Entries are positions behind, and so no farther than the window.
LEMMA EntryIsEarlier ==
  ASSUME input \in Inputs, engine \in Scanners, pos \in Nat,
         table \in [0 .. TableSize - 1 -> Seq(Nat)],
         EntriesBelow(pos), Key(pos) \in 0 .. TableSize - 1,
         NEW to \in Nat, to <= Len(input), Len(input) <= engine.longest,
         pos <= to - engine.margin, EntryMatches
  PROVE  LET previous == Position(table[Key(pos)][1])
         IN  /\ previous \in Nat /\ previous < pos /\ pos - previous <= Window
             /\ Agrees(previous)
<1>1. PICK p \in Nat, w \in Nat : p = pos /\ w = Window
  BY TokensAssumption
<1>2. PICK entry \in Nat : entry = table[Key(pos)][1] /\ entry < p
  <2>1. PICK s \in Seq(Nat) : s = table[Key(pos)] /\ s # <<>>
    BY DEF EntryMatches
  <2>2. s[1] \in Nat
    BY <2>1
  <2> QED
    BY <1>1, <2>1, <2>2 DEF EntriesBelow
<1>3. PICK previous : /\ previous = Position(entry) /\ Agrees(previous)
                      /\ engine.farthest > 0 => p - previous <= engine.farthest
  BY <1>1, <1>2 DEF EntryMatches
<1>4. PICK farthest \in 0 .. w, reach \in 0 .. w :
        farthest = engine.farthest /\ reach = engine.reach
  BY <1>1, ScannerIs
<1>5. previous \in Nat /\ previous < p /\ (reach > 0 => p - previous <= w)
  <2>1. CASE reach = 0
    BY <1>2, <1>3, <1>4, <2>1 DEF Position
  <2>2. CASE reach > 0
    <3>1. PICK back \in Nat : /\ back = (p - entry - 1) % reach
                              /\ back < reach /\ back <= p - entry - 1
      <4>1. PICK n \in Nat : n = p - entry - 1
        BY <1>2
      <4>2. n % reach \in 0 .. reach - 1 /\ n % reach <= n
        <5>1. reach \in Nat \ {0} /\ n \in Int
          BY <2>2
        <5> QED
          BY <5>1, Remainder
      <4> QED
        BY <4>1, <4>2
    <3>2. previous = p - (back + 1)
      BY <1>1, <1>3, <1>4, <2>2, <3>1 DEF Position
    <3> QED
      BY ONLY <1>2, <3>1, <3>2, p \in Nat, w \in Nat, entry \in Nat, back \in Nat,
              reach \in 0 .. w
  <2> QED
    BY <1>4, <2>1, <2>2
<1>6. farthest > 0 => p - previous <= w
  BY <1>3, <1>4, <1>5
<1>7. farthest = 0 /\ reach = 0 => p <= w
  <2>1. PICK longest \in Nat, margin \in Nat, length \in Nat :
          longest = engine.longest /\ margin = engine.margin /\ length = Len(input)
    <3>1. engine.longest \in Nat /\ engine.margin \in 8 .. 16
      BY ScannerIs
    <3>2. engine.margin \in Nat
      BY <3>1
    <3>3. Len(input) \in Nat
      BY InputIs DEF End
    <3> QED
      BY <3>1, <3>2, <3>3
  <2>2. farthest = 0 /\ reach = 0 => longest <= w + margin
    BY <1>1, <1>4, <2>1, ScannerIs
  <2>3. p <= to - margin /\ to <= length /\ length <= longest
    BY <1>1, <2>1
  <2> QED
    BY ONLY <2>2, <2>3, longest \in Nat, margin \in Nat, length \in Nat, to \in Nat,
            p \in Nat, w \in Nat
<1>8. p - previous <= w
  BY <1>5, <1>6, <1>7
<1> QED
  BY <1>1, <1>2, <1>3, <1>5, <1>8

\* A copy goes on as far as the bytes are the same.
LEMMA CopyIsGood ==
  ASSUME input \in Inputs, base \in Bases, engine \in Scanners,
         pos \in Nat, candidate \in Nat, candidate < pos, pos - candidate <= Window,
         Agrees(candidate), block.to \in Nat, block.to <= End, pos <= Limit
  PROVE  /\ GoodToken(pos, pos - candidate, CopyLen, CopyLen)
         /\ CopyLen \in Nat /\ engine.min <= CopyLen /\ pos + CopyLen <= block.to
<1>1. PICK m \in 4 .. 6, margin \in 8 .. 16 : m = engine.min /\ margin = engine.margin
  BY ScannerIs
<1>2. PICK p \in Nat, q \in Nat, to \in Nat, end \in Nat :
        /\ p = pos /\ q = candidate /\ to = block.to /\ end = End
        /\ q < p /\ to <= end /\ p <= to - margin
  BY <1>1, InputIs DEF Limit
<1>3. PICK max \in Nat : max = to - p - m
  BY <1>2
<1>4. PICK n \in 0 .. max : n = MatchLen(q + m, p + m, max) /\ SameFor(q + m, p + m, n)
  <2>1. q + m \in Int /\ p + m \in Int
    OBVIOUS
  <2> QED
    BY <2>1, MatchLenIs
<1>5. CopyLen = m + n
  BY <1>1, <1>2, <1>3, <1>4 DEF CopyLen
<1>6. SameFor(q, p, m)
  BY <1>1, <1>2 DEF Agrees
<1>7. SameFor(q, p, m + n)
  <2>1. ASSUME NEW k \in 0 .. (m + n) - 1
        PROVE  Byte(q + k) = Byte(p + k)
    <3>1. CASE k < m
      <4>1. k \in 0 .. m - 1
        BY <3>1
      <4> QED
        BY <1>6, <4>1 DEF SameFor
    <3>2. CASE k >= m
      <4>1. /\ k - m \in 0 .. n - 1
            /\ q + m + (k - m) = q + k /\ p + m + (k - m) = p + k
        BY <3>2
      <4>2. Byte(q + m + (k - m)) = Byte(p + m + (k - m))
        BY <1>4, <4>1 DEF SameFor
      <4> QED
        BY <4>1, <4>2
    <3> QED
      BY <3>1, <3>2
  <2> QED
    BY <2>1 DEF SameFor
<1>8. m + n \in Nat \ {0} /\ p + (m + n) <= to /\ p + (m + n) <= end /\ m <= m + n
  BY ONLY <1>2, <1>3, m \in 4 .. 6, n \in 0 .. max, max \in Nat, p \in Nat,
          to \in Nat, end \in Nat
<1>9. GoodToken(p, p - q, m + n, m + n)
  BY <1>2, <1>7, <1>8, EarlierIsGood
<1> QED
  BY <1>1, <1>2, <1>5, <1>8, <1>9

(***************************************************************************)
(* Steps of the scanners: blocks.                                          *)
(***************************************************************************)
\* Blocks follow each other, and one that strides has the whole input.
LEMMA NextBlockIs ==
  ASSUME input \in Inputs, engine \in Scanners, ScanInv, block.to < Len(input)
  PROVE  /\ NextBlock \in [from : Nat, to : Nat]
         /\ NextBlock.from = block.to /\ block.to \in Nat
         /\ block.to < NextBlock.to /\ NextBlock.to <= End /\ End \in Nat
         /\ engine.stride > 0 => block.to = 0 /\ NextBlock.to = End
<1>1. PICK to \in Nat, end \in Nat, longest \in Nat, size \in Nat \ {0} :
        /\ to = block.to /\ end = Len(input) /\ end = End /\ to < end
        /\ longest = engine.longest /\ size = engine.block /\ end <= longest
  BY InputIs, ScannerIs DEF ScanInv, BlockInv, End
<1>2. NextBlock = [from |-> to, to |-> Lesser(to + size, end)]
  BY <1>1 DEF NextBlock
<1>3. Lesser(to + size, end) \in Nat /\ to < Lesser(to + size, end)
      /\ Lesser(to + size, end) <= end
  BY <1>1 DEF Lesser
<1>4. engine.stride > 0 => to = 0 /\ Lesser(to + size, end) = end
  <2>1. engine.stride > 0 => to \in {0, end} /\ size >= longest
    BY <1>1, ScannerIs DEF ScanInv, BlockInv
  <2> QED
    BY <1>1, <2>1 DEF Lesser
<1> QED
  BY <1>1, <1>2, <1>3, <1>4

\* The entries of one block are behind the next.
LEMMA TableGoesOn ==
  ASSUME input \in Inputs, engine \in Scanners, ScanInv, block.to < Len(input),
         table \in [0 .. TableSize - 1 -> Seq(Nat)],
         UNCHANGED <<input, engine, table>>, block' = NextBlock, phase' = "block"
  PROVE  TableInv'
<1>1. /\ NextBlock.to \in Nat /\ block.to \in Nat /\ block.to < NextBlock.to
  BY NextBlockIs
<1>2. engine.stride = 0 => EntriesBelow(Larger(block.to, 1))'
  <2>1. ASSUME engine.stride = 0, NEW k \in 0 .. TableSize - 1, table[k] # <<>>
        PROVE  table[k][1] < Larger(NextBlock.to, 1)
    <3>1. table[k][1] \in Nat
      <4>1. PICK s \in Seq(Nat) : s = table[k] /\ s # <<>>
        BY <2>1
      <4> QED
        BY <4>1
    <3>2. table[k][1] < Larger(block.to, 1)
      BY <2>1 DEF ScanInv, TableInv, EntriesBelow
    <3> QED
      BY <1>1, <3>1, <3>2 DEF Larger
  <2> QED
    BY <2>1 DEF EntriesBelow
<1> QED
  BY <1>1, <1>2 DEF TableInv

LEMMA StoreBlockKeeps ==
  ASSUME SharedInv, engine \in Scanners, ScanInv, StoreBlock
  PROVE  SharedInv' /\ ScanInv'
<1>1. /\ phase = "block" /\ phase' = "block" /\ block.to < Len(input)
      /\ block' = NextBlock /\ stored' = Kept
      /\ UNCHANGED <<input, base, engine, pos, start, table, output, copying>>
      /\ UNCHANGED <<last, kept, skip>>
  BY DEF StoreBlock, fixed, decoder
<1>2. /\ NextBlock \in [from : Nat, to : Nat]
      /\ NextBlock.from = block.to /\ block.to \in Nat
      /\ block.to < NextBlock.to /\ NextBlock.to <= End /\ End' = End
      /\ engine.stride > 0 => block.to = 0 /\ NextBlock.to = End
  BY <1>1, NextBlockIs DEF SharedInv, End
<1>3. SharedInv'
  BY <1>1, SharedStays DEF SharedInv
<1>4. TableInv'
  BY <1>1, TableGoesOn DEF SharedInv
<1>5. /\ Len(output) = Pending /\ Kept = Pending
      /\ Pending \in 0 .. block.to /\ Kept # NoPosition
  BY <1>1, <1>2 DEF ScanInv, BlockInv, Pending, Kept, NoPosition
<1>6. BlockInv'
  <2>1. /\ stored' \in 0 .. NextBlock.to /\ Pending' = stored'
    BY <1>1, <1>2, <1>5 DEF Pending
  <2> QED
    BY <1>1, <1>2, <1>5, <2>1 DEF BlockInv
<1>7. ScanInv'
  BY <1>1, <1>4, <1>6 DEF ScanInv
<1> QED
  BY <1>3, <1>7

LEMMA LiteralBlockKeeps ==
  ASSUME SharedInv, engine \in Scanners, ScanInv, LiteralBlock
  PROVE  SharedInv' /\ ScanInv'
<1>1. PICK fits \in BOOLEAN :
        /\ TakeLiterals(Pending, IF fits THEN NextBlock.to ELSE NextBlock.from)
        /\ stored' = IF fits THEN NoPosition ELSE NextBlock.from
  BY DEF LiteralBlock
<1>2. /\ phase = "block" /\ phase' = "block" /\ block.to < Len(input)
      /\ block' = NextBlock
      /\ UNCHANGED <<input, base, engine, pos, start, table>>
      /\ UNCHANGED <<last, kept, skip>>
  BY DEF LiteralBlock, fixed
<1>3. /\ NextBlock \in [from : Nat, to : Nat]
      /\ NextBlock.from = block.to /\ block.to \in Nat
      /\ block.to < NextBlock.to /\ NextBlock.to <= End /\ End' = End /\ End \in Nat
      /\ engine.stride > 0 => block.to = 0 /\ NextBlock.to = End
  BY <1>2, NextBlockIs DEF SharedInv, End
<1>4. Len(output) = Pending /\ Pending \in 0 .. block.to
  BY <1>2, <1>3 DEF ScanInv, BlockInv, Pending, NoPosition
<1>5. PICK end \in Nat : /\ end = IF fits THEN NextBlock.to ELSE NextBlock.from
                         /\ block.to <= end /\ end <= NextBlock.to
  BY <1>3
<1>6. OutputInv' /\ Len(output') = end
  BY <1>1, <1>2, <1>3, <1>4, <1>5, InputIs, TakesLiterals DEF SharedInv
<1>7. SharedInv'
  BY <1>2, <1>3, <1>6 DEF SharedInv
<1>8. TableInv'
  BY <1>2, TableGoesOn DEF SharedInv
<1>9. BlockInv'
  <2>1. stored' \in {NoPosition} \cup 0 .. NextBlock.to /\ Pending' = end
    BY <1>1, <1>2, <1>3, <1>5 DEF Pending, NoPosition
  <2> QED
    BY <1>2, <1>3, <1>6, <2>1 DEF BlockInv
<1>10. ScanInv'
  BY <1>2, <1>8, <1>9 DEF ScanInv
<1> QED
  BY <1>7, <1>10

LEMMA MatchBlockKeeps ==
  ASSUME SharedInv, engine \in Scanners, ScanInv, MatchBlock
  PROVE  SharedInv' /\ ScanInv'
<1>1. /\ phase = "block" /\ phase' \in {"rest", "scan"} /\ block.to < Len(input)
      /\ TakeLiterals(Pending, NextBlock.from)
      /\ block' = NextBlock /\ stored' = NoPosition /\ start' = NextBlock.from
      /\ pos' = IF engine.stride > 0 THEN 0 ELSE Larger(NextBlock.from, 1)
      /\ kept' = last /\ last' = last /\ skip' = Patience
      /\ phase' = "scan" => NextBlock.to - NextBlock.from >= engine.least
      /\ UNCHANGED <<input, base, engine, table>>
  <2>1. /\ NextBlock.to - NextBlock.from \in Int /\ engine.least \in Int
    <3>1. NextBlock.to \in Nat /\ NextBlock.from \in Nat
      BY NextBlockIs DEF MatchBlock, SharedInv
    <3>2. PICK m \in 8 .. 16 : m = engine.margin
      BY ScannerIs
    <3>3. engine.least \in m .. 18
      BY <3>2, ScannerIs
    <3> QED
      BY <3>1, <3>3
  <2> QED
    BY <2>1 DEF MatchBlock, fixed
<1>2. PICK from \in Nat, to \in Nat, end \in Nat :
        /\ NextBlock = [from |-> from, to |-> to] /\ from = block.to /\ end = End
        /\ from < to /\ to <= end /\ End' = end
        /\ engine.stride > 0 => from = 0 /\ to = end
  <2>1. /\ NextBlock \in [from : Nat, to : Nat]
        /\ NextBlock.from = block.to /\ block.to \in Nat
        /\ block.to < NextBlock.to /\ NextBlock.to <= End /\ End' = End /\ End \in Nat
        /\ engine.stride > 0 => block.to = 0 /\ NextBlock.to = End
    BY <1>1, NextBlockIs DEF SharedInv, End
  <2> QED
    BY <2>1
<1>3. Len(output) = Pending /\ Pending \in 0 .. from
  BY <1>1, <1>2 DEF ScanInv, BlockInv, Pending, NoPosition
<1>4. OutputInv' /\ Len(output') = from
  BY <1>1, <1>2, <1>3, InputIs, TakesLiterals DEF SharedInv
<1>5. pos' \in Nat /\ from <= pos'
  BY <1>1, <1>2 DEF Larger
<1>6. SharedInv'
  BY <1>1, <1>2, <1>4, <1>5 DEF SharedInv
<1>7. BlockInv'
  BY <1>1, <1>2, <1>4, <1>5 DEF BlockInv
<1>8. TableInv'
  <2>1. CASE engine.stride = 0
    <3>1. pos' = Larger(from, 1) /\ pos' <= Larger(to, 1)
      BY <1>1, <1>2, <2>1 DEF Larger
    <3>2. ASSUME NEW k \in 0 .. TableSize - 1, table[k] # <<>>
          PROVE  table[k][1] < pos' /\ table[k][1] < Larger(to, 1)
      <4>1. table[k][1] \in Nat
        <5>1. PICK s \in Seq(Nat) : s = table[k] /\ s # <<>>
          BY <3>2 DEF SharedInv
        <5> QED
          BY <5>1
      <4>2. table[k][1] < Larger(from, 1)
        BY <1>2, <2>1, <3>2 DEF ScanInv, TableInv, EntriesBelow
      <4> QED
        BY <1>2, <3>1, <4>1, <4>2 DEF Larger
    <3> QED
      BY <1>1, <1>2, <2>1, <3>2 DEF TableInv, EntriesBelow
  <2>2. CASE engine.stride > 0
    <3>1. from = 0 /\ to > 0 /\ pos' = 0
      BY <1>1, <1>2, <2>2
    <3>2. EntriesBelow(0)
      BY <1>2, <2>2, <3>1 DEF ScanInv, TableInv
    <3> QED
      BY <1>1, <1>2, <2>2, <3>1, <3>2 DEF TableInv, EntriesBelow
  <2> QED
    BY <2>1, <2>2, ScannerIs
<1>9. phase' = "scan" /\ engine.stride = 0 => pos' + 8 <= to
  <2>1. PICK margin \in 8 .. 16 : margin = engine.margin
    BY ScannerIs
  <2>2. PICK least \in margin .. 18 :
          least = engine.least /\ (engine.stride = 0 => least > margin)
    BY <2>1, ScannerIs
  <2>3. phase' = "scan" => to - from >= least
    BY <1>1, <1>2, <2>2
  <2>4. engine.stride = 0 => pos' = Larger(from, 1)
    BY <1>1, <1>2
  <2> QED
    BY <1>2, <2>2, <2>3, <2>4 DEF Larger
<1>10. Patience \in Nat /\ Patience >= Patience
  BY ScannerIs
<1>11. ScanInv'
  BY <1>1, <1>2, <1>7, <1>8, <1>9, <1>10 DEF ScanInv
<1> QED
  BY <1>6, <1>11

LEMMA FinishKeeps ==
  ASSUME SharedInv, engine \in Scanners, ScanInv, Finish
  PROVE  SharedInv' /\ ScanInv'
<1>1. /\ phase = "block" /\ phase' = "done" /\ block.to = Len(input)
      /\ TakeLiterals(Pending, Len(input)) /\ stored' = NoPosition
      /\ UNCHANGED <<input, base, engine, pos, start, table, block, last, kept, skip>>
  BY DEF Finish, fixed
<1>2. /\ Len(output) = Pending /\ Pending \in 0 .. Len(input)
      /\ End = Len(input) /\ End \in Nat /\ input \in Seq(Nat)
  BY <1>1, InputIs DEF ScanInv, BlockInv, Pending, NoPosition, SharedInv, End
<1>3. OutputInv' /\ Len(output') = End
  BY <1>1, <1>2, TakesLiterals DEF SharedInv
<1>4. SharedInv'
  BY <1>1, <1>3 DEF SharedInv, End
<1>5. BlockInv'
  BY <1>1 DEF ScanInv, BlockInv, End
<1>6. TableInv'
  BY <1>1 DEF ScanInv, TableInv, EntriesBelow
<1>7. ScanInv'
  BY <1>1, <1>5, <1>6 DEF ScanInv
<1> QED
  BY <1>4, <1>7

LEMMA RunOutKeeps ==
  ASSUME SharedInv, engine \in Scanners, ScanInv, RunOut
  PROVE  SharedInv' /\ ScanInv'
<1>1. /\ phase \in {"copy", "rest"} /\ phase' = "block"
      /\ output' = SubSeq(output, 1, block.from) /\ copying' = NoCopy
      /\ last' = kept /\ stored' = block.from
      /\ UNCHANGED <<input, base, engine, pos, start, table, block, kept, skip>>
  BY DEF RunOut, fixed
<1>2. PICK from \in Nat : from = block.from /\ from <= Len(output)
  BY <1>1 DEF ScanInv, BlockInv
<1>3. /\ output \in Seq(Nat) /\ Len(output) \in Nat /\ Len(output) <= End
      /\ \A n \in 1 .. Len(output) : output[n] = input[n]
      /\ End \in Nat /\ End' = End
  BY <1>1, InputIs DEF SharedInv, OutputInv, End
<1>4. /\ output' \in Seq(Nat) /\ Len(output') = from
      /\ \A n \in 1 .. from : output'[n] = input[n]
  <2>1. /\ SubSeq(output, 0 + 1, from) \in Seq(Nat)
        /\ Len(SubSeq(output, 0 + 1, from)) = from - 0
        /\ \A n \in 1 .. from - 0 : SubSeq(output, 0 + 1, from)[n] = output[0 + n]
    BY <1>2, <1>3, Slice
  <2>2. \A n \in 1 .. from : n \in 1 .. Len(output) /\ 0 + n = n
    BY <1>2, <1>3
  <2> QED
    BY <1>1, <1>2, <1>3, <2>1, <2>2
<1>5. copying' \in Copies
  BY <1>1 DEF NoCopy, Copies
<1>6. OutputInv'
  BY <1>1, <1>2, <1>3, <1>4, <1>5 DEF OutputInv
<1>7. SharedInv'
  BY <1>1, <1>3, <1>6 DEF SharedInv
<1>8. BlockInv'
  BY <1>1, <1>2, <1>3, <1>4 DEF ScanInv, BlockInv, Pending, NoPosition
<1>9. TableInv'
  BY <1>1 DEF ScanInv, TableInv, EntriesBelow
<1>10. ScanInv'
  BY <1>1, <1>8, <1>9 DEF ScanInv
<1> QED
  BY <1>7, <1>10

(***************************************************************************)
(* Steps of the scanners: in a block.                                      *)
(***************************************************************************)
\* A scanner that looks at a position has the bytes it hashes there.
LEMMA Looks ==
  ASSUME SharedInv, engine \in Scanners, ScanInv, NEW p \in Nat,
         p <= Limit, table' = StoredOne(p)
  PROVE  /\ table' \in [0 .. TableSize - 1 -> Seq(Nat)]
         /\ Key(p) \in 0 .. TableSize - 1
         /\ \A b \in Nat : EntriesBelow(b) /\ p < b => EntriesBelow(b)'
         /\ block.to \in Nat /\ p + 8 <= block.to /\ block.to <= End
<1>1. PICK m \in 4 .. 6, margin \in 8 .. 16 : m = engine.min /\ margin = engine.margin
  BY ScannerIs
<1>2. PICK to \in Nat, end \in Nat :
        to = block.to /\ end = End /\ to <= end /\ p <= to - margin
  BY <1>1, InputIs DEF SharedInv, ScanInv, BlockInv, Limit
<1>3. p + m <= end /\ p + 8 <= to
  BY ONLY <1>2, p \in Nat, m \in 4 .. 6, margin \in 8 .. 16, to \in Nat, end \in Nat
<1> QED
  BY <1>1, <1>2, <1>3, StoresOne DEF SharedInv

\* What the table holds, once a position before `b` is stored and the scanner
\* goes on from `b` at least.
LEMMA TableLooks ==
  ASSUME SharedInv, engine \in Scanners, ScanInv, phase \in {"scan", "tail"},
         NEW p \in Nat, p <= Limit, table' = StoredOne(p), UNCHANGED <<engine, block>>,
         pos' \in Nat, p <= pos', pos <= pos',
         \/ phase' = "copy"
         \/ phase' \in {"scan", "tail"} /\ p < pos'
  PROVE  TableInv'
<1>1. /\ \A b \in Nat : EntriesBelow(b) /\ p < b => EntriesBelow(b)'
      /\ block.to \in Nat /\ p + 8 <= block.to
  BY Looks
<1>2. EntriesBelow(pos) /\ pos \in Nat
  BY DEF ScanInv, TableInv, SharedInv
<1>3. \A b \in Nat : pos <= b => EntriesBelow(b)
  <2>1. ASSUME NEW b \in Nat, pos <= b, NEW k \in 0 .. TableSize - 1, table[k] # <<>>
        PROVE  table[k][1] < b
    <3>1. PICK s \in Seq(Nat) : s = table[k] /\ s # <<>>
      BY <2>1 DEF SharedInv
    <3>2. s[1] \in Nat
      BY <3>1
    <3>3. table[k][1] < pos
      BY <1>2, <2>1 DEF EntriesBelow
    <3> QED
      BY <1>2, <2>1, <3>1, <3>2, <3>3
  <2> QED
    BY <2>1 DEF EntriesBelow
<1>4. engine.stride = 0 => EntriesBelow(Larger(block.to, 1))'
  <2>1. PICK b \in Nat : b = Larger(block.to, 1) /\ p < b
    BY <1>1 DEF Larger
  <2>2. engine.stride = 0 => EntriesBelow(b)
    BY <2>1 DEF ScanInv, TableInv
  <2>3. engine.stride = 0 => EntriesBelow(b)'
    BY <1>1, <2>1, <2>2
  <2> QED
    BY <2>1, <2>3 DEF EntriesBelow
<1>5. PICK q \in Nat : q = pos'
  OBVIOUS
<1>6. CASE phase' = "copy"
  <2>1. EntriesBelow(q + 1)'
    BY <1>1, <1>2, <1>3, <1>5
  <2> QED
    BY <1>1, <1>4, <1>5, <1>6, <2>1 DEF TableInv, EntriesBelow
<1>7. CASE phase' \in {"scan", "tail"} /\ p < pos'
  <2>1. EntriesBelow(q)'
    BY <1>1, <1>2, <1>3, <1>5, <1>7
  <2> QED
    BY <1>1, <1>4, <1>5, <1>7, <2>1 DEF TableInv, EntriesBelow
<1> QED
  BY <1>6, <1>7

\* A scanner that looks has the bytes to look at, and will step on.
LEMMA ScanningIs ==
  ASSUME SharedInv, engine \in Scanners, ScanInv, Scanning
  PROVE  /\ phase = "scan" /\ pos \in Nat /\ Step \in Nat /\ pos <= Limit
         /\ (engine.stride = 0 => Step > 0)
         /\ pos + Step <= Limit
         /\ block.from <= start /\ start <= block.to /\ start <= pos
         /\ Len(output) = start /\ EntriesBelow(pos)
<1>1. /\ phase = "scan" /\ pos + Step <= Limit /\ pos \in Nat
      /\ skip \in Nat /\ skip >= Patience
  BY DEF Scanning, SharedInv, ScanInv
<1>2. Step \in Nat /\ (engine.stride = 0 => Step > 0)
  <2>1. PICK patience \in Nat \ {0}, misses \in Nat :
          patience = Patience /\ misses = skip /\ misses >= patience
    BY <1>1, ScannerIs
  <2>2. misses \div patience \in Nat /\ misses \div patience >= 1
    BY <2>1, Quotient
  <2> QED
    BY <2>1, <2>2 DEF Step
<1>3. Limit \in Int
  <2>1. PICK margin \in 8 .. 16 : margin = engine.margin
    BY ScannerIs
  <2> QED
    BY <2>1 DEF Limit, ScanInv, BlockInv
<1> QED
  BY <1>1, <1>2, <1>3 DEF ScanInv, BlockInv, TableInv

\* A match at the last distance, or at the entry.
LEMMA ScanHitKeeps ==
  ASSUME SharedInv, engine \in Scanners, ScanInv,
         ScanLast \/ ScanEntry \/ Chain
  PROVE  SharedInv' /\ ScanInv'
<1>1. /\ phase' = "copy" /\ table' = StoredOne(pos)
      /\ UNCHANGED <<input, base, engine, pos, start, output, copying>>
      /\ UNCHANGED <<block, stored, kept, last, skip>>
  BY DEF ScanLast, ScanEntry, Chain, fixed, decoder, blocks
<1>2. /\ phase \in {"scan", "tail"} /\ pos \in Nat /\ pos <= Limit
      /\ block.from <= start /\ start <= block.to /\ start <= pos
      /\ Len(output) = start /\ EntriesBelow(pos)
  <2>1. CASE ScanLast \/ ScanEntry
    BY <2>1, ScanningIs DEF ScanLast, ScanEntry
  <2>2. CASE Chain
    BY <2>2 DEF Chain, SharedInv, ScanInv, BlockInv, TableInv
  <2> QED
    BY <2>1, <2>2
<1>3. /\ table' \in [0 .. TableSize - 1 -> Seq(Nat)]
      /\ Key(pos) \in 0 .. TableSize - 1
      /\ block.to \in Nat /\ block.to <= End
  BY <1>1, <1>2, Looks
<1>4. /\ candidate' \in Nat /\ candidate' < pos /\ pos - candidate' <= Window
      /\ Agrees(candidate')
  <2>1. CASE ScanLast
    <3>1. /\ last # NoPosition /\ pos >= last /\ Agrees(pos - last)
          /\ candidate' = pos - last
      BY <2>1 DEF ScanLast, RingMatches
    <3>2. last \in 1 .. Window /\ Window \in Nat
      BY <3>1, TokensAssumption DEF ScanInv, MaybeDistance
    <3> QED
      BY <1>2, <3>1, <3>2
  <2>2. CASE ScanEntry \/ Chain
    <3>1. EntryMatches /\ candidate' = Position(table[Key(pos)][1])
      BY <2>2 DEF ScanEntry, Chain
    <3>2. PICK to \in Nat : to = block.to
      BY <1>3
    <3>3. /\ pos <= to - engine.margin /\ to <= Len(input) /\ Len(input) <= engine.longest
      BY <1>2, <1>3, <3>2 DEF Limit, End, ScanInv
    <3> QED
      BY <1>2, <1>3, <3>1, <3>3, EntryIsEarlier DEF SharedInv
  <2> QED
    BY <2>1, <2>2
<1>5. SharedInv'
  BY <1>1, <1>2, <1>3, SharedStays DEF SharedInv
<1>6. BlockInv'
  BY <1>1, <1>2 DEF ScanInv, BlockInv, End
<1>7. TableInv'
  BY <1>1, <1>2, TableLooks
<1>8. pos' <= Limit' /\ Agrees(candidate)'
  BY <1>1, <1>2, <1>4 DEF Limit, Agrees, SameFor, Byte
<1>9. ScanInv'
  BY <1>1, <1>4, <1>6, <1>7, <1>8 DEF ScanInv
<1> QED
  BY <1>5, <1>9

LEMMA ScanOnKeeps ==
  ASSUME SharedInv, engine \in Scanners, ScanInv, ScanOn
  PROVE  SharedInv' /\ ScanInv'
<1>1. /\ phase = "scan" /\ phase' = "scan" /\ table' = StoredOne(pos)
      /\ pos' = pos + (IF engine.stride > 0 THEN engine.stride ELSE Step)
      /\ skip' = skip + 1
      /\ UNCHANGED <<input, base, engine, start, output, copying>>
      /\ UNCHANGED <<block, stored, kept, last>>
  BY DEF ScanOn, Scanning, fixed, decoder, blocks
<1>2. /\ pos \in Nat /\ pos <= Limit /\ start <= pos /\ Step \in Nat
      /\ (engine.stride = 0 => Step > 0)
      /\ pos + Step <= Limit
      /\ block.from <= start /\ start <= block.to
      /\ Len(output) = start
  BY ScanningIs DEF ScanOn
<1>3. /\ table' \in [0 .. TableSize - 1 -> Seq(Nat)]
      /\ block.to \in Nat /\ block.to <= End
  BY <1>1, <1>2, Looks
<1>4. pos' \in Nat /\ pos < pos' /\ start \in Nat
  <2>1. PICK stride \in Nat, step \in Nat :
          /\ stride = engine.stride /\ step = Step /\ (stride = 0 => step > 0)
          /\ pos' = pos + (IF stride > 0 THEN stride ELSE step)
    BY <1>1, <1>2, ScannerIs
  <2> QED
    BY <1>2, <2>1 DEF SharedInv
<1>5. engine.stride = 0 => pos' + 8 <= block.to
  <2>1. PICK margin \in 8 .. 16 : margin = engine.margin
    BY ScannerIs
  <2>2. engine.stride = 0 => pos' <= block.to - margin
    BY <1>1, <1>2, <2>1 DEF Limit
  <2> QED
    BY <1>3, <1>4, <2>2
<1>6. SharedInv'
  BY <1>1, <1>3, <1>4, SharedStays
<1>7. TableInv'
  BY <1>1, <1>2, <1>4, TableLooks
<1>8. BlockInv'
  BY <1>1, <1>2, <1>4 DEF ScanInv, BlockInv, End
<1>9. skip' \in Nat /\ skip' >= Patience
  BY <1>1, ScannerIs DEF ScanInv
<1>10. ScanInv'
  BY <1>1, <1>5, <1>7, <1>8, <1>9 DEF ScanInv
<1> QED
  BY <1>6, <1>10

LEMMA EndScanKeeps ==
  ASSUME SharedInv, engine \in Scanners, ScanInv, EndScan
  PROVE  SharedInv' /\ ScanInv'
<1>1. /\ phase = "scan" /\ phase' = "rest"
      /\ UNCHANGED <<input, base, engine, pos, start, table, output, copying>>
      /\ UNCHANGED <<block, stored, kept, last, skip>>
  BY DEF EndScan, fixed, decoder, blocks
<1>2. SharedInv'
  BY <1>1, SharedStays DEF SharedInv
<1>3. BlockInv'
  BY <1>1 DEF ScanInv, BlockInv, End
<1>4. TableInv'
  BY <1>1 DEF ScanInv, TableInv, EntriesBelow
<1>5. ScanInv'
  BY <1>1, <1>3, <1>4 DEF ScanInv
<1> QED
  BY <1>2, <1>5

LEMMA WriteCopyKeeps ==
  ASSUME SharedInv, engine \in Scanners, ScanInv, WriteCopy
  PROVE  SharedInv' /\ ScanInv'
<1>1. /\ phase = "copy" /\ phase' = "read"
      /\ TakeToken(pos, pos - candidate, CopyLen, CopyLen)
      /\ pos' = pos + CopyLen /\ start' = pos + CopyLen /\ last' = pos - candidate
      /\ UNCHANGED <<input, base, engine, table, block, stored, kept, skip>>
  BY DEF WriteCopy, fixed, blocks
<1>2. /\ input \in Inputs /\ base \in Bases /\ OutputInv /\ pos \in Nat
      /\ candidate \in Nat /\ candidate < pos /\ pos - candidate <= Window
      /\ Agrees(candidate) /\ pos <= Limit
      /\ block.from \in Nat /\ block.to \in Nat /\ block.to <= End
      /\ block.from <= start /\ start <= pos /\ Len(output) = start
      /\ start \in Nat
  BY <1>1 DEF SharedInv, ScanInv, BlockInv
<1>3. PICK len \in Nat :
        /\ len = CopyLen /\ GoodToken(pos, pos - candidate, len, len)
        /\ engine.min <= len /\ pos + len <= block.to
  BY <1>2, CopyIsGood
<1>4. OutputInv' /\ CopyTrue' /\ start' \in Nat /\ start' <= End'
  BY <1>1, <1>2, <1>3, TakesToken
<1>5. SharedInv'
  BY <1>1, <1>2, <1>3, <1>4 DEF SharedInv
<1>6. PICK m \in 4 .. 6 : m = engine.min
  BY ScannerIs
<1>7. /\ block.from <= start' /\ start' <= block.to
      /\ block.from + m <= pos' /\ pos < pos'
  <2>1. PICK p \in Nat, from \in Nat, to \in Nat, s \in Nat :
          /\ p = pos /\ from = block.from /\ to = block.to /\ s = start
          /\ from <= s /\ s <= p /\ p + len <= to
    BY <1>2, <1>3
  <2>2. m <= len
    BY <1>3, <1>6
  <2>3. from <= p + len /\ p + len <= to /\ from + m <= p + len /\ p < p + len
    BY ONLY <2>1, <2>2, p \in Nat, from \in Nat, to \in Nat, s \in Nat, len \in Nat,
            m \in 4 .. 6
  <2> QED
    BY <1>1, <1>3, <2>1, <2>3
<1>8. BlockInv'
  BY <1>1, <1>7 DEF ScanInv, BlockInv, End
<1>9. TableInv'
  <2>1. ASSUME NEW k \in 0 .. TableSize - 1, table[k] # <<>>
        PROVE  table[k][1] < pos'
    <3>1. PICK s \in Seq(Nat) : s = table[k] /\ s # <<>>
      BY <2>1 DEF SharedInv
    <3>2. s[1] \in Nat
      BY <3>1
    <3>3. table[k][1] < pos + 1
      BY <1>1, <2>1 DEF ScanInv, TableInv, EntriesBelow
    <3>4. pos' \in Nat
      BY <1>1, <1>2, <1>3
    <3> QED
      BY <1>2, <1>7, <3>1, <3>2, <3>3, <3>4
  <2> QED
    BY <1>1, <2>1 DEF ScanInv, TableInv, EntriesBelow
<1>10. last' \in MaybeDistance
  BY <1>1, <1>2, TokensAssumption DEF MaybeDistance
<1>11. ScanInv'
  BY <1>1, <1>6, <1>7, <1>8, <1>9, <1>10 DEF ScanInv
<1> QED
  BY <1>5, <1>11

LEMMA ReadCopyKeeps ==
  ASSUME SharedInv, engine \in Scanners, ScanInv, ReadCopy
  PROVE  SharedInv' /\ ScanInv'
<1>1. /\ phase = "read" /\ phase' = "read" /\ CopyByte /\ CopyTrue
      /\ OutputInv /\ input \in Seq(Nat) /\ start \in Nat /\ start <= End
      /\ UNCHANGED <<input, base, engine, pos, start, table, block, stored, kept, last,
                     skip>>
  BY InputIs DEF ReadCopy, CopyByte, SharedInv, fixed, blocks
<1>2. OutputInv' /\ CopyTrue'
  BY <1>1, CopiesOn
<1>3. SharedInv'
  BY <1>1, <1>2 DEF SharedInv, End
<1>4. BlockInv'
  BY <1>1 DEF ScanInv, BlockInv, End
<1>5. TableInv'
  BY <1>1 DEF ScanInv, TableInv, EntriesBelow
<1>6. ScanInv'
  BY <1>1, <1>4, <1>5 DEF ScanInv
<1> QED
  BY <1>3, <1>6

LEMMA EndCopyKeeps ==
  ASSUME SharedInv, engine \in Scanners, ScanInv, EndCopy
  PROVE  SharedInv' /\ ScanInv'
<1>1. /\ phase = "read" /\ copying.left = 0
      /\ phase' = IF engine.stride > 0 THEN "scan"
                  ELSE IF AtEnd THEN "rest" ELSE "tail"
      /\ pos' = IF engine.stride > 0
                THEN ((pos + engine.stride - 1) \div engine.stride) * engine.stride
                ELSE pos
      /\ tail' = pos - engine.tail
      /\ UNCHANGED <<input, base, engine, start, table, output, copying>>
      /\ UNCHANGED <<block, stored, kept, last, skip>>
  BY DEF EndCopy, fixed, decoder, blocks
<1>2. /\ CopyTrue /\ OutputInv /\ pos \in Nat /\ pos = start
      /\ block.from + engine.min <= pos
      /\ block.from \in Nat /\ block.to \in Nat
      /\ block.from <= start /\ start <= block.to
  BY <1>1 DEF SharedInv, ScanInv, BlockInv
<1>3. Len(output) = start
  BY <1>1, <1>2 DEF CopyTrue, OutputInv
<1>4. pos' \in Nat /\ pos <= pos' /\ (engine.stride = 0 => pos' = pos)
  <2>1. PICK stride \in Nat : stride = engine.stride
    BY ScannerIs
  <2>2. CASE stride > 0
    <3>1. stride \in Nat \ {0}
      BY <2>2
    <3>2. PICK q : q = ((pos + stride - 1) \div stride) * stride
      OBVIOUS
    <3>3. q \in Nat /\ q >= pos
      BY <1>2, <3>1, <3>2, RoundsUp
    <3> QED
      BY <1>1, <1>2, <2>1, <2>2, <3>2, <3>3
  <2>3. CASE stride = 0
    BY <1>1, <1>2, <2>1, <2>3
  <2> QED
    BY <2>2, <2>3
<1>5. SharedInv'
  BY <1>1, <1>4, SharedStays DEF SharedInv
<1>6. engine.stride \in Nat
  BY ScannerIs
<1>7. BlockInv'
  BY <1>1, <1>2, <1>3, <1>4, <1>6 DEF ScanInv, BlockInv, End
<1>8. TableInv'
  <2>1. ASSUME NEW k \in 0 .. TableSize - 1, table[k] # <<>>
        PROVE  table[k][1] < pos'
    <3>1. PICK s \in Seq(Nat) : s = table[k] /\ s # <<>>
      BY <2>1 DEF SharedInv
    <3>2. s[1] \in Nat
      BY <3>1
    <3>3. table[k][1] < pos
      BY <1>1, <2>1 DEF ScanInv, TableInv, EntriesBelow
    <3> QED
      BY <1>2, <1>4, <3>1, <3>2, <3>3
  <2> QED
    BY <1>1, <2>1 DEF ScanInv, TableInv, EntriesBelow
<1>9. phase' = "tail" => /\ pos' <= Limit' /\ ~AtEnd'
                         /\ tail' \in Nat /\ block.from <= tail' /\ tail' <= pos'
  <2>1. PICK m \in 4 .. 6, margin \in 8 .. 16 : m = engine.min /\ margin = engine.margin
    BY ScannerIs
  <2>2. PICK t \in 0 .. m : t = engine.tail
    BY <2>1, ScannerIs
  <2>3. block.from + m <= pos /\ tail' = pos - t
    BY <1>1, <1>2, <2>1, <2>2
  <2>4. tail' \in Nat /\ block.from <= tail' /\ tail' <= pos
    BY ONLY <1>2, <2>3, m \in 4 .. 6, t \in 0 .. m
  <2>5. phase' = "tail" => ~AtEnd /\ pos' = pos /\ Limit' = Limit
    BY <1>1 DEF Limit
  <2>6. ~AtEnd => pos <= Limit
    BY <1>2, <2>1 DEF AtEnd, Limit
  <2>7. phase' = "tail" => ~AtEnd'
    BY <1>1, <2>5 DEF AtEnd
  <2> QED
    BY <1>1, <2>4, <2>5, <2>6, <2>7
<1>10. ScanInv'
  BY <1>1, <1>6, <1>7, <1>8, <1>9 DEF ScanInv
<1> QED
  BY <1>5, <1>10

LEMMA StoreTailKeeps ==
  ASSUME SharedInv, engine \in Scanners, ScanInv, StoreTail
  PROVE  SharedInv' /\ ScanInv'
<1>1. /\ phase = "tail" /\ phase' = "tail" /\ tail < pos /\ table' = StoredOne(tail)
      /\ tail' = tail + 1
      /\ UNCHANGED <<input, base, engine, pos, start, output, copying>>
      /\ UNCHANGED <<block, stored, kept, last, skip>>
  BY DEF StoreTail, fixed, decoder, blocks
<1>2. /\ pos \in Nat /\ tail \in Nat /\ pos <= Limit /\ block.from <= tail
      /\ block.from \in Nat /\ ~AtEnd
  BY <1>1 DEF SharedInv, ScanInv, BlockInv
<1>3. tail <= Limit
  <2>1. PICK margin \in 8 .. 16 : margin = engine.margin
    BY ScannerIs
  <2>2. block.to \in Nat
    BY DEF ScanInv, BlockInv
  <2> QED
    BY <1>1, <1>2, <2>1, <2>2 DEF Limit
<1>4. table' \in [0 .. TableSize - 1 -> Seq(Nat)]
  BY <1>1, <1>2, <1>3, Looks
<1>5. SharedInv'
  BY <1>1, <1>2, <1>4, SharedStays
<1>6. BlockInv'
  BY <1>1 DEF ScanInv, BlockInv, End
<1>7. TableInv'
  BY <1>1, <1>2, <1>3, TableLooks
<1>8. /\ tail' \in Nat /\ block.from <= tail' /\ tail' <= pos
      /\ Limit' = Limit /\ ~AtEnd'
  BY <1>1, <1>2 DEF Limit, AtEnd
<1>9. ScanInv'
  BY <1>1, <1>2, <1>6, <1>7, <1>8 DEF ScanInv
<1> QED
  BY <1>5, <1>9

LEMMA ResumeKeeps ==
  ASSUME SharedInv, engine \in Scanners, ScanInv, Resume
  PROVE  SharedInv' /\ ScanInv'
<1>1. /\ phase = "tail" /\ phase' = "scan" /\ table' = StoredOne(pos)
      /\ pos' = pos + 1 /\ skip' = Patience
      /\ UNCHANGED <<input, base, engine, start, output, copying>>
      /\ UNCHANGED <<block, stored, kept, last>>
  BY DEF Resume, fixed, decoder, blocks
<1>2. /\ pos \in Nat /\ pos <= Limit /\ ~AtEnd /\ start \in Nat
      /\ block.from <= start /\ start <= block.to /\ start <= pos
      /\ block.to \in Nat /\ Len(output) = start /\ ~(engine.stride > 0)
  BY <1>1 DEF SharedInv, ScanInv, BlockInv
<1>3. table' \in [0 .. TableSize - 1 -> Seq(Nat)]
  BY <1>1, <1>2, Looks
<1>4. pos' \in Nat /\ pos < pos' /\ start <= pos'
  BY <1>1, <1>2
<1>5. SharedInv'
  BY <1>1, <1>3, <1>4, SharedStays
<1>6. BlockInv'
  BY <1>1, <1>2, <1>4 DEF ScanInv, BlockInv, End
<1>7. TableInv'
  BY <1>1, <1>2, <1>4, TableLooks
<1>8. pos' + 8 <= block.to
  <2>1. PICK margin \in 8 .. 16 : margin = engine.margin
    BY ScannerIs
  <2>2. engine.past => margin > 8
    BY <1>2, <2>1, ScannerIs
  <2>3. IF engine.past THEN pos <= block.to - margin ELSE pos < block.to - margin
    BY <1>2, <2>1 DEF AtEnd, Limit
  <2> QED
    BY <1>1, <1>2, <2>2, <2>3
<1>9. Patience \in Nat /\ Patience >= Patience
  BY ScannerIs
<1>10. ScanInv'
  BY <1>1, <1>6, <1>7, <1>8, <1>9 DEF ScanInv
<1> QED
  BY <1>5, <1>10

LEMMA WriteRestKeeps ==
  ASSUME SharedInv, engine \in Scanners, ScanInv, WriteRest
  PROVE  SharedInv' /\ ScanInv'
<1>1. /\ phase = "rest" /\ phase' = "block" /\ TakeLiterals(start, block.to)
      /\ start' = block.to
      /\ UNCHANGED <<input, base, engine, pos, table, block, stored, kept, last, skip>>
  BY DEF WriteRest, fixed, blocks
<1>2. /\ block.to \in Nat /\ start \in Nat /\ start <= block.to /\ block.to <= End
      /\ Len(output) = start /\ OutputInv /\ input \in Seq(Nat) /\ End' = End
  BY <1>1, InputIs DEF SharedInv, ScanInv, BlockInv, End
<1>3. OutputInv' /\ Len(output') = block.to
  BY <1>1, <1>2, TakesLiterals
<1>4. SharedInv'
  BY <1>1, <1>2, <1>3 DEF SharedInv
<1>5. stored = NoPosition
  BY <1>1 DEF ScanInv, BlockInv
<1>6. BlockInv'
  BY <1>1, <1>2, <1>3, <1>5 DEF ScanInv, BlockInv, Pending
<1>7. TableInv'
  BY <1>1 DEF ScanInv, TableInv, EntriesBelow
<1>8. ScanInv'
  BY <1>1, <1>6, <1>7 DEF ScanInv
<1> QED
  BY <1>4, <1>8

\* Every step of a scanner keeps the invariant.
LEMMA ScannersKeep ==
  ASSUME SharedInv, engine \in Scanners, ScanInv, ScannersNext
  PROVE  SharedInv' /\ ScanInv' /\ engine' = engine
<1>1. engine' = engine
  BY DEF ScannersNext, StoreBlock, LiteralBlock, MatchBlock, Finish, RunOut, ScanLast,
         ScanEntry, ScanOn, EndScan, WriteCopy, ReadCopy, EndCopy, StoreTail, Chain,
         Resume, WriteRest, fixed
<1> QED
  BY <1>1, StoreBlockKeeps, LiteralBlockKeeps, MatchBlockKeeps, FinishKeeps,
     RunOutKeeps, ScanHitKeeps, ScanOnKeeps, EndScanKeeps, WriteCopyKeeps,
     ReadCopyKeeps, EndCopyKeeps, StoreTailKeeps, ResumeKeeps, WriteRestKeeps
  DEF ScannersNext

(***************************************************************************)
(* The invariant, and what it shows.                                       *)
(***************************************************************************)
LEMMA InitKeeps ==
  ASSUME Init
  PROVE  IInv
<1>1. /\ input \in Inputs /\ base \in Bases /\ pos = 0 /\ start = 0
      /\ output = <<>> /\ copying = NoCopy /\ phase \in {"search", "block"}
  BY DEF Init, SearchersInit, ScannersInit
<1>2. End \in Nat /\ Len(input) \in Nat
  BY <1>1, InputIs DEF End
<1>3. table \in [0 .. TableSize - 1 -> Seq(Nat)]
  <2>1. <<>> \in Seq(Nat) /\ <<0>> \in Seq(Nat)
    OBVIOUS
  <2> QED
    BY <2>1 DEF Init, SearchersInit, ScannersInit
<1>4. OutputInv
  BY <1>1, <1>2 DEF OutputInv, NoCopy, Copies
<1>5. SharedInv
  BY <1>1, <1>2, <1>3, <1>4 DEF SharedInv
<1>6. CASE engine \in Engines /\ SearchersInit
  <2>1. cache \in [1 .. 4 -> 1 .. Window]
    <3>1. Window \in Nat /\ Window >= 16
      BY TokensAssumption
    <3>2. INITIAL_RING \in [1 .. 4 -> 1 .. Window]
      BY <3>1 DEF INITIAL_RING
    <3> QED
      BY <1>6, <3>2, SearchersAssumption DEF SearchersInit
  <2>2. SearchInv
    BY <1>1, <1>6, <2>1 DEF SearchInv, SearchersInit
  <2>3. engine \notin Scanners
    BY <1>6, CollectorsAssumption
  <2> QED
    BY <1>5, <1>6, <2>2, <2>3 DEF IInv
<1>7. CASE engine \in Scanners /\ ScannersInit
  <2>1. /\ phase = "block" /\ block = [from |-> 0, to |-> 0] /\ stored = NoPosition
        /\ last \in engine.first /\ kept = last /\ skip = Patience
        /\ Len(input) <= engine.longest
        /\ table = [key \in 0 .. TableSize - 1 |->
                     IF engine.stride > 0 THEN <<>> ELSE <<0>>]
    BY <1>7 DEF ScannersInit, NoBlock
  <2>2. BlockInv
    BY <1>1, <1>2, <2>1 DEF BlockInv, Pending, NoPosition
  <2>3. TableInv
    <3>1. engine.stride = 0 => \A k \in 0 .. TableSize - 1 : table[k][1] = 0
      BY <2>1
    <3>2. engine.stride > 0 => \A k \in 0 .. TableSize - 1 : table[k] = <<>>
      BY <2>1
    <3>3. Larger(block.to, 1) = 1
      BY <2>1 DEF Larger
    <3> QED
      BY <2>1, <3>1, <3>2, <3>3 DEF TableInv, EntriesBelow
  <2>4. ScanInv
    <3>1. Patience \in Nat /\ Patience >= Patience /\ engine.first \subseteq MaybeDistance
      BY <1>7, ScannerIs
    <3>2. last \in MaybeDistance
      BY <2>1, <3>1
    <3> QED
      BY <2>1, <2>2, <2>3, <3>1, <3>2 DEF ScanInv
  <2>5. engine \notin Engines
    BY <1>7, CollectorsAssumption
  <2> QED
    BY <1>5, <1>7, <2>4, <2>5 DEF IInv
<1> QED
  BY <1>6, <1>7 DEF Init

LEMMA Stutters ==
  ASSUME IInv, UNCHANGED vars
  PROVE  IInv'
<1>1. UNCHANGED <<input, base, engine, phase, pos, start, table, output, copying>>
  BY DEF vars, shared, fixed, decoder
<1>2. UNCHANGED <<cache, sparseAt, found, delayed, at, candidates, check, best, run>>
  BY DEF vars, searching, matching
<1>3. UNCHANGED <<block, stored, last, kept, skip, candidate, tail>>
  BY DEF vars, scanning
<1>4. SharedInv'
  BY <1>1 DEF IInv, SharedInv, OutputInv, CopyTrue, CopyIs, Byte, End
<1>5. engine \in Engines => SearchInv'
  BY <1>1, <1>2 DEF IInv, SearchInv, ProbeInv, GoodCandidate, GoodMatch, GoodToken,
     RepeatsInput, SpellsInput, WordOf, Reach, SameFor, Byte, End, MaxLen, Runs, StoreEnd
<1>6. engine \in Scanners => ScanInv'
  BY <1>1, <1>3 DEF IInv, ScanInv, BlockInv, TableInv, EntriesBelow, Limit, Agrees,
     SameFor, Byte, End, AtEnd, Pending
<1> QED
  BY <1>1, <1>4, <1>5, <1>6 DEF IInv

LEMMA NextKeeps ==
  ASSUME IInv, [Next]_vars
  PROVE  IInv'
<1>1. CASE engine \in Engines /\ SearchersNext
  <2>1. SharedInv' /\ SearchInv' /\ engine' = engine
    BY <1>1, SearchersKeep DEF IInv
  <2>2. engine \notin Scanners
    BY <1>1, CollectorsAssumption
  <2> QED
    BY <1>1, <2>1, <2>2 DEF IInv
<1>2. CASE engine \in Scanners /\ ScannersNext
  <2>1. SharedInv' /\ ScanInv' /\ engine' = engine
    BY <1>2, ScannersKeep DEF IInv
  <2>2. engine \notin Engines
    BY <1>2, CollectorsAssumption
  <2> QED
    BY <1>2, <2>1, <2>2 DEF IInv
<1>3. CASE UNCHANGED vars
  BY <1>3, Stutters
<1> QED
  BY <1>1, <1>2, <1>3 DEF Next

\* IInv holds of every reachable state.
THEOREM Invariance == Spec => []IInv
<1>1. Init => IInv
  BY InitKeeps
<1>2. IInv /\ [Next]_vars => IInv'
  BY NextKeeps
<1> QED
  BY <1>1, <1>2, PTL DEF Spec

\* What the decoder writes is the input, byte by byte, and all of it in the
\* end, for every hash, dictionary and table, however the matcher skips,
\* puts off, undoes or stores (q2.rs to q5.rs, one_pass.rs, two_pass.rs,
\* q1.rs and sparse.rs).
THEOREM Reproduces == Spec => []TokensReproduce
<1>1. IInv => TokensReproduce
  <2>1. ASSUME IInv PROVE TokensReproduce
    <3>1. OutputInv /\ (phase = "done" => Len(output) = End)
      BY <2>1 DEF IInv, SharedInv
    <3>2. copying.left >= 0
      BY <3>1 DEF OutputInv, Copies
    <3> QED
      BY <3>1, <3>2 DEF OutputInv, TokensReproduce
  <2> QED
    BY <2>1
<1> QED
  BY <1>1, Invariance, PTL

\* Every load of a hash and of the bytes compared first lies in the input,
\* though the loops are checked against bounds of other loads.
THEOREM LoadsAreInBounds == Spec => []LoadsInBounds
<1>1. IInv => LoadsInBounds
  <2>1. ASSUME IInv PROVE LoadsInBounds
    <3>1. input \in Inputs /\ start \in Nat
      BY <2>1 DEF IInv, SharedInv
    <3>2. CASE engine \in Engines /\ SearchInv
      <4>1. phase = "probe" => at + engine.read <= End /\ check < End - at
        BY <3>1, <3>2, WhereItSearches DEF SearchInv, ProbeInv, MaxLen
      <4>2. phase \in {"skip", "store"} /\ run.next < run.end =>
              run.next + engine.read <= End
        <5>1. ASSUME phase \in {"skip", "store"}, run.next < run.end
              PROVE  run.next + engine.read <= End
          <6>1. StoreEnd \in Nat /\ run.next \in Nat /\ run.end \in 0 .. StoreEnd
            BY <3>1, <3>2, <5>1, StoreEndIs DEF SearchInv, Runs
          <6>2. run.next < StoreEnd
            BY <5>1, <6>1
          <6> QED
            BY <3>1, <3>2, <6>1, <6>2, StoreEndIs
        <5> QED
          BY <5>1
      <4>3. phase \notin {"scan", "tail"}
        BY <3>2 DEF SearchInv
      <4> QED
        BY <4>1, <4>2, <4>3 DEF LoadsInBounds
    <3>3. CASE engine \in Scanners /\ ScanInv
      <4>1. phase \notin {"probe", "skip", "store"}
        BY <3>3 DEF ScanInv
      <4>2. phase = "scan" /\ engine.stride = 0 => pos + 8 <= block.to
        BY <3>3 DEF ScanInv
      <4>3. phase = "tail" => tail >= block.from /\ pos + 5 <= block.to
        <5>1. PICK margin \in 8 .. 16 : margin = engine.margin
          BY <3>3, ScannerIs
        <5>2. pos \in Nat /\ block.to \in Nat /\ block.from \in Nat
          BY <2>1, <3>3 DEF IInv, SharedInv, ScanInv, BlockInv
        <5> QED
          BY <3>3, <5>1, <5>2 DEF ScanInv, Limit
      <4> QED
        BY <4>1, <4>2, <4>3 DEF LoadsInBounds
    <3> QED
      BY <2>1, <3>2, <3>3 DEF IInv
  <2> QED
    BY <2>1
<1> QED
  BY <1>1, Invariance, PTL

=============================================================================
