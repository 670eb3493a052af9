----------------------------- MODULE Searchers -----------------------------
(***************************************************************************)
(* The matchers of q2 to q5 (crates/encode/src/encode/q2.rs to q5.rs).     *)
(* At each position they try the last distances, then the positions the    *)
(* table has for the hash there, then the static dictionary, and score     *)
(* what matches.  A match waits while the next position has one that is    *)
(* better by far.  Where nothing matches for long they skip ahead, and     *)
(* only some positions of a match go into the table.                       *)
(*                                                                         *)
(* An engine has the parameters in which the four differ:                  *)
(*   ahead             bytes from a position on without which none is      *)
(*                     searched                                            *)
(*   read, hash        bytes its hash loads and takes (HASH_LEN)           *)
(*   lazy              MAX_LAZY_MATCHES                                    *)
(*   probes, lazyProbes  last distances tried first, and at the next       *)
(*                     position                                            *)
(*   order             "first" match, "best" of the slots, or "chain" of a *)
(*                     bucket                                              *)
(*   slots, depth      BUCKET_SWEEP, and positions of a bucket             *)
(*   words             "never", "miss": where nothing else matches, or     *)
(*                     "always"                                            *)
(*   items             entries of the dictionary's hash tried              *)
(*   step, longStep    positions of a match stored, one in this many       *)
(***************************************************************************)
EXTENDS Tokens

CONSTANTS
  Engines,
  StartRings,    \* dist_cache at the start, newest first
  ItemsOf(_),    \* the two entries of the dictionary's hash for four bytes
  SparseWindow,  \* SPARSE_SEARCH_WINDOW
  LongMatch,     \* LONG_MATCH_STORE_THRESHOLD
  BlockSize      \* positions of a bucket: 8 or 16

ASSUME SearchersAssumption ==
  /\ SparseWindow \in Nat /\ LongMatch \in Nat /\ BlockSize \in Nat \ {0}
  /\ StartRings \subseteq [1 .. 4 -> 1 .. Window]
  /\ \A e \in Engines :
       /\ e.read \in 4 .. 8 /\ e.hash \in 1 .. e.read /\ e.ahead \in e.read .. 9
       /\ e.lazy \in Nat /\ e.probes \in 0 .. 4 /\ e.lazyProbes \in 0 .. 4
       /\ e.order \in {"first", "best", "chain"}
       /\ e.slots \in 1 .. 2 /\ e.depth \in Nat \ {0}
       /\ e.words \in {"never", "miss", "always"} /\ e.items \in 1 .. 2
       /\ e.step \in Nat \ {0} /\ e.longStep \in Nat \ {0}
  /\ \A e \in Engines, bytes \in Inputs :
       \A p \in 0 .. Len(bytes) - e.read :
         /\ HashOf(SubSeq(bytes, p + 1, p + e.hash)) \in Nat
         /\ ItemsOf(SubSeq(bytes, p + 1, p + 4)) \in
              [1 .. 2 -> [len : Nat, index : Nat]]

VARIABLES
  cache,     \* dist_cache, newest first
  sparseAt,  \* apply_sparse_search
  found,     \* the match so far, in `found`
  delayed,
  at,        \* the position searched: pos, or the next one
  candidates, \* what find_match has left to try
  check,     \* best_check
  bestLen, bestScore, best,  \* best_len, best_score and out
  run        \* the positions a loop stores

matching == <<at, candidates, check, bestLen, bestScore, best>>
searching == <<cache, sparseAt, found, delayed, matching, run>>

MIN_MATCH_BYTES == 4
MIN_SCORE == 2020
LAZY_SCORE_DIFF == 175
INITIAL_RING == <<4, 11, 15, 16>>

NoMatch == [len |-> 0, code |-> 0, distance |-> 0, score |-> 0]
NoRun == [next |-> 0, end |-> 0, step |-> 1]

Log2(n) == CHOOSE bits \in 0 .. 24 : 2 ^ bits <= n /\ n < 2 ^ (bits + 1)
ScoreDistance(len, distance) == 1920 + 135 * len - 30 * Log2(distance)
Penalty == <<0, 39, 43, 43>>
ScoreLast(len, n) == 1920 + 135 * len + 15 - Penalty[n]

(***************************************************************************)
(* The engines, by the length of the input and how it is encoded.          *)
(***************************************************************************)
Q2Engine == [ahead |-> 9, read |-> 8, hash |-> 5, lazy |-> 4, probes |-> 1,
             lazyProbes |-> 1, order |-> "first", slots |-> 1, depth |-> 1,
             words |-> "miss", items |-> 1, step |-> 2, longStep |-> 4]
Q2Engines ==
  LET plain == [Q2Engine EXCEPT !.words = "never"]
      none == [plain EXCEPT !.lazy = 0]
      unprobed == [none EXCEPT !.probes = 0, !.lazyProbes = 0, !.longStep = 8]
  IN  {Q2Engine, plain, none, [none EXCEPT !.longStep = 8],
       unprobed, [unprobed EXCEPT !.lazy = 1]}

Q3Engines ==
  LET engine3(lazy, slots) == [Q2Engine EXCEPT !.order = "best", !.words = "never",
                                               !.lazy = lazy, !.slots = slots]
  IN  {engine3(4, 2), engine3(1, 2), engine3(1, 1), engine3(0, 1)}

Q4Engines ==
  LET engine4 == [Q2Engine EXCEPT !.order = "best", !.slots = 2]
  IN  {engine4, [engine4 EXCEPT !.hash = 7], [engine4 EXCEPT !.words = "always"]}

Q5Engines ==
  LET engine5 == [Q2Engine EXCEPT
                    !.ahead = 4, !.read = 4, !.hash = 4, !.probes = 4,
                    !.lazyProbes = 4, !.order = "chain", !.depth = BlockSize,
                    !.items = 2, !.step = 1, !.longStep = 1]
  IN  {engine5, [engine5 EXCEPT !.words = "always"],
       [engine5 EXCEPT !.ahead = 8, !.read = 8, !.hash = 5]}

(***************************************************************************)
(* The table.                                                              *)
(***************************************************************************)
Slot(p, n) == (Hash(p, engine.hash) + 8 * n) % TableSize
StoreSlot(p) == Slot(p, (p \div 8) % engine.slots)

StoreEnd == Larger(End - (engine.read - 1), 0)

Newest(positions, n) == SubSeq(positions, 1, Lesser(n, Len(positions)))
Stored(p) ==
  [table EXCEPT ![StoreSlot(p)] = Newest(<<p>> \o @, engine.depth)]

(***************************************************************************)
(* find_match: what it tries, in order.  `last` is the place of a distance *)
(* in the ring, zero for a position of the table.                          *)
(***************************************************************************)
LastCandidates(p, n) ==
  [i \in 1 .. n |-> [last |-> i, previous |-> p - cache[i]]]

TablePositions(p) ==
  IF engine.slots = 1 THEN table[Slot(p, 0)]
  ELSE table[Slot(p, 0)] \o table[Slot(p, 1)]

TableCandidates(p) ==
  [i \in 1 .. Len(TablePositions(p)) |->
    [last |-> 0, previous |-> TablePositions(p)[i]]]

FindMatch(p, bestLenIn, probes) ==
  /\ at' = p
  /\ check' = Lesser(bestLenIn, End - p - 1)
  /\ bestLen' = Lesser(bestLenIn, End - p - 1)
  /\ bestScore' = MIN_SCORE /\ best' = NoMatch
  /\ candidates' = LastCandidates(p, probes) \o TableCandidates(p)
  /\ phase' = "probe"

MaxLen == End - at
CandidateLen(c) == MatchLen(c.previous, at, MaxLen)

\* q5 takes short matches at the last distances, and checks that these are
\* within the window.
LastMatches(c) ==
  LET len == CandidateLen(c)
  IN  /\ c.previous >= 0
      /\ engine.order = "chain" => cache[c.last] <= Window
      /\ Byte(c.previous + check) = Byte(at + check)
      /\ IF engine.order = "chain" THEN len >= 3 \/ (len = 2 /\ c.last <= 2)
         ELSE len >= MIN_MATCH_BYTES
      /\ ScoreLast(len, c.last) > bestScore

\* The bucket of q5 is searched for matches of four bytes from the start.
LenToBeat == IF engine.order = "chain" THEN Larger(bestLen, 3) ELSE bestLen

\* What beats the best so far has to match where that ended.
EndMatches(c) ==
  IF engine.order = "chain"
  THEN /\ SameFor(c.previous + LenToBeat - 3, at + LenToBeat - 3, 4)
       /\ SameFor(c.previous, at, 4)
  ELSE Byte(c.previous + LenToBeat) = Byte(at + LenToBeat)

TableMatches(c) ==
  LET len == CandidateLen(c)
  IN  /\ LenToBeat < MaxLen
      /\ c.previous < at /\ at - c.previous <= Window
      /\ EndMatches(c)
      /\ len >= MIN_MATCH_BYTES
      /\ ScoreDistance(len, at - c.previous) > bestScore

TakeMatch(c, score) ==
  /\ best' = [len |-> CandidateLen(c), code |-> CandidateLen(c),
              distance |-> at - c.previous, score |-> score]
  /\ bestLen' = CandidateLen(c) /\ bestScore' = score
  /\ candidates' = IF engine.order = "first" THEN <<>> ELSE Tail(candidates)

Unchanged == UNCHANGED <<input, base, engine, phase, pos, start, table, output,
                         copying, cache, sparseAt, found, delayed, run, at, check>>

Probing == phase = "probe" /\ candidates # <<>>

TryLast ==
  LET c == Head(candidates)
  IN  /\ Probing /\ c.last > 0 /\ LastMatches(c)
      /\ TakeMatch(c, ScoreLast(CandidateLen(c), c.last))
      /\ Unchanged

TryTable ==
  LET c == Head(candidates)
  IN  /\ Probing /\ c.last = 0 /\ TableMatches(c)
      /\ TakeMatch(c, ScoreDistance(CandidateLen(c), at - c.previous))
      /\ Unchanged

\* Positions of a bucket get older: those past the window end it.
GivesUp(c) ==
  /\ c.last = 0
  /\ \/ LenToBeat >= MaxLen
     \/ /\ engine.order = "chain"
        /\ c.previous < at /\ at - c.previous > Window

PassOver ==
  LET c == Head(candidates)
  IN  /\ Probing
      /\ ~IF c.last > 0 THEN LastMatches(c) ELSE TableMatches(c)
      /\ candidates' = IF GivesUp(c) THEN <<>> ELSE Tail(candidates)
      /\ Unchanged /\ UNCHANGED <<bestLen, bestScore, best>>

TryCandidate == TryLast \/ TryTable \/ PassOver

(***************************************************************************)
(* The dictionary: of a word that starts like the input as much as is the  *)
(* same, by the transform that leaves off the rest of the word.            *)
(***************************************************************************)
CUTOFF_TRANSFORMS_COUNT == 10
CUTOFF_TRANSFORMS == <<0, 8, 19, 11, 26, 43, 32, 20, 27, 28>>

CutTransform(cut) == 4 * cut + CUTOFF_TRANSFORMS[cut + 1]

HasDistanceCode(distance) == distance # 0 /\ distance <= 2 ^ 25 - 4

WordBase_First == Reach(pos) \* mutant: the base of a match put off
WordBase == Reach(at)

WordMatch(item) ==
  LET words == Dictionary[item.len]
      len == WordLen(words[item.index + 1], at)
      distance == WordBase + item.index
                    + CutTransform(item.len - len) * Len(words) + 1
      score == ScoreDistance(len, distance)
  IN  IF /\ item.len \in DOMAIN Dictionary /\ item.len <= MaxLen
         /\ item.index < Len(words)
         /\ len > 0 /\ len + CUTOFF_TRANSFORMS_COUNT > item.len
         /\ HasDistanceCode(distance) /\ score >= bestScore
      THEN [len |-> len, code |-> item.len, distance |-> distance, score |-> score]
      ELSE NoMatch

DictionaryMatch ==
  LET items == ItemsOf(Bytes(at, at + 4))
      one == WordMatch(items[1])
      other == WordMatch(items[2])
  IN  IF engine.items = 2 /\ other # NoMatch /\ other.score >= one.score
      THEN other ELSE one

SearchesWords ==
  \/ engine.words = "always"
  \/ engine.words = "miss" /\ best = NoMatch

\* What find_match returns.
Outcome ==
  IF SearchesWords /\ DictionaryMatch # NoMatch THEN DictionaryMatch ELSE best

(***************************************************************************)
(* The loop.                                                               *)
(***************************************************************************)
CanSearch(p) == p + engine.ahead <= End

SearchersInit ==
  /\ input \in Inputs /\ base \in Bases /\ engine \in Engines
  /\ cache \in IF base = 0 THEN {INITIAL_RING} ELSE StartRings
  /\ phase = "search" /\ pos = 0 /\ start = 0
  /\ table = [key \in 0 .. TableSize - 1 |-> <<>>]
  /\ output = <<>> /\ copying = NoCopy
  /\ sparseAt = SparseWindow /\ found = NoMatch /\ delayed = 0
  /\ at = 0 /\ candidates = <<>> /\ check = 0
  /\ bestLen = 0 /\ bestScore = 0 /\ best = NoMatch
  /\ run = NoRun

Search ==
  /\ phase = "search" /\ CanSearch(pos)
  /\ FindMatch(pos, 0, engine.probes)
  /\ UNCHANGED <<fixed, pos, start, table, decoder, cache, sparseAt, found,
                 delayed, run>>

Concluded ==
  /\ phase = "probe" /\ candidates = <<>>
  /\ table' = Stored(at)
  /\ UNCHANGED <<fixed, start, decoder, cache, sparseAt, matching>>

\* skip_sparse from `p`, where nothing matched for long.
SkipRun(p) ==
  LET far == p > sparseAt + 4 * SparseWindow
  IN  [next |-> p, step |-> IF far THEN 4 ELSE 2,
       end |-> Lesser(p + IF far THEN 16 ELSE 8, StoreEnd)]

\* No match: on to the next position, by leaps where there was none for long.
Miss ==
  /\ Concluded /\ found = NoMatch /\ Outcome = NoMatch
  /\ pos' = pos + 1
  /\ phase' = IF pos + 1 > sparseAt THEN "skip" ELSE "search"
  /\ run' = IF pos + 1 > sparseAt THEN SkipRun(pos + 1) ELSE NoRun
  /\ UNCHANGED <<found, delayed>>

Hit ==
  /\ Concluded /\ found = NoMatch /\ Outcome # NoMatch
  /\ found' = Outcome /\ delayed' = 0 /\ phase' = "lazy"
  /\ UNCHANGED <<pos, run>>

CanDefer == delayed < engine.lazy /\ CanSearch(pos + 1)

SearchNext ==
  /\ phase = "lazy" /\ CanDefer
  /\ FindMatch(pos + 1, Lesser(Larger(found.len - 1, 0), End - (pos + 1)),
               engine.lazyProbes)
  /\ UNCHANGED <<fixed, pos, start, table, decoder, cache, sparseAt, found,
                 delayed, run>>

IsBetter == Outcome # NoMatch /\ Outcome.score >= found.score + LAZY_SCORE_DIFF

Defer ==
  /\ Concluded /\ found # NoMatch /\ IsBetter
  /\ pos' = pos + 1 /\ found' = Outcome /\ delayed' = delayed + 1
  /\ phase' = "lazy"
  /\ UNCHANGED run

Settle ==
  /\ Concluded /\ found # NoMatch /\ ~IsBetter
  /\ phase' = "emit"
  /\ UNCHANGED <<pos, found, delayed, run>>

LookFurther == SearchNext \/ Defer \/ Settle

RunEnd(p) == Lesser(p, StoreEnd)

\* store_range over a match that ends at `p`.
MatchRun(p) ==
  [next |-> pos + 2, end |-> RunEnd(p),
   step |-> IF RunEnd(p) - (pos + 2) >= LongMatch THEN engine.longStep
            ELSE engine.step]

Emit ==
  /\ \/ phase = "emit"
     \/ phase = "lazy" /\ ~CanDefer
  /\ TakeToken(pos, found.distance, found.len, found.code)
  /\ cache' = IF found.distance <= Reach(pos) /\ found.distance # cache[1]
              THEN <<found.distance>> \o SubSeq(cache, 1, 3) ELSE cache
  /\ sparseAt' = pos + 2 * found.len + SparseWindow
  /\ run' = MatchRun(pos + found.len)
  /\ start' = pos + found.len
  /\ phase' = "read"
  /\ UNCHANGED <<fixed, pos, table, found, delayed, matching>>

ReadByte ==
  /\ CopyByte
  /\ UNCHANGED <<fixed, phase, pos, start, table, cache, sparseAt, found,
                 delayed, matching, run>>

ReadAll ==
  /\ phase = "read" /\ copying.left = 0
  /\ phase' = "store"
  /\ UNCHANGED <<fixed, pos, start, table, decoder, cache, sparseAt, found,
                 delayed, matching, run>>

StoreNext ==
  /\ phase \in {"skip", "store"} /\ run.next < run.end
  /\ table' = Stored(run.next)
  /\ run' = [run EXCEPT !.next = @ + run.step]
  /\ UNCHANGED <<fixed, phase, pos, start, decoder, cache, sparseAt, found,
                 delayed, matching>>

EndRun ==
  /\ phase \in {"skip", "store"} /\ run.next >= run.end
  /\ pos' = IF phase = "skip" THEN run.next ELSE start
  /\ found' = NoMatch /\ run' = NoRun /\ phase' = "search"
  /\ UNCHANGED <<fixed, start, table, decoder, cache, sparseAt, delayed,
                 matching>>

PushTail ==
  /\ phase = "search" /\ ~CanSearch(pos)
  /\ TakeLiterals(start, End)
  /\ start' = End /\ phase' = "done"
  /\ UNCHANGED <<fixed, pos, table, cache, sparseAt, found, delayed,
                 matching, run>>

Collect ==
  \/ Search \/ Miss \/ Hit \/ LookFurther \/ Emit \/ PushTail

SearchersNext ==
  \/ Collect \/ TryCandidate
  \/ ReadByte \/ ReadAll \/ StoreNext \/ EndRun

=============================================================================
