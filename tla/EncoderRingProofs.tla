------------------------- MODULE EncoderRingProofs -------------------------
(***************************************************************************)
(* TLAPS proofs about EncoderRing, for every set of distances, window,     *)
(* literal run and input bound.                                            *)
(*                                                                         *)
(* Every way of writing copies pushes the distances the decoder pushes:    *)
(* RingInv says of each what the end of its meta-block will make of the    *)
(* ring.  The circular ring and the scan of kept copies need a lemma each  *)
(* that one more push moves the four newest by one.                        *)
(***************************************************************************)
EXTENDS EncoderRing, TLAPS

(***************************************************************************)
(* The rings.                                                              *)
(***************************************************************************)

\* The encoder's push and the decoder's are the same push.
LEMMA PushAgrees ==
  ASSUME NEW r \in Rings, NEW d \in Nat \ {0}
  PROVE  /\ Push(r, d) \in Rings /\ NewestFirst(r) \in Rings
         /\ PushNewest(NewestFirst(r), d) = NewestFirst(Push(r, d))
         /\ Push(r, d)[4] = d
  BY SMT DEF Rings, Push, NewestFirst, PushNewest

LEMMA PushNewestType ==
  ASSUME NEW r \in Rings, NEW d \in Nat \ {0}
  PROVE  PushNewest(r, d) \in Rings
  BY SMT DEF Rings, PushNewest

\* The symbol compute_distance_code picks means the distance it was picked
\* for, for every distance and every ring: the nibbles of its two constants
\* are the symbols of their offsets.
THEOREM CodeResolves ==
  ASSUME NEW r \in Rings, NEW d \in Nat \ {0}, NEW m \in Nat,
         NEW code, code = ComputeDistanceCode(d, m, NewestFirst(r))
  PROVE  /\ code \in 0 .. 16
         /\ code < 16 => Resolve(r, code) = d /\ d <= m
         /\ code = 0 => d = r[4]
<1>1. /\ r[1] \in Nat \ {0} /\ r[2] \in Nat \ {0}
      /\ r[3] \in Nat \ {0} /\ r[4] \in Nat \ {0}
  BY DEF Rings
<1> DEFINE o0 == d + 3 - r[4]
           o1 == d + 3 - r[3]
<1>2. code = IF d > m THEN NoCode
             ELSE IF d = r[4] THEN 0
             ELSE IF d = r[3] THEN 1
             ELSE IF o0 \in 0 .. 6 THEN Nibbles0[o0 + 1]
             ELSE IF o1 \in 0 .. 6 THEN Nibbles1[o1 + 1]
             ELSE IF d = r[2] THEN 2
             ELSE IF d = r[1] THEN 3
             ELSE NoCode
  BY DEF ComputeDistanceCode, NewestFirst
<1>3. CASE d > m
  BY <1>2, <1>3 DEF NoCode
<1>4. CASE d <= m /\ d = r[4]
  BY <1>1, <1>2, <1>4 DEF Resolve, SlotOf, OffsetOf
<1>5. CASE d <= m /\ d # r[4] /\ d = r[3]
  BY <1>1, <1>2, <1>5 DEF Resolve, SlotOf, OffsetOf
<1>6. CASE d <= m /\ d # r[4] /\ d # r[3] /\ o0 \in 0 .. 6
  <2>1. o0 # 3 /\ code = Nibbles0[o0 + 1]
    BY <1>1, <1>2, <1>6
  <2>2. \/ (o0 = 0 /\ code = 8) \/ (o0 = 1 /\ code = 6) \/ (o0 = 2 /\ code = 4)
        \/ (o0 = 4 /\ code = 5) \/ (o0 = 5 /\ code = 7) \/ (o0 = 6 /\ code = 9)
    BY <1>1, <1>6, <2>1 DEF Nibbles0
  <2> QED BY <1>1, <1>6, <2>2 DEF Resolve, SlotOf, OffsetOf, Near, Offset
<1>7. CASE d <= m /\ d # r[4] /\ d # r[3] /\ o0 \notin 0 .. 6 /\ o1 \in 0 .. 6
  <2>1. o1 # 3 /\ code = Nibbles1[o1 + 1]
    BY <1>1, <1>2, <1>7
  <2>2. \/ (o1 = 0 /\ code = 14) \/ (o1 = 1 /\ code = 12) \/ (o1 = 2 /\ code = 10)
        \/ (o1 = 4 /\ code = 11) \/ (o1 = 5 /\ code = 13) \/ (o1 = 6 /\ code = 15)
    BY <1>1, <1>7, <2>1 DEF Nibbles1
  <2> QED BY <1>1, <1>7, <2>2 DEF Resolve, SlotOf, OffsetOf, Near, Offset
<1>8. CASE d <= m /\ d # r[4] /\ d # r[3] /\ o0 \notin 0 .. 6 /\ o1 \notin 0 .. 6
  <2>1. CASE d = r[2]
    BY <1>1, <1>2, <1>8, <2>1 DEF Resolve, SlotOf, OffsetOf
  <2>2. CASE d # r[2] /\ d = r[1]
    BY <1>1, <1>2, <1>8, <2>2 DEF Resolve, SlotOf, OffsetOf
  <2>3. CASE d # r[2] /\ d # r[1]
    BY <1>1, <1>2, <1>8, <2>3 DEF NoCode
  <2> QED BY <2>1, <2>2, <2>3
<1> QED BY <1>3, <1>4, <1>5, <1>6, <1>7, <1>8

(***************************************************************************)
(* The circular ring of tokens::Writer, and the scan of kept copies: each  *)
(* push moves the four newest by one.                                      *)
(***************************************************************************)
Recents == {q \in [slots : [0 .. 3 -> Nat], len : Nat] :
              \A i \in 0 .. 3 : i < q.len => q.slots[i] > 0}

LEMMA RecentTurns ==
  ASSUME NEW q \in Recents, NEW d \in Nat \ {0}
  PROVE  /\ PushRecent(q, d) \in Recents
         /\ Len(NewestRecent(q)) = Lesser(q.len, 4)
         /\ Len(NewestRecent(PushRecent(q, d))) = Lesser(q.len + 1, 4)
         /\ NewestRecent(PushRecent(q, d))[1] = d
         /\ \A age \in 2 .. Lesser(q.len + 1, 4) :
              NewestRecent(PushRecent(q, d))[age] = NewestRecent(q)[age - 1]
<1> DEFINE p == PushRecent(q, d)
<1>1. /\ q.len \in Nat /\ q.slots \in [0 .. 3 -> Nat]
      /\ q.len % 4 \in 0 .. 3
      /\ p.len = q.len + 1
      /\ p.slots = [q.slots EXCEPT ![q.len % 4] = d]
  BY DEF Recents, PushRecent
<1>2. p \in Recents
  <2>1. p \in [slots : [0 .. 3 -> Nat], len : Nat]
    BY <1>1 DEF PushRecent
  <2>2. ASSUME NEW i \in 0 .. 3, i < p.len
        PROVE  p.slots[i] > 0
    <3>1. CASE i = q.len % 4
      BY <1>1, <3>1
    <3>2. CASE i # q.len % 4
      <4>1. i < q.len
        BY <1>1, <2>2, <3>2
      <4> QED BY <1>1, <3>2, <4>1 DEF Recents
    <3> QED BY <3>1, <3>2
  <2> QED BY <2>1, <2>2 DEF Recents
<1>3. /\ NewestRecent(q) = [age \in 1 .. Lesser(q.len, 4) |->
                             q.slots[(q.len - age) % 4]]
      /\ Lesser(q.len, 4) \in Nat
      /\ NewestRecent(p) = [age \in 1 .. Lesser(p.len, 4) |->
                             p.slots[(p.len - age) % 4]]
      /\ Lesser(p.len, 4) \in Nat
      /\ Lesser(p.len, 4) >= 1
  BY <1>1 DEF NewestRecent, Lesser
<1>4. /\ Len(NewestRecent(q)) = Lesser(q.len, 4)
      /\ Len(NewestRecent(p)) = Lesser(p.len, 4)
  BY <1>3
<1>5. NewestRecent(p)[1] = d
  <2>1. (p.len - 1) % 4 = q.len % 4
    BY <1>1
  <2> QED BY <1>1, <1>3, <2>1
<1>6. ASSUME NEW age \in 2 .. Lesser(q.len + 1, 4)
      PROVE  NewestRecent(p)[age] = NewestRecent(q)[age - 1]
  <2>1. /\ age \in 2 .. 4 /\ age - 1 <= q.len
        /\ age - 1 \in 1 .. Lesser(q.len, 4)
        /\ age \in 1 .. Lesser(p.len, 4)
    BY <1>1 DEF Lesser
  <2>2. /\ (p.len - age) % 4 = (q.len - (age - 1)) % 4
        /\ (q.len - (age - 1)) % 4 # q.len % 4
        /\ (q.len - (age - 1)) % 4 \in 0 .. 3
    BY <1>1, <2>1
  <2>3. /\ NewestRecent(p)[age] = p.slots[(p.len - age) % 4]
        /\ NewestRecent(q)[age - 1] = q.slots[(q.len - (age - 1)) % 4]
    BY <1>3, <2>1
  <2>4. \A i \in 0 .. 3 : i # q.len % 4 => p.slots[i] = q.slots[i]
    BY <1>1
  <2> QED BY <2>2, <2>3, <2>4
<1> QED BY <1>1, <1>2, <1>4, <1>5, <1>6

LEMMA KeptTurns ==
  ASSUME NEW s \in Seq(Nat \ {0}), NEW d \in Nat \ {0}
  PROVE  /\ Append(s, d) \in Seq(Nat \ {0})
         /\ Len(NewestKept(s)) = Lesser(Len(s), 4)
         /\ Len(NewestKept(Append(s, d))) = Lesser(Len(s) + 1, 4)
         /\ NewestKept(Append(s, d))[1] = d
         /\ \A age \in 2 .. Lesser(Len(s) + 1, 4) :
              NewestKept(Append(s, d))[age] = NewestKept(s)[age - 1]
<1> DEFINE t == Append(s, d)
<1>1. /\ t \in Seq(Nat \ {0}) /\ Len(t) = Len(s) + 1 /\ Len(s) \in Nat
      /\ t[Len(s) + 1] = d
      /\ \A i \in 1 .. Len(s) : t[i] = s[i]
  OBVIOUS
<1> HIDE DEF t
<1>2. /\ NewestKept(s) = [age \in 1 .. Lesser(Len(s), 4) |-> s[Len(s) + 1 - age]]
      /\ NewestKept(t) = [age \in 1 .. Lesser(Len(t), 4) |-> t[Len(t) + 1 - age]]
      /\ Lesser(Len(s), 4) \in Nat /\ Lesser(Len(t), 4) \in Nat
      /\ Lesser(Len(t), 4) >= 1
  BY <1>1 DEF NewestKept, Lesser
<1>3. /\ Len(NewestKept(s)) = Lesser(Len(s), 4)
      /\ Len(NewestKept(t)) = Lesser(Len(t), 4)
  BY <1>2
<1>4. NewestKept(t)[1] = d
  BY <1>1, <1>2
<1>5. ASSUME NEW age \in 2 .. Lesser(Len(s) + 1, 4)
      PROVE  NewestKept(t)[age] = NewestKept(s)[age - 1]
  <2>1. /\ age - 1 \in 1 .. Lesser(Len(s), 4)
        /\ age \in 1 .. Lesser(Len(t), 4)
        /\ Len(t) + 1 - age = Len(s) + 1 - (age - 1)
        /\ Len(t) + 1 - age \in 1 .. Len(s)
    BY <1>1 DEF Lesser
  <2> QED BY <1>1, <1>2, <2>1
<1> QED BY <1>1, <1>3, <1>4, <1>5 DEF t

\* Pushing one more than the newest so far is pushing it onto their ring.
LEMMA TurnPushes ==
  ASSUME NEW r \in Rings, NEW d \in Nat \ {0}, NEW n \in Nat,
         NEW old, NEW new,
         Len(old) = Lesser(n, 4), Len(new) = Lesser(n + 1, 4),
         new[1] = d,
         \A age \in 2 .. Lesser(n + 1, 4) : new[age] = old[age - 1]
  PROVE  PushNewestFirst(r, new) = PushNewest(PushNewestFirst(r, old), d)
<1>1. CASE n = 0
  BY <1>1 DEF PushNewestFirst, PushNewest, Lesser
<1>2. CASE n = 1
  BY <1>2 DEF PushNewestFirst, PushNewest, Lesser
<1>3. CASE n = 2
  BY <1>3 DEF PushNewestFirst, PushNewest, Lesser
<1>4. CASE n >= 3
  <2>1. Len(new) = 4 /\ Len(old) >= 3
    BY <1>4 DEF Lesser
  <2>2. new[2] = old[1] /\ new[3] = old[2] /\ new[4] = old[3]
    BY <1>4 DEF Lesser
  <2> QED BY <2>1, <2>2, <1>4 DEF PushNewestFirst, PushNewest, Lesser
<1> QED BY <1>1, <1>2, <1>3, <1>4

LEMMA RecentPushes ==
  ASSUME NEW r \in Rings, NEW q \in Recents, NEW d \in Nat \ {0}
  PROVE  PushNewestFirst(r, NewestRecent(PushRecent(q, d)))
           = PushNewest(PushNewestFirst(r, NewestRecent(q)), d)
<1>1. q.len \in Nat
  BY DEF Recents
<1> DEFINE old == NewestRecent(q)
           new == NewestRecent(PushRecent(q, d))
           n == q.len
<1>2. /\ n \in Nat
      /\ Len(old) = Lesser(n, 4) /\ Len(new) = Lesser(n + 1, 4)
      /\ new[1] = d
      /\ \A age \in 2 .. Lesser(n + 1, 4) : new[age] = old[age - 1]
  BY <1>1, RecentTurns
<1> HIDE DEF old, new, n
<1>3. PushNewestFirst(r, new) = PushNewest(PushNewestFirst(r, old), d)
  BY <1>2, TurnPushes
<1> QED BY <1>3 DEF old, new

LEMMA KeptPushes ==
  ASSUME NEW r \in Rings, NEW s \in Seq(Nat \ {0}), NEW d \in Nat \ {0}
  PROVE  PushNewestFirst(r, NewestKept(Append(s, d)))
           = PushNewest(PushNewestFirst(r, NewestKept(s)), d)
<1>1. Len(s) \in Nat
  OBVIOUS
<1> QED BY <1>1, KeptTurns, TurnPushes

LEMMA NothingPushed ==
  ASSUME NEW r \in Rings
  PROVE  /\ PushNewestFirst(r, NewestRecent(NoRecent)) = r
         /\ PushNewestFirst(r, NewestKept(<<>>)) = r
         /\ NoRecent \in Recents
<1>1. Len(NewestRecent(NoRecent)) = 0 /\ Len(NewestKept(<<>>)) = 0
  BY DEF NewestRecent, NewestKept, NoRecent, Lesser
<1>2. r = <<r[1], r[2], r[3], r[4]>>
  BY DEF Rings
<1> QED BY <1>1, <1>2 DEF PushNewestFirst, Recents, NoRecent

(***************************************************************************)
(* The inductive invariant.  Between meta-blocks the encoder's ring is the *)
(* decoder's.  In one, what the end of the block will make of the ring is: *)
(* the writer's pushes or the kept copies on top of it, or the command     *)
(* writer's copy; a block that may be taken back also keeps the ring the   *)
(* decoder had at the mark.                                                *)
(***************************************************************************)
Cached == {"global", "local"}
Writers == Cached \cup {"long"}
Scanned == {"sparse", "batch"}
Commands == {"twoPass", "onePass", "block"}
Paths == {"between", "blocks"} \cup Writers \cup Scanned \cup Commands

RingTypeOK ==
  /\ path \in Paths
  /\ ring \in Rings /\ view \in Rings /\ last \in Nat
  /\ recent \in Recents /\ kept \in Seq(Nat \ {0})
  /\ base \in Nat /\ pos \in Nat /\ stored \in Nat \cup {NotStored}
  /\ decoder \in [ring : Rings, at : Nat] /\ mark \in [ring : Rings, at : Nat]

Positions ==
  /\ path # "blocks" => base + pos = decoder.at /\ stored = NotStored
  /\ path = "blocks" =>
       IF stored = NotStored THEN base + pos = decoder.at
       ELSE base + stored = decoder.at /\ stored <= pos
  /\ path = "between" => pos = 0
  /\ path = "onePass" => mark.at = base
  /\ path = "block" => mark.at \in base .. base + pos

RingAdvances ==
  /\ path \in {"between", "blocks"} => ring = NewestFirst(decoder.ring)
  /\ path \in Writers =>
       PushNewestFirst(ring, NewestRecent(recent)) = NewestFirst(decoder.ring)
  /\ path \in Scanned =>
       PushNewestFirst(ring, NewestKept(kept)) = NewestFirst(decoder.ring)
  /\ path \in {"onePass", "block"} => ring = NewestFirst(mark.ring)

RingInv == RingTypeOK /\ Positions /\ RingAdvances /\ CollectorFollows /\ CopiesDecode

(***************************************************************************)
(* What a copy does: if its symbol means its distance to the decoder and   *)
(* its source is where the decoder looks, it is decoded as meant, and the  *)
(* decoder pushes it unless it repeats the last distance or is a word.     *)
(***************************************************************************)
MeansIt(insert, symbol, distance, source) ==
  /\ symbol < 16 => Resolve(decoder.ring, symbol) = distance
  /\ source = IF distance <= Reach(base + pos + insert) THEN "output" ELSE "word"

LEMMA DecodeAgrees ==
  ASSUME NEW insert \in Nat, NEW symbol \in 0 .. 16, NEW d \in Nat \ {0},
         NEW source
  PROVE  (/\ RingTypeOK /\ base + pos = decoder.at
          /\ MeansIt(insert, symbol, d, source)
          /\ Decode(insert, symbol, d, source))
         => /\ copy'.meant = copy'.decoded
            /\ pos' = pos + insert + CopyLen /\ pos' \in Nat
            /\ decoder' \in [ring : Rings, at : Nat]
            /\ decoder'.at = base + pos'
            /\ decoder'.ring = IF symbol # 0 /\ source = "output"
                               THEN Push(decoder.ring, d) ELSE decoder.ring
<1> SUFFICES ASSUME RingTypeOK, base + pos = decoder.at,
                    MeansIt(insert, symbol, d, source),
                    Decode(insert, symbol, d, source)
             PROVE  /\ copy'.meant = copy'.decoded
                    /\ pos' = pos + insert + CopyLen /\ pos' \in Nat
                    /\ decoder' \in [ring : Rings, at : Nat]
                    /\ decoder'.at = base + pos'
                    /\ decoder'.ring = IF symbol # 0 /\ source = "output"
                                       THEN Push(decoder.ring, d) ELSE decoder.ring
  OBVIOUS
<1> DEFINE at == decoder.at + insert
           r == RingAfter(decoder.ring, symbol, source, d)
<1>1. /\ base \in Nat /\ pos \in Nat /\ CopyLen \in Nat
      /\ decoder.ring \in Rings /\ decoder.at \in Nat
  BY EncoderRingAssumption DEF RingTypeOK
<1>2. /\ (IF symbol < 16 THEN Resolve(decoder.ring, symbol) ELSE d) = d
      /\ base + pos + insert = at
      /\ (IF d <= Reach(at) THEN "output" ELSE "word") = source
  BY <1>1 DEF MeansIt
<1>3. /\ decoder' = [ring |-> r, at |-> at + CopyLen]
      /\ copy' = [meant |-> <<base + pos + insert, d, source>>,
                  decoded |-> <<at, d, source>>]
      /\ pos' = pos + insert + CopyLen
  BY <1>2, Zenon DEF Decode
<1>4. source \in {"output", "word"}
  BY DEF MeansIt
<1>5. r = IF symbol # 0 /\ source = "output" THEN Push(decoder.ring, d)
          ELSE decoder.ring
  BY <1>4 DEF RingAfter
<1>6. r \in Rings
  BY <1>1, <1>5, PushAgrees
<1> HIDE DEF r
<1>7. copy'.meant = copy'.decoded
  BY <1>2, <1>3
<1>8. /\ decoder' \in [ring : Rings, at : Nat] /\ decoder'.at = base + pos'
      /\ decoder'.ring = r /\ pos' \in Nat
  BY <1>1, <1>3, <1>6
<1> QED BY <1>3, <1>5, <1>7, <1>8

(***************************************************************************)
(* Each action keeps the invariant.                                        *)
(***************************************************************************)
LEMMA InitInv == Init => RingInv
<1> SUFFICES ASSUME Init PROVE RingInv
  OBVIOUS
<1>1. InitialRing \in Rings /\ LAST_DISTANCES \in Rings
      /\ InitialRing = NewestFirst(LAST_DISTANCES)
  BY DEF InitialRing, LAST_DISTANCES, Rings, NewestFirst
<1>2. NoRecent \in Recents
  BY <1>1, NothingPushed
<1>3. RingTypeOK
  BY <1>1, <1>2 DEF Init, RingTypeOK, Paths, Start, NoLastDistance
<1>4. Positions /\ RingAdvances
  BY <1>1 DEF Init, Positions, RingAdvances, Start, Writers, Cached, Scanned
<1>5. CollectorFollows /\ CopiesDecode
  BY DEF Init, CollectorFollows, CopiesDecode, NoCopy
<1> QED BY <1>3, <1>4, <1>5 DEF RingInv

LEMMA SkipHas ==
  ASSUME NEW d \in [ring : Rings, at : Nat], NEW len \in Nat
  PROVE  /\ Skip(d, len) \in [ring : Rings, at : Nat]
         /\ Skip(d, len).ring = d.ring /\ Skip(d, len).at = d.at + len
  BY DEF Skip

LEMMA LiteralsInv ==
  ASSUME NEW len \in Inserts
  PROVE  RingInv /\ WriteLiterals(len) => RingInv'
<1> SUFFICES ASSUME RingInv, WriteLiterals(len) PROVE RingInv'
  OBVIOUS
<1> USE EncoderRingAssumption
<1>1. /\ decoder'.ring = decoder.ring /\ decoder'.at = decoder.at + len
      /\ decoder' \in [ring : Rings, at : Nat] /\ len \in Nat
  BY SkipHas DEF RingInv, RingTypeOK, WriteLiterals
<1>2. path = "between" /\ path' = "between" /\ pos = 0 /\ base + pos = decoder.at
  BY DEF RingInv, Positions, WriteLiterals
<1>3. RingTypeOK'
  BY <1>1 DEF RingInv, RingTypeOK, WriteLiterals
<1>4. Positions'
  BY <1>1, <1>2 DEF RingInv, RingTypeOK, Positions, WriteLiterals
<1>5. RingAdvances' /\ CollectorFollows' /\ CopiesDecode'
  BY <1>1, <1>2 DEF RingInv, RingAdvances, CollectorFollows, CopiesDecode,
     WriteLiterals, Writers, Cached, Scanned
<1> QED BY <1>3, <1>4, <1>5 DEF RingInv

LEMMA BeginInv ==
  ASSUME NEW p \in {"global", "local", "long", "sparse", "batch", "twoPass",
                    "onePass", "blocks"}
  PROVE  RingInv /\ Begin(p) => RingInv'
<1> SUFFICES ASSUME RingInv, Begin(p) PROVE RingInv'
  OBVIOUS
<1>1. /\ path = "between" /\ pos = 0 /\ pos' = 0 /\ base + pos = decoder.at
      /\ stored = NotStored /\ ring = NewestFirst(decoder.ring)
      /\ ring \in Rings /\ decoder \in [ring : Rings, at : Nat]
      /\ base \in Nat /\ pos \in Nat
  BY DEF RingInv, RingTypeOK, Positions, RingAdvances, Begin
<1>2. ring[1] = decoder.ring[4] /\ ring[1] \in Nat
  BY <1>1 DEF NewestFirst, Rings
<1>3. RingTypeOK'
  <2>1. path' \in Paths
    BY DEF Begin, Paths, Writers, Cached, Scanned, Commands
  <2>2. last' \in Nat /\ view' \in Rings
    BY <1>1, <1>2 DEF Begin, NoLastDistance
  <2>3. recent' \in Recents /\ kept' \in Seq(Nat \ {0})
    BY <1>1, NothingPushed DEF Begin
  <2> QED BY <1>1, <2>1, <2>2, <2>3 DEF Begin, RingTypeOK, RingInv
<1>4. Positions'
  BY <1>1 DEF Begin, Positions
<1>5. RingAdvances'
  <2>1. PushNewestFirst(ring', NewestRecent(recent')) = NewestFirst(decoder'.ring)
    BY <1>1, NothingPushed DEF Begin
  <2>2. PushNewestFirst(ring', NewestKept(kept')) = NewestFirst(decoder'.ring)
    BY <1>1, NothingPushed DEF Begin
  <2>3. ring' = NewestFirst(decoder'.ring) /\ ring' = NewestFirst(mark'.ring)
    BY <1>1 DEF Begin
  <2> QED BY <2>1, <2>2, <2>3 DEF RingAdvances
<1>6. CollectorFollows' /\ CopiesDecode'
  BY <1>1, <1>2 DEF Begin, RingInv, CollectorFollows, CopiesDecode
<1> QED BY <1>3, <1>4, <1>5, <1>6 DEF RingInv

\* What every copy may rely on.
CopyFacts(insert, d) ==
  /\ insert \in Nat /\ d \in Nat \ {0}
  /\ base \in Nat /\ pos \in Nat /\ base + pos = decoder.at
  /\ stored = NotStored
  /\ decoder.ring \in Rings /\ decoder.ring[4] \in Nat \ {0}
  /\ Push(decoder.ring, d) \in Rings /\ Push(decoder.ring, d)[4] = d
  /\ NewestFirst(Push(decoder.ring, d))
       = PushNewest(NewestFirst(decoder.ring), d)

LEMMA CopyHas ==
  ASSUME NEW insert \in Inserts, NEW d \in Distances
  PROVE  RingInv /\ path \notin {"between", "blocks"} => CopyFacts(insert, d)
<1> SUFFICES ASSUME RingInv, path \notin {"between", "blocks"}
             PROVE  CopyFacts(insert, d)
  OBVIOUS
<1>1. insert \in Nat /\ d \in Nat \ {0} /\ decoder.ring \in Rings
  BY EncoderRingAssumption DEF RingInv, RingTypeOK
<1>2. decoder.ring[4] \in Nat \ {0}
  BY <1>1 DEF Rings
<1> QED BY <1>1, <1>2, PushAgrees DEF CopyFacts, RingInv, RingTypeOK, Positions

\* A match in the chunk is in the decoder's output.
LEMMA LocalReach ==
  ASSUME NEW b \in Nat, NEW at \in Nat, NEW d \in Nat, d <= Reach(at)
  PROVE  d <= Reach(b + at)
  BY EncoderRingAssumption DEF Reach, Lesser

LEMMA CachedInv ==
  ASSUME NEW insert \in Inserts, NEW d \in Distances,
         NEW source \in {"output", "word"}
  PROVE  RingInv /\ CollectCached(insert, d, source) => RingInv'
<1> SUFFICES ASSUME RingInv, CollectCached(insert, d, source)
             PROVE  RingInv'
  OBVIOUS
<1> DEFINE at == pos + insert
           code == ComputeDistanceCode(d, CollectorReach(at), view)
           useLast == code = 0 /\ SupportsLast(insert)
           symbol == IF useLast THEN 0 ELSE code
<1>1. /\ path \in Cached /\ path' = path
      /\ source = "word" => path = "global"
      /\ Found(d, source, at)
      /\ PushToken(insert, d, source, code, useLast)
      /\ view' = IF d <= CollectorReach(at) /\ code > 0
                 THEN PushNewest(view, d) ELSE view
      /\ UNCHANGED <<ring, last, kept, base, stored, mark>>
  BY DEF CollectCached, Cached
<1>2. CopyFacts(insert, d)
  BY <1>1, CopyHas DEF Cached
<1>3. at \in Nat /\ CollectorReach(at) \in Nat /\ Reach(base + at) \in Nat
  BY <1>2, EncoderRingAssumption DEF CopyFacts, CollectorReach, Reach, Lesser
<1>4. view = NewestFirst(decoder.ring)
  BY <1>1 DEF RingInv, CollectorFollows, Cached
<1>5. /\ code \in 0 .. 16
      /\ code < 16 => Resolve(decoder.ring, code) = d /\ d <= CollectorReach(at)
      /\ code = 0 => d = decoder.ring[4]
  BY <1>2, <1>3, <1>4, CodeResolves DEF CopyFacts
<1>6. /\ d <= Reach(base + at) <=> source = "output"
      /\ d <= CollectorReach(at) <=> source = "output"
  <2>1. CASE source = "output"
    <3>1. d <= Reach(at)
      BY <1>1, <2>1 DEF Found
    <3>2. d <= Reach(base + at)
      BY <1>2, <1>3, <3>1, LocalReach DEF CopyFacts
    <3> QED BY <2>1, <3>1, <3>2 DEF CollectorReach
  <2>2. CASE source = "word"
    <3>1. d > Reach(base + at) /\ path = "global"
      BY <1>1, <2>2 DEF Found
    <3>2. ~(d <= Reach(base + at))
      BY <1>2, <1>3, <3>1 DEF CopyFacts
    <3> QED BY <2>2, <3>1, <3>2 DEF CollectorReach
  <2> QED BY <2>1, <2>2
<1> HIDE DEF code
<1>7. symbol = code /\ symbol \in 0 .. 16
  BY <1>5
<1>8. MeansIt(insert, symbol, d, source)
  BY <1>2, <1>5, <1>6, <1>7 DEF MeansIt, CopyFacts
<1>9. Decode(insert, symbol, d, source)
  BY <1>1 DEF PushToken
<1>10. /\ copy'.meant = copy'.decoded /\ pos' \in Nat
       /\ decoder' \in [ring : Rings, at : Nat] /\ decoder'.at = base + pos'
       /\ decoder'.ring = IF code # 0 /\ source = "output"
                          THEN Push(decoder.ring, d) ELSE decoder.ring
  <2>1. RingTypeOK /\ base + pos = decoder.at
    BY <1>2 DEF RingInv, CopyFacts
  <2> QED BY <2>1, <1>2, <1>7, <1>8, <1>9, DecodeAgrees DEF CopyFacts
<1>11. recent' = IF code # 0 /\ source = "output" THEN PushRecent(recent, d)
                 ELSE recent
  <2>1. base + (pos + insert) = base + at
    BY <1>2 DEF CopyFacts
  <2> QED BY <1>1, <1>2, <1>5, <1>6, <2>1 DEF PushToken, PushesRing
<1>12. view' = NewestFirst(decoder'.ring)
  BY <1>1, <1>2, <1>4, <1>5, <1>6, <1>10 DEF CopyFacts
<1>13. PushNewestFirst(ring, NewestRecent(recent')) = NewestFirst(decoder'.ring)
  <2>1. /\ PushNewestFirst(ring, NewestRecent(recent)) = NewestFirst(decoder.ring)
        /\ ring \in Rings /\ recent \in Recents
    BY <1>1 DEF RingInv, RingTypeOK, RingAdvances, Writers
  <2>2. CASE code # 0 /\ source = "output"
    BY <1>2, <1>10, <1>11, <2>1, <2>2, RecentPushes DEF CopyFacts
  <2>3. CASE ~(code # 0 /\ source = "output")
    BY <1>10, <1>11, <2>1, <2>3
  <2> QED BY <2>2, <2>3
<1>14. recent' \in Recents /\ view' \in Rings
  <2>1. recent \in Recents
    BY DEF RingInv, RingTypeOK
  <2> QED BY <1>2, <1>10, <1>11, <1>12, <2>1, RecentTurns, PushAgrees DEF CopyFacts
<1>15. RingTypeOK'
  BY <1>1, <1>10, <1>14 DEF RingInv, RingTypeOK
<1>16. Positions'
  BY <1>1, <1>2, <1>10 DEF RingInv, Positions, Cached, CopyFacts
<1>17. RingAdvances' /\ CollectorFollows' /\ CopiesDecode'
  BY <1>1, <1>10, <1>12, <1>13
     DEF RingAdvances, CollectorFollows, CopiesDecode, Cached, Scanned
<1> QED BY <1>15, <1>16, <1>17 DEF RingInv

\* A copy within the chunk that repeats the last distance or has an explicit
\* one.
Copied(d, same) ==
  /\ copy'.meant = copy'.decoded /\ pos' \in Nat
  /\ decoder' \in [ring : Rings, at : Nat] /\ decoder'.at = base + pos'
  /\ decoder'.ring = IF same THEN decoder.ring ELSE Push(decoder.ring, d)

LEMMA PlainCopy ==
  ASSUME NEW insert \in Inserts, NEW d \in Distances, NEW same \in BOOLEAN
  PROVE  (/\ RingInv /\ path \notin {"between", "blocks"}
          /\ Found(d, "output", pos + insert)
          /\ same => d = decoder.ring[4]
          /\ Decode(insert, IF same THEN 0 ELSE NoCode, d, "output"))
         => /\ Copied(d, same) /\ d <= Reach(base + (pos + insert))
            /\ pos' >= pos
<1> SUFFICES ASSUME RingInv, path \notin {"between", "blocks"},
                    Found(d, "output", pos + insert),
                    same => d = decoder.ring[4],
                    Decode(insert, IF same THEN 0 ELSE NoCode, d, "output")
             PROVE  /\ Copied(d, same) /\ d <= Reach(base + (pos + insert))
                    /\ pos' >= pos
  OBVIOUS
<1> DEFINE symbol == IF same THEN 0 ELSE NoCode
<1>1. CopyFacts(insert, d)
  BY CopyHas
<1>2. d <= Reach(base + (pos + insert))
  <2>1. pos + insert \in Nat /\ d <= Reach(pos + insert)
    BY <1>1 DEF Found, CopyFacts
  <2> QED BY <1>1, <2>1, LocalReach DEF CopyFacts
<1>3. symbol \in 0 .. 16 /\ (symbol < 16 <=> same) /\ (symbol # 0 <=> ~same)
  BY DEF NoCode
<1>4. Resolve(decoder.ring, 0) = decoder.ring[4]
  BY <1>1 DEF Resolve, SlotOf, OffsetOf, CopyFacts
<1>5. base + pos + insert = base + (pos + insert)
  BY <1>1 DEF CopyFacts
<1>6. MeansIt(insert, symbol, d, "output")
  BY <1>2, <1>3, <1>4, <1>5 DEF MeansIt
<1>7. RingTypeOK /\ base + pos = decoder.at
  BY <1>1 DEF RingInv, CopyFacts
<1>8. Decode(insert, symbol, d, "output")
  OBVIOUS
<1> HIDE DEF symbol
<1>9. /\ copy'.meant = copy'.decoded
      /\ pos' = pos + insert + CopyLen /\ pos' \in Nat
      /\ decoder' \in [ring : Rings, at : Nat]
      /\ decoder'.at = base + pos'
      /\ decoder'.ring = IF symbol # 0 /\ "output" = "output"
                         THEN Push(decoder.ring, d) ELSE decoder.ring
  BY <1>1, <1>3, <1>6, <1>7, <1>8, DecodeAgrees DEF CopyFacts
<1>10. pos' >= pos
  BY <1>1, <1>9, EncoderRingAssumption DEF CopyFacts
<1> QED BY <1>2, <1>3, <1>9, <1>10 DEF Copied

LEMMA LongInv ==
  ASSUME NEW insert \in Inserts, NEW d \in Distances
  PROVE  RingInv /\ CollectLong(insert, d) => RingInv'
<1> SUFFICES ASSUME RingInv, CollectLong(insert, d) PROVE RingInv'
  OBVIOUS
<1> DEFINE same == d = last
<1>1. /\ path = "long" /\ path' = path
      /\ Found(d, "output", pos + insert)
      /\ PushToken(insert, d, "output", NoCode, same)
      /\ last' = d /\ UNCHANGED <<ring, view, kept, base, stored, mark>>
  BY DEF CollectLong
<1>2. CopyFacts(insert, d)
  BY <1>1, CopyHas
<1>3. same => d = decoder.ring[4]
  BY <1>1, <1>2 DEF RingInv, CollectorFollows, CopyFacts, NoLastDistance
<1>4. Copied(d, same) /\ d <= Reach(base + (pos + insert))
  BY <1>1, <1>3, PlainCopy DEF PushToken
<1>5. recent' = IF same THEN recent ELSE PushRecent(recent, d)
  BY <1>1, <1>4 DEF PushToken, PushesRing, NoCode
<1>6. last' = decoder'.ring[4] /\ last' \in Nat
  BY <1>1, <1>2, <1>3, <1>4 DEF Copied, CopyFacts
<1>7. recent' \in Recents
  BY <1>2, <1>5, RecentTurns DEF RingInv, RingTypeOK, CopyFacts
<1>8. PushNewestFirst(ring, NewestRecent(recent')) = NewestFirst(decoder'.ring)
  <2>1. /\ PushNewestFirst(ring, NewestRecent(recent)) = NewestFirst(decoder.ring)
        /\ ring \in Rings /\ recent \in Recents
    BY <1>1 DEF RingInv, RingTypeOK, RingAdvances, Writers
  <2>2. CASE same
    BY <1>4, <1>5, <2>1, <2>2 DEF Copied
  <2>3. CASE ~same
    BY <1>2, <1>4, <1>5, <2>1, <2>3, RecentPushes DEF Copied, CopyFacts
  <2> QED BY <2>2, <2>3
<1> HIDE DEF same
<1>9. RingTypeOK'
  BY <1>1, <1>4, <1>6, <1>7 DEF RingInv, RingTypeOK, Copied
<1>10. Positions'
  BY <1>1, <1>2, <1>4 DEF RingInv, Positions, Copied, CopyFacts
<1>11. RingAdvances' /\ CollectorFollows' /\ CopiesDecode'
  BY <1>1, <1>4, <1>6, <1>8
     DEF RingAdvances, CollectorFollows, CopiesDecode, Scanned, Copied
<1> QED BY <1>9, <1>10, <1>11 DEF RingInv

LEMMA SparseInv ==
  ASSUME NEW insert \in Inserts, NEW d \in Distances
  PROVE  RingInv /\ CollectSparse(insert, d) => RingInv'
<1> SUFFICES ASSUME RingInv, CollectSparse(insert, d) PROVE RingInv'
  OBVIOUS
<1>1. /\ path = "sparse" /\ path' = path
      /\ Found(d, "output", pos + insert)
      /\ Decode(insert, NoCode, d, "output")
      /\ UNCHANGED <<ring, view, last, recent, base, stored, mark>>
  BY DEF CollectSparse
<1>2. CopyFacts(insert, d)
  BY <1>1, CopyHas
<1>3. Copied(d, FALSE) /\ d <= Reach(base + (pos + insert))
  BY <1>1, PlainCopy
<1>4. kept' = Append(kept, d)
  BY <1>3 DEF CollectSparse, PushesRing, NoCode
<1>5. /\ PushNewestFirst(ring, NewestKept(kept)) = NewestFirst(decoder.ring)
      /\ ring \in Rings /\ kept \in Seq(Nat \ {0})
  BY <1>1 DEF RingInv, RingTypeOK, RingAdvances, Scanned
<1>6. PushNewestFirst(ring, NewestKept(kept')) = NewestFirst(decoder'.ring)
  BY <1>2, <1>3, <1>4, <1>5, KeptPushes DEF Copied, CopyFacts
<1>7. kept' \in Seq(Nat \ {0})
  BY <1>2, <1>4, <1>5, KeptTurns DEF CopyFacts
<1>8. RingTypeOK'
  BY <1>1, <1>3, <1>7 DEF RingInv, RingTypeOK, Copied
<1>9. Positions'
  BY <1>1, <1>2, <1>3 DEF RingInv, Positions, Copied, CopyFacts
<1>10. RingAdvances' /\ CollectorFollows' /\ CopiesDecode'
  BY <1>1, <1>3, <1>6
     DEF RingAdvances, CollectorFollows, CopiesDecode, Writers, Cached, Copied
<1> QED BY <1>8, <1>9, <1>10 DEF RingInv

LEMMA BatchInv ==
  ASSUME NEW insert \in Inserts, NEW d \in Distances
  PROVE  RingInv /\ CollectBatch(insert, d) => RingInv'
<1> SUFFICES ASSUME RingInv, CollectBatch(insert, d) PROVE RingInv'
  OBVIOUS
<1> DEFINE reuse == Reuses(insert, d)
<1>1. /\ path = "batch" /\ path' = path
      /\ Found(d, "output", pos + insert)
      /\ Decode(insert, IF reuse THEN 0 ELSE NoCode, d, "output")
      /\ kept' = IF reuse THEN kept ELSE Append(kept, d)
      /\ last' = d /\ UNCHANGED <<ring, view, recent, base, stored, mark>>
  BY DEF CollectBatch
<1>2. CopyFacts(insert, d)
  BY <1>1, CopyHas
<1>3. reuse => d = decoder.ring[4]
  BY <1>1, <1>2 DEF RingInv, CollectorFollows, CopyFacts, NoLastDistance, Reuses
<1> HIDE DEF reuse
<1>4. reuse \in BOOLEAN
  BY DEF reuse, Reuses
<1>5. Copied(d, reuse)
  BY <1>1, <1>3, <1>4, PlainCopy
<1>6. /\ PushNewestFirst(ring, NewestKept(kept)) = NewestFirst(decoder.ring)
      /\ ring \in Rings /\ kept \in Seq(Nat \ {0})
  BY <1>1 DEF RingInv, RingTypeOK, RingAdvances, Scanned
<1>7. last' = decoder'.ring[4] /\ last' \in Nat
  BY <1>1, <1>2, <1>3, <1>5 DEF Copied, CopyFacts
<1>8. kept' \in Seq(Nat \ {0})
  BY <1>1, <1>2, <1>6, KeptTurns DEF CopyFacts
<1>9. PushNewestFirst(ring, NewestKept(kept')) = NewestFirst(decoder'.ring)
  <2>1. CASE reuse
    BY <1>1, <1>5, <1>6, <2>1 DEF Copied
  <2>2. CASE ~reuse
    BY <1>1, <1>2, <1>5, <1>6, <2>2, KeptPushes DEF Copied, CopyFacts
  <2> QED BY <2>1, <2>2
<1>10. RingTypeOK'
  BY <1>1, <1>5, <1>7, <1>8 DEF RingInv, RingTypeOK, Copied
<1>11. Positions'
  BY <1>1, <1>2, <1>5 DEF RingInv, Positions, Copied, CopyFacts
<1>12. RingAdvances' /\ CollectorFollows' /\ CopiesDecode'
  BY <1>1, <1>5, <1>7, <1>9
     DEF RingAdvances, CollectorFollows, CopiesDecode, Writers, Cached, Copied
<1> QED BY <1>10, <1>11, <1>12 DEF RingInv

LEMMA CommandInv ==
  ASSUME NEW insert \in Inserts, NEW d \in Distances
  PROVE  RingInv /\ WriteCommand(insert, d) => RingInv'
<1> SUFFICES ASSUME RingInv, WriteCommand(insert, d) PROVE RingInv'
  OBVIOUS
<1> DEFINE same == d = view[1]
<1>1. /\ path \in Commands /\ path' = path
      /\ Found(d, "output", pos + insert)
      /\ Decode(insert, IF same THEN 0 ELSE NoCode, d, "output")
      /\ view' = IF same THEN view ELSE PushNewest(view, d)
      /\ UNCHANGED <<ring, last, recent, kept, base, stored, mark>>
  BY DEF WriteCommand, Commands
<1>2. CopyFacts(insert, d)
  BY <1>1, CopyHas DEF Commands
<1>3. view = NewestFirst(decoder.ring) /\ view \in Rings
  BY <1>1 DEF RingInv, RingTypeOK, CollectorFollows, Commands
<1>4. same => d = decoder.ring[4]
  BY <1>3 DEF NewestFirst
<1> HIDE DEF same
<1>5. same \in BOOLEAN
  BY DEF same
<1>6. Copied(d, same) /\ pos' >= pos
  BY <1>1, <1>4, <1>5, PlainCopy DEF Commands
<1>7. view' = NewestFirst(decoder'.ring) /\ view' \in Rings
  BY <1>1, <1>2, <1>3, <1>6, PushAgrees DEF Copied, CopyFacts
<1>8. RingTypeOK'
  BY <1>1, <1>6, <1>7 DEF RingInv, RingTypeOK, Copied
<1>9. Positions'
  BY <1>1, <1>2, <1>6 DEF RingInv, RingTypeOK, Positions, Copied, CopyFacts, Commands
<1>10. RingAdvances' /\ CollectorFollows' /\ CopiesDecode'
  BY <1>1, <1>6, <1>7
     DEF RingInv, RingAdvances, CollectorFollows, CopiesDecode, Commands, Writers,
         Cached, Scanned, Copied
<1> QED BY <1>8, <1>9, <1>10 DEF RingInv

\* What the end of a block may rely on.
LEMMA TypesHas ==
  RingInv => /\ ring \in Rings /\ view \in Rings /\ last \in Nat
             /\ recent \in Recents /\ kept \in Seq(Nat \ {0})
             /\ base \in Nat /\ pos \in Nat
             /\ decoder \in [ring : Rings, at : Nat] /\ decoder.ring \in Rings
             /\ mark \in [ring : Rings, at : Nat] /\ mark.ring \in Rings
             /\ decoder.at \in Nat /\ mark.at \in Nat
             /\ NewestFirst(decoder.ring) \in Rings
<1> SUFFICES ASSUME RingInv
             PROVE  /\ ring \in Rings /\ view \in Rings /\ last \in Nat
                    /\ recent \in Recents /\ kept \in Seq(Nat \ {0})
                    /\ base \in Nat /\ pos \in Nat
                    /\ decoder \in [ring : Rings, at : Nat]
                    /\ decoder.ring \in Rings
                    /\ mark \in [ring : Rings, at : Nat] /\ mark.ring \in Rings
                    /\ decoder.at \in Nat /\ mark.at \in Nat
                    /\ NewestFirst(decoder.ring) \in Rings
  OBVIOUS
<1>1. decoder.ring \in Rings
  BY DEF RingInv, RingTypeOK
<1>2. NewestFirst(decoder.ring) \in Rings
  BY <1>1, PushAgrees
<1> QED BY <1>1, <1>2 DEF RingInv, RingTypeOK

\* The end of a block, however the ring was advanced in it.
LEMMA BlockEnds ==
  ASSUME NEW tail \in Inserts
  PROVE  (/\ RingInv /\ EndBlock(tail)
          /\ path \notin {"between", "blocks"}
          /\ ring' = NewestFirst(decoder'.ring)
          /\ decoder' \in [ring : Rings, at : Nat]
          /\ decoder'.at = base + pos + tail
          /\ UNCHANGED <<view, last, recent, kept, stored, mark, copy>>)
         => RingInv'
<1> SUFFICES ASSUME RingInv, EndBlock(tail), path \notin {"between", "blocks"},
                    ring' = NewestFirst(decoder'.ring),
                    decoder' \in [ring : Rings, at : Nat],
                    decoder'.at = base + pos + tail,
                    UNCHANGED <<view, last, recent, kept, stored, mark, copy>>
             PROVE  RingInv'
  OBVIOUS
<1>1. /\ path' = "between" /\ base' = base + pos + tail /\ pos' = 0
      /\ base' \in Nat
  BY TypesHas, EncoderRingAssumption DEF EndBlock
<1>2. ring' \in Rings
  <2>1. decoder'.ring \in Rings
    OBVIOUS
  <2> QED BY <2>1, PushAgrees
<1>3. RingTypeOK'
  BY <1>1, <1>2 DEF RingInv, RingTypeOK, Paths
<1>4. stored' = NotStored
  BY DEF RingInv, Positions
<1>5. Positions'
  BY <1>1, <1>4 DEF Positions
<1>6. RingAdvances' /\ CollectorFollows' /\ CopiesDecode'
  BY <1>1 DEF RingInv, RingAdvances, CollectorFollows, CopiesDecode, Writers,
     Cached, Scanned
<1> QED BY <1>3, <1>5, <1>6 DEF RingInv

LEMMA FinishWriterInv ==
  ASSUME NEW tail \in Inserts
  PROVE  RingInv /\ FinishWriter(tail) => RingInv'
<1> SUFFICES ASSUME RingInv, FinishWriter(tail) PROVE RingInv'
  OBVIOUS
<1>1. /\ path \in Writers /\ decoder' = Skip(decoder, tail)
      /\ ring' = PushNewestFirst(ring, NewestRecent(recent))
  BY DEF FinishWriter, Writers, Cached
<1>2. /\ decoder' \in [ring : Rings, at : Nat] /\ decoder'.ring = decoder.ring
      /\ decoder'.at = decoder.at + tail
  BY <1>1, TypesHas, SkipHas, EncoderRingAssumption
<1>3. path \notin {"between", "blocks"}
  BY <1>1 DEF Writers, Cached
<1>4. decoder.at = base + pos
  BY <1>3 DEF RingInv, Positions
<1>5. ring' = NewestFirst(decoder'.ring)
  BY <1>1, <1>2 DEF RingInv, RingAdvances
<1> QED BY <1>2, <1>3, <1>4, <1>5, BlockEnds DEF FinishWriter

LEMMA FinishKeptInv ==
  ASSUME NEW tail \in Inserts
  PROVE  RingInv /\ FinishKept(tail) => RingInv'
<1> SUFFICES ASSUME RingInv, FinishKept(tail) PROVE RingInv'
  OBVIOUS
<1>1. /\ path \in Scanned /\ decoder' = Skip(decoder, tail)
      /\ ring' = PushNewestFirst(ring, NewestKept(kept))
  BY DEF FinishKept, Scanned
<1>2. /\ decoder' \in [ring : Rings, at : Nat] /\ decoder'.ring = decoder.ring
      /\ decoder'.at = decoder.at + tail
  BY <1>1, TypesHas, SkipHas, EncoderRingAssumption
<1>3. path \notin {"between", "blocks"}
  BY <1>1 DEF Scanned
<1>4. decoder.at = base + pos
  BY <1>3 DEF RingInv, Positions
<1>5. ring' = NewestFirst(decoder'.ring)
  BY <1>1, <1>2 DEF RingInv, RingAdvances
<1> QED BY <1>2, <1>3, <1>4, <1>5, BlockEnds DEF FinishKept

LEMMA FinishCommandsInv ==
  ASSUME NEW tail \in Inserts
  PROVE  RingInv /\ FinishCommands(tail) => RingInv'
<1> SUFFICES ASSUME RingInv, FinishCommands(tail) PROVE RingInv'
  OBVIOUS
<1>1. /\ path \in {"twoPass", "onePass"} /\ decoder' = Skip(decoder, tail)
      /\ ring' = view
  BY DEF FinishCommands
<1>2. /\ decoder' \in [ring : Rings, at : Nat] /\ decoder'.ring = decoder.ring
      /\ decoder'.at = decoder.at + tail
  BY <1>1, TypesHas, SkipHas, EncoderRingAssumption
<1>3. decoder.at = base + pos
  BY <1>1 DEF RingInv, Positions
<1>4. ring' = NewestFirst(decoder'.ring)
  BY <1>1, <1>2 DEF RingInv, CollectorFollows
<1> QED BY <1>1, <1>2, <1>3, <1>4, BlockEnds DEF FinishCommands

LEMMA StoreInsteadInv ==
  ASSUME NEW tail \in Inserts
  PROVE  RingInv /\ StoreInstead(tail) => RingInv'
<1> SUFFICES ASSUME RingInv, StoreInstead(tail) PROVE RingInv'
  OBVIOUS
<1>1. path = "onePass" /\ decoder' = Skip(mark, pos + tail) /\ ring' = ring
  BY DEF StoreInstead
<1>2. pos + tail \in Nat
  BY TypesHas, EncoderRingAssumption
<1>3. /\ decoder' \in [ring : Rings, at : Nat] /\ decoder'.ring = mark.ring
      /\ decoder'.at = mark.at + (pos + tail)
  BY <1>1, <1>2, TypesHas, SkipHas
<1>4. mark.at = base /\ ring = NewestFirst(mark.ring)
  BY <1>1 DEF RingInv, Positions, RingAdvances
<1>5. ring' = NewestFirst(decoder'.ring) /\ decoder'.at = base + pos + tail
  BY <1>1, <1>3, <1>4, TypesHas, EncoderRingAssumption
<1> QED BY <1>1, <1>3, <1>5, BlockEnds DEF StoreInstead

LEMMA StoreLaterInv ==
  ASSUME NEW len \in Inserts
  PROVE  RingInv /\ StoreLater(len) => RingInv'
<1> SUFFICES ASSUME RingInv, StoreLater(len) PROVE RingInv'
  OBVIOUS
<1>1. /\ path = "blocks" /\ path' = "blocks" /\ pos' = pos + len /\ len \in Nat
      /\ stored' = IF stored = NotStored THEN pos ELSE stored
      /\ UNCHANGED <<ring, view, last, recent, kept, base, decoder, mark, copy>>
  BY EncoderRingAssumption DEF StoreLater
<1>2. pos' \in Nat /\ stored' \in Nat \cup {NotStored} /\ stored' # NotStored
  BY <1>1, TypesHas DEF RingInv, RingTypeOK, NotStored
<1>3. RingTypeOK'
  BY <1>1, <1>2 DEF RingInv, RingTypeOK
<1>4. Positions'
  BY <1>1, <1>2, TypesHas DEF RingInv, RingTypeOK, Positions
<1>5. RingAdvances' /\ CollectorFollows' /\ CopiesDecode'
  BY <1>1 DEF RingInv, RingAdvances, CollectorFollows, CopiesDecode, Writers,
     Cached, Scanned
<1> QED BY <1>3, <1>4, <1>5 DEF RingInv

\* Writing what waits to be stored brings the decoder up to the position.
LEMMA StoredWritten ==
  RingInv /\ path = "blocks" =>
    /\ WriteStored \in [ring : Rings, at : Nat]
    /\ WriteStored.ring = decoder.ring /\ WriteStored.at = base + pos
<1> SUFFICES ASSUME RingInv, path = "blocks"
             PROVE  /\ WriteStored \in [ring : Rings, at : Nat]
                    /\ WriteStored.ring = decoder.ring
                    /\ WriteStored.at = base + pos
  OBVIOUS
<1>1. CASE stored = NotStored
  BY <1>1, TypesHas DEF RingInv, Positions, WriteStored
<1>2. CASE stored # NotStored
  <2>1. /\ stored \in Nat /\ base + stored = decoder.at /\ pos - stored \in Nat
    BY <1>2, TypesHas DEF RingInv, RingTypeOK, Positions
  <2>2. WriteStored = Skip(decoder, pos - stored)
    BY <1>2 DEF WriteStored
  <2>3. /\ WriteStored \in [ring : Rings, at : Nat]
        /\ WriteStored.ring = decoder.ring
        /\ WriteStored.at = decoder.at + (pos - stored)
    BY <2>1, <2>2, TypesHas, SkipHas
  <2> QED BY <2>1, <2>3, TypesHas
<1> QED BY <1>1, <1>2

LEMMA BeginLongBlockInv == RingInv /\ BeginLongBlock => RingInv'
<1> SUFFICES ASSUME RingInv, BeginLongBlock PROVE RingInv'
  OBVIOUS
<1>1. /\ path = "blocks" /\ path' = "block" /\ stored' = NotStored
      /\ view' = ring /\ decoder' = WriteStored /\ mark' = WriteStored
      /\ UNCHANGED <<ring, last, recent, kept, base, pos, copy>>
  BY DEF BeginLongBlock
<1>2. /\ decoder' \in [ring : Rings, at : Nat] /\ decoder'.ring = decoder.ring
      /\ decoder'.at = base + pos
  BY <1>1, StoredWritten
<1>3. RingTypeOK'
  BY <1>1, <1>2 DEF RingInv, RingTypeOK, Paths, Commands
<1>4. Positions'
  BY <1>1, <1>2, TypesHas DEF Positions
<1>5. RingAdvances' /\ CollectorFollows' /\ CopiesDecode'
  BY <1>1, <1>2 DEF RingInv, RingAdvances, CollectorFollows, CopiesDecode,
     Writers, Cached, Scanned
<1> QED BY <1>3, <1>4, <1>5 DEF RingInv

LEMMA FinishLongBlockInv ==
  ASSUME NEW tail \in Inserts
  PROVE  RingInv /\ FinishLongBlock(tail) => RingInv'
<1> SUFFICES ASSUME RingInv, FinishLongBlock(tail) PROVE RingInv'
  OBVIOUS
<1>1. /\ path = "block" /\ path' = "blocks" /\ pos' = pos + tail /\ ring' = view
      /\ decoder' = Skip(decoder, tail) /\ tail \in Nat
      /\ UNCHANGED <<view, last, recent, kept, base, stored, mark, copy>>
  BY EncoderRingAssumption DEF FinishLongBlock
<1>2. /\ decoder' \in [ring : Rings, at : Nat] /\ decoder'.ring = decoder.ring
      /\ decoder'.at = decoder.at + tail /\ pos' \in Nat
  <2>1. /\ decoder' \in [ring : Rings, at : Nat]
        /\ decoder'.ring = decoder.ring /\ decoder'.at = decoder.at + tail
    BY <1>1, TypesHas, SkipHas
  <2>2. pos' \in Nat
    BY <1>1, TypesHas
  <2> QED BY <2>1, <2>2
<1>3. RingTypeOK'
  BY <1>1, <1>2 DEF RingInv, RingTypeOK, Paths
<1>4. Positions'
  BY <1>1, <1>2, TypesHas DEF RingInv, Positions
<1>5. RingAdvances' /\ CollectorFollows' /\ CopiesDecode'
  BY <1>1, <1>2 DEF RingInv, RingAdvances, CollectorFollows, CopiesDecode,
     Writers, Cached, Scanned
<1> QED BY <1>3, <1>4, <1>5 DEF RingInv

LEMMA RewindLongBlockInv ==
  ASSUME NEW tail \in Inserts
  PROVE  RingInv /\ RewindLongBlock(tail) => RingInv'
<1> SUFFICES ASSUME RingInv, RewindLongBlock(tail) PROVE RingInv'
  OBVIOUS
<1>1. /\ path = "block" /\ path' = "blocks" /\ pos' = pos + tail
      /\ decoder' = mark /\ stored' = mark.at - base /\ tail \in Nat
      /\ UNCHANGED <<ring, view, last, recent, kept, base, mark, copy>>
  BY EncoderRingAssumption DEF RewindLongBlock
<1>2. /\ mark.at \in base .. base + pos /\ ring = NewestFirst(mark.ring)
  BY <1>1 DEF RingInv, Positions, RingAdvances
<1>3. pos' \in Nat /\ stored' \in Nat /\ stored' <= pos' /\ base + stored' = mark.at
  BY <1>1, <1>2, TypesHas
<1>4. RingTypeOK'
  BY <1>1, <1>3, TypesHas DEF RingInv, RingTypeOK, Paths
<1>5. Positions'
  BY <1>1, <1>3 DEF Positions, NotStored
<1>6. RingAdvances' /\ CollectorFollows' /\ CopiesDecode'
  BY <1>1, <1>2 DEF RingInv, RingAdvances, CollectorFollows, CopiesDecode,
     Writers, Cached, Scanned
<1> QED BY <1>4, <1>5, <1>6 DEF RingInv

LEMMA FinishLongInv == RingInv /\ FinishLong => RingInv'
<1> SUFFICES ASSUME RingInv, FinishLong PROVE RingInv'
  OBVIOUS
<1>1. /\ path = "blocks" /\ path' = "between" /\ base' = base + pos + 0 /\ pos' = 0
      /\ decoder' = WriteStored /\ stored' = NotStored
      /\ UNCHANGED <<ring, view, last, recent, kept, mark, copy>>
  BY DEF FinishLong, EndBlock
<1>2. /\ decoder' \in [ring : Rings, at : Nat] /\ decoder'.ring = decoder.ring
      /\ decoder'.at = base + pos /\ base' = base + pos /\ base' \in Nat
  BY <1>1, StoredWritten, TypesHas
<1>3. RingTypeOK'
  BY <1>1, <1>2 DEF RingInv, RingTypeOK, Paths
<1>4. Positions'
  BY <1>1, <1>2 DEF Positions
<1>5. RingAdvances' /\ CollectorFollows' /\ CopiesDecode'
  BY <1>1, <1>2 DEF RingInv, RingAdvances, CollectorFollows, CopiesDecode,
     Writers, Cached, Scanned
<1> QED BY <1>3, <1>4, <1>5 DEF RingInv

LEMMA NextInv == RingInv /\ [Next]_vars => RingInv'
<1> SUFFICES ASSUME RingInv, [Next]_vars PROVE RingInv'
  OBVIOUS
<1>1. ASSUME NEW p \in {"global", "local", "long", "sparse", "batch", "twoPass",
                        "onePass", "blocks"}, Begin(p)
      PROVE  RingInv'
  BY <1>1, BeginInv
<1>2. ASSUME NEW len \in Inserts, WriteLiterals(len) \/ StoreLater(len)
      PROVE  RingInv'
  BY <1>2, LiteralsInv, StoreLaterInv
<1>3. ASSUME NEW insert \in Inserts, NEW distance \in Distances,
             \/ \E source \in {"output", "word"} :
                  CollectCached(insert, distance, source)
             \/ CollectLong(insert, distance)
             \/ CollectSparse(insert, distance)
             \/ CollectBatch(insert, distance)
             \/ WriteCommand(insert, distance)
      PROVE  RingInv'
  BY <1>3, CachedInv, LongInv, SparseInv, BatchInv, CommandInv
<1>4. ASSUME NEW tail \in Inserts,
             \/ FinishWriter(tail) \/ FinishKept(tail) \/ FinishCommands(tail)
             \/ StoreInstead(tail)
             \/ FinishLongBlock(tail) \/ RewindLongBlock(tail)
      PROVE  RingInv'
  BY <1>4, FinishWriterInv, FinishKeptInv, FinishCommandsInv, StoreInsteadInv,
     FinishLongBlockInv, RewindLongBlockInv
<1>5. CASE BeginLongBlock \/ FinishLong
  BY <1>5, BeginLongBlockInv, FinishLongInv
<1>6. CASE UNCHANGED vars
  BY <1>6 DEF vars, RingInv, RingTypeOK, Positions, RingAdvances,
     CollectorFollows, CopiesDecode
<1> QED BY <1>1, <1>2, <1>3, <1>4, <1>5, <1>6 DEF Next

(***************************************************************************)
(* The theorems.                                                           *)
(***************************************************************************)

\* The invariant holds throughout, with its types.
THEOREM RingInvariant == Spec => []RingInv
<1> QED BY InitInv, NextInv, PTL DEF Spec

\* Every copy decodes to the position, distance and source it was collected
\* at, for every window and all distances, whatever the meta-blocks before
\* it were written by.
THEOREM CopiesDecodeAlways == Spec => []CopiesDecode
<1>1. RingInv => CopiesDecode
  BY DEF RingInv
<1> QED BY <1>1, RingInvariant, PTL

\* Between meta-blocks the encoder's ring and position are the decoder's.
THEOREM RingCarriedAlways == Spec => []RingCarried
<1>1. RingInv => RingCarried
  <2> SUFFICES ASSUME RingInv, path = "between"
               PROVE  ring = NewestFirst(decoder.ring) /\ base = decoder.at
    BY DEF RingCarried
  <2>1. base + pos = decoder.at /\ pos = 0 /\ ring = NewestFirst(decoder.ring)
    BY DEF RingInv, Positions, RingAdvances
  <2> QED BY <2>1, TypesHas
<1> QED BY <1>1, RingInvariant, PTL

\* In a meta-block, what symbols are picked by is what the decoder has.
THEOREM CollectorFollowsAlways == Spec => []CollectorFollows
<1>1. RingInv => CollectorFollows
  BY DEF RingInv
<1> QED BY <1>1, RingInvariant, PTL
=============================================================================
