--------------------------- MODULE BitReaderProofs ---------------------------
(***************************************************************************)
(* BitReader for every input and all widths up to 56: BufferTrue is        *)
(* inductive, and each operation is the cursor's.                          *)
(***************************************************************************)
EXTENDS BitReader, TLAPS

(***************************************************************************)
(* BufferTrue of a buffer b with count c and n bytes loaded, apart from    *)
(* the state, so that an operation can be followed through a refill.       *)
(***************************************************************************)
True(b, c, n) ==
  /\ n \in 0 .. input.len
  /\ c \in 0 .. 63
  /\ c <= 8 * n
  /\ b \in [0 .. 63 -> {0, 1}]
  /\ \A i \in 0 .. 63 : b[i] = 1 => BitAt(input, 8 * n - c + i) = 1
  /\ \A i \in 0 .. 63 : i < c => b[i] = BitAt(input, 8 * n - c + i)

Good(r) == True(r.buffer, r.count, r.next)
At(r) == 8 * r.next - r.count

\* An input is a byte string.
LEMMA InputType ==
  ASSUME input \in Inputs
  PROVE  /\ input.len \in Nat
         /\ input.bit \in [0 .. 8 * input.len - 1 -> {0, 1}]
         /\ \A p \in Nat : BitAt(input, p) \in {0, 1}
         /\ \A p \in Nat : p < 8 * input.len => BitAt(input, p) = input.bit[p]
  BY ReaderAssumption DEF BitAt

\* The state's buffer is a buffer.
LEMMA BufferedGood ==
  ASSUME BufferTrue
  PROVE  Good(Buffered) /\ At(Buffered) = Pos /\ Buffered.count = bit_count
  BY DEF BufferTrue, TypeOK, Good, True, At, Buffered, Pos

\* A refill of `width` bits that counts up to c, with n bytes loaded: it
\* stands where it did, and what it ORs of the word is in the input.
Counts(width, c, n) ==
  /\ 8 * n - c = 8 * next - bit_count
  /\ c >= bit_count /\ c <= bit_count + width
  /\ \/ 8 * next + width <= 8 * input.len
     \/ 8 * next + 64 - bit_count <= 8 * input.len

\* ORing bits of the rest over the buffer keeps it true, however many are
\* counted.
LEMMA OrTrue ==
  ASSUME BufferTrue, NEW width \in 0 .. 64, NEW c \in 0 .. 63, NEW n \in 0 .. input.len,
         Counts(width, c, n)
  PROVE  True(OrRest(width), c, n)
<1> DEFINE b == OrRest(width)
<1>a. /\ next \in 0 .. input.len /\ bit_count \in 0 .. 63 /\ bit_count <= 8 * next
  BY DEF BufferTrue, TypeOK
<1>g. input \in Inputs /\ buffer \in [0 .. 63 -> {0, 1}]
  BY DEF BufferTrue, TypeOK
<1>b. input.len \in Nat
  BY <1>g, InputType
<1>h. input.bit \in [0 .. 8 * input.len - 1 -> {0, 1}]
  BY <1>g, InputType
<1>c. /\ next \in Nat /\ bit_count \in Nat /\ Pos \in Nat /\ bit_count <= 63
      /\ Pos + bit_count = 8 * next
  <2>1. next \in Nat /\ bit_count \in Nat /\ bit_count <= 63
    BY <1>a, <1>b
  <2>2. Pos = 8 * next - bit_count
    BY DEF Pos
  <2> QED BY <2>1, <2>2, <1>a
<1>d. c <= 8 * n /\ 8 * n - c = Pos
  <2>1. 8 * n - c = 8 * next - bit_count
    BY DEF Counts
  <2>2. n \in Nat
    BY <1>b
  <2> QED BY <2>1, <2>2, <1>c
<1>1. /\ input.len \in Nat /\ next \in Nat /\ bit_count \in Nat
      /\ input.bit \in [0 .. 8 * input.len - 1 -> {0, 1}]
      /\ buffer \in [0 .. 63 -> {0, 1}]
      /\ Pos \in Nat /\ bit_count <= 63 /\ Pos + bit_count = 8 * next
      /\ c <= 8 * n
  BY <1>b, <1>c, <1>d, <1>g, <1>h
<1>2. ASSUME NEW i \in 0 .. 63
      PROVE  /\ b[i] \in {0, 1}
             /\ b[i] = 1 => BitAt(input, Pos + i) = 1
             /\ i < bit_count + width => b[i] = BitAt(input, Pos + i)
  <2>1. buffer[i] = 1 => BitAt(input, Pos + i) = 1
    BY DEF BufferTrue
  <2>2. buffer[i] \in {0, 1}
    BY <1>1
  <2>3. CASE i < bit_count
    <3>1. b[i] = buffer[i]
      BY <2>3, <1>1 DEF OrRest
    <3>2. buffer[i] = BitAt(input, Pos + i)
      BY <2>3 DEF BufferTrue
    <3> QED BY <3>1, <3>2, <2>1, <2>2
  <2>4. CASE i >= bit_count /\ i - bit_count < width
    <3> DEFINE p == 8 * next + i - bit_count
    <3>1. p \in 0 .. 8 * input.len - 1 /\ p = Pos + i
      BY <2>4, <1>b, <1>c DEF Counts
    <3> HIDE DEF p
    <3>b. BitAt(input, p) = input.bit[p]
      BY <3>1, <1>b, <1>h DEF BitAt
    <3>2. BitAt(input, Pos + i) = input.bit[p] /\ input.bit[p] \in {0, 1}
      BY <3>1, <3>b, <1>h
    <3>3. b[i] = Or(buffer[i], input.bit[p])
      BY <2>4 DEF OrRest, p
    <3> QED BY <3>2, <3>3, <2>1, <2>2 DEF Or
  <2>5. CASE i >= bit_count /\ ~(i - bit_count < width)
    <3>1. b[i] = buffer[i]
      BY <2>5, <1>1 DEF OrRest
    <3>2. ~(i < bit_count + width)
      BY <2>5, <1>c
    <3> QED BY <3>1, <3>2, <2>1, <2>2
  <2>6. i < bit_count \/ (i >= bit_count /\ (i - bit_count < width \/ ~(i - bit_count < width)))
    BY <1>c
  <2> QED BY <2>3, <2>4, <2>5, <2>6
<1>3. b \in [0 .. 63 -> {0, 1}]
  BY <1>2, <1>1 DEF OrRest
<1> HIDE DEF b
<1>e. c <= bit_count + width
  BY DEF Counts
<1>f. ASSUME NEW i \in 0 .. 63, i < c PROVE i < bit_count + width
  BY <1>e, <1>f, <1>c
<1>4. \A i \in 0 .. 63 : i < c => b[i] = BitAt(input, 8 * n - c + i)
  BY <1>2, <1>d, <1>f
<1>5. \A i \in 0 .. 63 : b[i] = 1 => BitAt(input, 8 * n - c + i) = 1
  BY <1>2, <1>d
<1> QED BY <1>1, <1>3, <1>4, <1>5 DEF True, b

\* refill: the buffer stays true and stands at the position, and holds 56
\* bits or all that remain.
THEOREM RefillTrue ==
  ASSUME BufferTrue
  PROVE  /\ Good(Refilled)
         /\ At(Refilled) = Pos
         /\ Refilled.count >= 56 \/ 8 * input.len <= Pos + Refilled.count
<1>1. /\ input.len \in Nat /\ next \in 0 .. input.len /\ bit_count \in 0 .. 63
      /\ Pos = 8 * next - bit_count
  BY InputType DEF BufferTrue, TypeOK, Pos
<1>2. CASE Rest >= 8
  <2> DEFINE c == 56 + (bit_count % 8)
             n == next + Room
  <2>1. c \in 0 .. 63 /\ n \in 0 .. input.len /\ 8 * n - c = Pos /\ c >= bit_count
    BY <1>1, <1>2 DEF Rest, Room
  <2>2. True(OrRest(64), c, n)
    <3>1. Counts(64, c, n)
      BY <1>1, <1>2, <2>1 DEF Rest, Counts
    <3> HIDE DEF c, n
    <3>2. 64 \in 0 .. 64
      OBVIOUS
    <3> QED BY <3>1, <3>2, <2>1, OrTrue
  <2>3. Refilled = [buffer |-> OrRest(64), count |-> c, next |-> n]
    BY <1>2 DEF Refilled, WordRefill
  <2> HIDE DEF c, n
  <2>4. c >= 56
    BY <1>1 DEF c
  <2> QED BY <2>1, <2>2, <2>3, <2>4 DEF Good, At
<1>3. CASE ~(Rest >= 8)
  <2> DEFINE taken == Lesser(Rest, Room)
             c == bit_count + 8 * taken
             n == next + taken
  <2>a. /\ taken \in 0 .. 7 /\ next + taken <= input.len
        /\ taken = Room \/ next + taken = input.len
    BY <1>1, <1>3 DEF Rest, Room, Lesser
  <2>b. bit_count + 8 * taken <= 63 /\ (taken = Room => bit_count + 8 * taken >= 56)
    BY <1>1, <1>3 DEF Rest, Room, Lesser
  <2>1. /\ taken \in 0 .. 7 /\ c \in 0 .. 63 /\ n \in 0 .. input.len
        /\ 8 * n - c = Pos /\ c >= bit_count
        /\ c >= 56 \/ n = input.len
    <3> HIDE DEF taken
    <3> QED BY <2>a, <2>b, <1>1
  <2>2. True(OrRest(8 * taken), c, n)
    <3>1. 8 * taken \in 0 .. 64 /\ Counts(8 * taken, c, n)
      <4> HIDE DEF taken
      <4> QED BY <1>1, <2>1 DEF Counts
    <3> HIDE DEF taken, c, n
    <3> QED BY <3>1, <2>1, OrTrue
  <2>3. Refilled = [buffer |-> OrRest(8 * taken), count |-> c, next |-> n]
    BY <1>3 DEF Refilled, TailRefill
  <2> HIDE DEF taken, c, n
  <2> QED BY <2>1, <2>2, <2>3, <1>1 DEF Good, At
<1> QED BY <1>2, <1>3

\* fill(w): the same, when it refills and when it need not.
LEMMA FilledTrue ==
  ASSUME BufferTrue, NEW w \in 0 .. 56
  PROVE  /\ Good(Filled(w))
         /\ At(Filled(w)) = Pos
         /\ Filled(w).count >= w \/ 8 * input.len <= Pos + Filled(w).count
<1>1. CASE bit_count < w
  <2>1. Filled(w) = Refilled
    BY <1>1 DEF Filled
  <2>2. Refilled.count \in Nat
    BY RefillTrue DEF Good, True
  <2> QED BY <2>1, <2>2, RefillTrue
<1>2. CASE ~(bit_count < w)
  <2>1. Filled(w) = Buffered
    BY <1>2 DEF Filled
  <2>2. bit_count \in Nat
    BY DEF BufferTrue, TypeOK
  <2> QED BY <2>1, <2>2, <1>2, BufferedGood
<1> QED BY <1>1, <1>2

\* Shifting a buffer out keeps it true, w bits on.
Shifted(b, w) == [i \in 0 .. 63 |-> IF i + w <= 63 THEN b[i + w] ELSE 0]

LEMMA ShiftTrue ==
  ASSUME input \in Inputs, NEW b, NEW c, NEW n, True(b, c, n), NEW w \in 0 .. 63, w <= c
  PROVE  True(Shifted(b, w), c - w, n)
<1>1. /\ c \in 0 .. 63 /\ n \in 0 .. input.len /\ c <= 8 * n
      /\ b \in [0 .. 63 -> {0, 1}]
  BY DEF True
<1>2. input.len \in Nat
  BY InputType
<1>3. c - w \in 0 .. 63 /\ c - w <= 8 * n
  BY <1>1, <1>2
<1>4. Shifted(b, w) \in [0 .. 63 -> {0, 1}]
  BY <1>1 DEF Shifted
<1>5. ASSUME NEW i \in 0 .. 63
      PROVE  /\ Shifted(b, w)[i] = 1 => BitAt(input, 8 * n - (c - w) + i) = 1
             /\ i < c - w => Shifted(b, w)[i] = BitAt(input, 8 * n - (c - w) + i)
  <2>1. CASE i + w <= 63
    <3>1. Shifted(b, w)[i] = b[i + w] /\ i + w \in 0 .. 63
      BY <2>1 DEF Shifted
    <3>2. 8 * n - (c - w) + i = 8 * n - c + (i + w)
      BY <1>1, <1>2
    <3>3. /\ b[i + w] = 1 => BitAt(input, 8 * n - c + (i + w)) = 1
          /\ i + w < c => b[i + w] = BitAt(input, 8 * n - c + (i + w))
      BY <3>1 DEF True
    <3>4. i < c - w => i + w < c
      BY <1>1
    <3> QED BY <3>1, <3>2, <3>3, <3>4
  <2>2. CASE ~(i + w <= 63)
    <3>1. Shifted(b, w)[i] = 0 
      BY <2>2 DEF Shifted
    <3>2. ~(i < c - w)
      BY <2>2, <1>1
    <3> QED BY <3>1, <3>2
  <2> QED BY <2>1, <2>2
<1> QED BY <1>1, <1>3, <1>4, <1>5 DEF True

\* consume, of a buffer with its count.
LEMMA ConsumedTrue ==
  ASSUME input \in Inputs, NEW r, Good(r), NEW w \in 0 .. 63, w <= r.count
  PROVE  Good(Consumed(r, w)) /\ At(Consumed(r, w)) = At(r) + w
<1>1. True(Shifted(r.buffer, w), r.count - w, r.next)
  BY ShiftTrue DEF Good
<1>2. Consumed(r, w) = [buffer |-> Shifted(r.buffer, w), count |-> r.count - w,
                        next |-> r.next]
  BY DEF Consumed, Shifted
<1>3. r.count \in Int /\ r.next \in Int
  <2>1. input.len \in Nat
    BY InputType
  <2> QED BY <2>1 DEF Good, True
<1>4. Good(Consumed(r, w))
  BY <1>1, <1>2 DEF Good
<1>5. At(Consumed(r, w)) = 8 * r.next - (r.count - w)
  BY <1>2 DEF At
<1> QED BY <1>3, <1>4, <1>5 DEF At

\* An empty buffer is true.
LEMMA EmptiedTrue ==
  ASSUME input \in Inputs, NEW n \in 0 .. input.len
  PROVE  Good(Emptied(n)) /\ At(Emptied(n)) = 8 * n
<1>1. input.len \in Nat
  BY InputType
<1> QED BY <1>1 DEF Good, True, Emptied, Zero, At

\* Fields are read from a true buffer, up to its count, or to 56 bits and
\* past the end.
LEMMA FieldRead ==
  ASSUME input \in Inputs, NEW r, Good(r), NEW w \in 0 .. 56,
         r.count >= w \/ 8 * input.len <= At(r) + r.count
  PROVE  Low(r.buffer, w) = Cursor!Field(input, At(r), w)
<1>1. /\ r.count \in 0 .. 63 /\ r.next \in 0 .. input.len /\ r.count <= 8 * r.next
      /\ r.buffer \in [0 .. 63 -> {0, 1}] /\ input.len \in Nat
  BY InputType DEF Good, True
<1>2. ASSUME NEW i \in 0 .. w - 1
      PROVE  r.buffer[i] = BitAt(input, At(r) + i)
  <2>1. i \in 0 .. 63
    OBVIOUS
  <2>2. CASE i < r.count
    BY <2>1, <2>2 DEF Good, True, At
  <2>3. CASE ~(i < r.count)
    <3>1. At(r) + i >= 8 * input.len
      BY <2>3, <1>1 DEF At
    <3>2. BitAt(input, At(r) + i) = 0
      BY <3>1, <1>1 DEF BitAt, At
    <3>3. r.buffer[i] # 1
      BY <2>1, <3>2 DEF Good, True, At
    <3> QED BY <3>2, <3>3, <2>1, <1>1
  <2> QED BY <2>2, <2>3, <1>1
<1>3. \A i \in 0 .. w - 1 : Cursor!BitAt(input, At(r) + i) = BitAt(input, At(r) + i)
  BY DEF Cursor!BitAt, Cursor!TotalBits, BitAt
<1> QED BY <1>2, <1>3 DEF Low, Cursor!Field

\* A state that takes a true buffer is true.
LEMMA BecomeTrue ==
  ASSUME NEW r, Good(r), Become(r), input \in Inputs, UNCHANGED input
  PROVE  BufferTrue' /\ Pos' = At(r)
<1>1. buffer' = r.buffer /\ bit_count' = r.count /\ next' = r.next /\ input' = input
  BY DEF Become
<1>2. TypeOK'
  BY <1>1 DEF Good, True, TypeOK
<1>3. Pos' = At(r)
  BY <1>1 DEF Pos, At
<1>4. ASSUME NEW i \in 0 .. 63
      PROVE  (buffer[i] = 1 => BitAt(input, Pos + i) = 1)'
  <2>1. r.buffer[i] = 1 => BitAt(input, 8 * r.next - r.count + i) = 1
    BY DEF Good, True
  <2> QED BY <1>1, <2>1 DEF Pos
<1>5. ASSUME NEW i \in 0 .. 63
      PROVE  (i < bit_count => buffer[i] = BitAt(input, Pos + i))'
  <2>1. i < r.count => r.buffer[i] = BitAt(input, 8 * r.next - r.count + i)
    BY DEF Good, True
  <2> QED BY <1>1, <2>1 DEF Pos
<1> QED BY <1>2, <1>3, <1>4, <1>5 DEF BufferTrue

(***************************************************************************)
(* Each operation keeps BufferTrue and is the cursor's.                    *)
(***************************************************************************)
\* Results are the cursor's.
LEMMA SameResults ==
  /\ Fails = Cursor!Fails
  /\ Ok(Nothing) = Cursor!Ok(Cursor!Nothing)
  /\ \A bits : Ok(bits) = Cursor!Ok(bits)
  BY DEF Fails, Ok, Nothing, Cursor!Fails, Cursor!Ok, Cursor!Nothing

\* A refilled buffer holds w bits exactly when the input does.
LEMMA FilledHas ==
  ASSUME BufferTrue, NEW w \in 0 .. 56
  PROVE  /\ Filled(w).count \in 0 .. 63
         /\ Filled(w).count >= w <=> Cursor!Has(w)
<1> DEFINE r == Filled(w)
<1>1. Good(r) /\ At(r) = Pos /\ (r.count >= w \/ 8 * input.len <= Pos + r.count)
  BY FilledTrue
<1>2. input.len \in Nat
  BY InputType DEF BufferTrue, TypeOK
<1>3. r.count \in 0 .. 63 /\ r.next \in 0 .. input.len /\ r.count <= 8 * r.next
  BY <1>1 DEF Good, True
<1>4. Pos = 8 * r.next - r.count
  BY <1>1 DEF At
<1> HIDE DEF r
<1>5. r.count >= w <=> Pos + w <= 8 * input.len
  BY <1>1, <1>2, <1>3, <1>4
<1> QED BY <1>3, <1>5 DEF Cursor!Has, Cursor!TotalBits, r

\* read_bits
LEMMA ReadStep ==
  ASSUME BufferTrue, NEW w \in 0 .. 56, Read(w)
  PROVE  BufferTrue' /\ Cursor!Read(w)
<1> DEFINE r == Filled(w)
<1>1. Good(r) /\ At(r) = Pos /\ (r.count >= w \/ 8 * input.len <= Pos + r.count)
  BY FilledTrue
<1>2. r.count \in 0 .. 63 /\ (r.count >= w <=> Cursor!Has(w))
  BY FilledHas
<1>3. input \in Inputs /\ input' = input
  BY DEF BufferTrue, TypeOK, Read
<1>4. /\ r.count < w => Become(r) /\ result' = Fails
      /\ ~(r.count < w) => Become(Consumed(r, w)) /\ result' = Ok(Low(r.buffer, w))
  BY DEF Read
<1> HIDE DEF r
<1>5. CASE r.count < w
  <2>1. BufferTrue' /\ Pos' = Pos
    BY <1>1, <1>3, <1>4, <1>5, BecomeTrue
  <2>2. ~Cursor!Has(w)
    BY <1>2, <1>5
  <2> QED BY <2>1, <2>2, <1>4, <1>5, SameResults DEF Cursor!Read
<1>6. CASE ~(r.count < w)
  <2>1. w <= r.count /\ w \in 0 .. 63
    BY <1>2, <1>6
  <2>2. Good(Consumed(r, w)) /\ At(Consumed(r, w)) = Pos + w
    BY <1>1, <1>3, <2>1, ConsumedTrue
  <2>3. BufferTrue' /\ Pos' = Pos + w
    BY <1>3, <1>4, <1>6, <2>2, BecomeTrue
  <2>4. Low(r.buffer, w) = Cursor!Field(input, Pos, w)
    BY <1>1, <1>3, FieldRead
  <2>5. Cursor!Has(w)
    BY <1>2, <2>1
  <2> QED BY <2>3, <2>4, <2>5, <1>4, <1>6, SameResults DEF Cursor!Read
<1> QED BY <1>5, <1>6

\* drop_bits
LEMMA DropStep ==
  ASSUME BufferTrue, NEW w \in 0 .. 56, Drop(w)
  PROVE  BufferTrue' /\ Cursor!Drop(w)
<1> DEFINE r == Filled(w)
<1>1. Good(r) /\ At(r) = Pos
  BY FilledTrue
<1>2. r.count \in 0 .. 63 /\ (r.count >= w <=> Cursor!Has(w))
  BY FilledHas
<1>3. input \in Inputs /\ input' = input
  BY DEF BufferTrue, TypeOK, Drop
<1>4. /\ r.count < w => Become(r) /\ result' = Fails
      /\ ~(r.count < w) => Become(Consumed(r, w)) /\ result' = Ok(Nothing)
  BY DEF Drop
<1> HIDE DEF r
<1>5. CASE r.count < w
  <2>1. BufferTrue' /\ Pos' = Pos
    BY <1>1, <1>3, <1>4, <1>5, BecomeTrue
  <2>2. ~Cursor!Has(w)
    BY <1>2, <1>5
  <2> QED BY <2>1, <2>2, <1>4, <1>5, SameResults DEF Cursor!Drop
<1>6. CASE ~(r.count < w)
  <2>1. w <= r.count /\ w \in 0 .. 63
    BY <1>2, <1>6
  <2>2. Good(Consumed(r, w)) /\ At(Consumed(r, w)) = Pos + w
    BY <1>1, <1>3, <2>1, ConsumedTrue
  <2>3. BufferTrue' /\ Pos' = Pos + w
    BY <1>3, <1>4, <1>6, <2>2, BecomeTrue
  <2>4. Cursor!Has(w)
    BY <1>2, <2>1
  <2> QED BY <2>3, <2>4, <1>4, <1>6, SameResults DEF Cursor!Drop
<1> QED BY <1>5, <1>6

\* peek_bits reads the same, from the buffer or past it.
LEMMA PeekStep ==
  ASSUME BufferTrue, NEW w \in 0 .. 56, Peek(w)
  PROVE  BufferTrue' /\ Cursor!Peek(w)
<1>1. /\ input' = input /\ next' = next /\ buffer' = buffer /\ bit_count' = bit_count
      /\ input \in Inputs
  BY DEF Peek, BufferTrue, TypeOK
<1>2. BufferTrue' /\ Pos' = Pos
  BY <1>1 DEF BufferTrue, TypeOK, Pos, BitAt
<1>3. input.len \in Nat
  BY <1>1, InputType
<1>4. /\ next \in 0 .. input.len /\ bit_count \in 0 .. 63 /\ bit_count <= 8 * next
      /\ Pos = 8 * next - bit_count
  BY DEF BufferTrue, TypeOK, Pos
<1>5. RemainingBits < w <=> ~Cursor!Has(w)
  <2>a. next \in Int /\ bit_count \in Int /\ Pos = 8 * next - bit_count
    BY <1>3, <1>4
  <2>b. RemainingBits = 8 * (input.len - next) + bit_count
    BY DEF RemainingBits, Rest
  <2>1. RemainingBits = 8 * input.len - Pos
    BY <1>3, <2>a, <2>b
  <2> QED BY <2>1, <1>3, <1>4 DEF Cursor!Has, Cursor!TotalBits
<1>6. CASE RemainingBits < w
  BY <1>2, <1>5, <1>6, SameResults DEF Peek, Cursor!Peek
<1>7. CASE ~(RemainingBits < w) /\ bit_count >= w
  <2>1. Low(buffer, w) = Cursor!Field(input, Pos, w)
    <3>1. Good(Buffered) /\ At(Buffered) = Pos /\ Buffered.count >= w
      BY <1>7, BufferedGood
    <3>2. Low(Buffered.buffer, w) = Cursor!Field(input, Pos, w)
      BY <3>1, <1>1, FieldRead
    <3> QED BY <3>2 DEF Buffered
  <2>2. result' = Ok(Low(buffer, w))
    BY <1>7 DEF Peek
  <2> QED BY <2>1, <2>2, <1>2, <1>5, <1>7, SameResults DEF Cursor!Peek
<1>8. CASE ~(RemainingBits < w) /\ ~(bit_count >= w)
  <2>1. Pos + w <= 8 * input.len
    BY <1>5, <1>8 DEF Cursor!Has, Cursor!TotalBits
  <2>2. ASSUME NEW i \in 0 .. w - 1
        PROVE  Unbuffered(w)[i] = BitAt(input, Pos + i)
    <3>1. CASE i < bit_count
      <4>1. i \in 0 .. 63 /\ Unbuffered(w)[i] = buffer[i]
        BY <3>1, <1>4 DEF Unbuffered
      <4> QED BY <3>1, <4>1 DEF BufferTrue
    <3>2. CASE ~(i < bit_count)
      <4>1. Unbuffered(w)[i] = input.bit[8 * next + i - bit_count]
        BY <3>2 DEF Unbuffered
      <4>2. 8 * next + i - bit_count = Pos + i /\ Pos + i < 8 * input.len
        BY <1>3, <1>4, <2>1
      <4>3. BitAt(input, Pos + i) = input.bit[Pos + i]
        BY <4>2 DEF BitAt
      <4> QED BY <4>1, <4>2, <4>3
    <3> QED BY <3>1, <3>2
  <2>3. \A i \in 0 .. w - 1 : Cursor!BitAt(input, Pos + i) = BitAt(input, Pos + i)
    BY DEF Cursor!BitAt, Cursor!TotalBits, BitAt
  <2>4. Unbuffered(w) = Cursor!Field(input, Pos, w)
    BY <2>2, <2>3 DEF Unbuffered, Cursor!Field
  <2>5. result' = Ok(Unbuffered(w))
    BY <1>8 DEF Peek
  <2> QED BY <2>4, <2>5, <1>2, <1>5, <1>8, SameResults DEF Cursor!Peek
<1> QED BY <1>6, <1>7, <1>8

\* peek_bits_padded
LEMMA PeekPaddedStep ==
  ASSUME BufferTrue, PeekPadded
  PROVE  BufferTrue' /\ Cursor!PeekPadded
<1> DEFINE r == Filled(56)
<1>1. Good(r) /\ At(r) = Pos /\ (r.count >= 56 \/ 8 * input.len <= Pos + r.count)
  BY FilledTrue
<1>2. Become(r) /\ result' = Ok(Low(r.buffer, 56)) /\ input' = input /\ input \in Inputs
  BY DEF PeekPadded, BufferTrue, TypeOK
<1> HIDE DEF r
<1>3. BufferTrue' /\ Pos' = Pos
  BY <1>1, <1>2, BecomeTrue
<1>4. Low(r.buffer, 56) = Cursor!Field(input, Pos, 56)
  BY <1>1, <1>2, FieldRead
<1> QED BY <1>2, <1>3, <1>4, SameResults DEF Cursor!PeekPadded

\* fill does not show.
LEMMA FillStep ==
  ASSUME BufferTrue, NEW w \in 0 .. 56, Fill(w)
  PROVE  BufferTrue' /\ UNCHANGED <<input, Pos, result>>
<1>1. Good(Filled(w)) /\ At(Filled(w)) = Pos
  BY FilledTrue
<1>2. Become(Filled(w)) /\ input' = input /\ result' = result /\ input \in Inputs
  BY DEF Fill, BufferTrue, TypeOK
<1> QED BY <1>1, <1>2, BecomeTrue

\* Consuming w buffered bits moves the position by w.
LEMMA ConsumeStep ==
  ASSUME BufferTrue, NEW w \in 0 .. 63, w <= bit_count, UNCHANGED input,
         Become(Consumed(Buffered, w))
  PROVE  BufferTrue' /\ Pos' = Pos + w /\ Pos + w <= 8 * input.len
<1>1. Good(Buffered) /\ At(Buffered) = Pos /\ Buffered.count = bit_count
  BY BufferedGood
<1>2. input \in Inputs
  BY DEF BufferTrue, TypeOK
<1>3. Good(Consumed(Buffered, w)) /\ At(Consumed(Buffered, w)) = Pos + w
  BY <1>1, <1>2, ConsumedTrue
<1>4. BufferTrue' /\ Pos' = Pos + w
  BY <1>2, <1>3, BecomeTrue
<1>5. input.len \in Nat
  BY <1>2, InputType
<1>6. Pos + w <= 8 * input.len
  BY <1>5 DEF Pos, BufferTrue, TypeOK
<1> QED BY <1>4, <1>6

\* drop_bits_trusted
LEMMA DropTrustedStep ==
  ASSUME BufferTrue, NEW w \in 0 .. 56, DropTrusted(w)
  PROVE  BufferTrue' /\ Cursor!Drop(w)
<1>1. /\ w \in 0 .. 63 /\ w <= bit_count /\ UNCHANGED input
      /\ Become(Consumed(Buffered, w)) /\ result' = Ok(Nothing)
  BY DEF DropTrusted, BufferTrue, TypeOK
<1>2. BufferTrue' /\ Pos' = Pos + w /\ Pos + w <= 8 * input.len
  BY <1>1, ConsumeStep
<1> QED BY <1>1, <1>2, SameResults DEF Cursor!Drop, Cursor!Has, Cursor!TotalBits

\* The padding is what is buffered past whole bytes.
LEMMA Padding ==
  ASSUME BufferTrue
  PROVE  /\ bit_count % 8 \in 0 .. 63 /\ bit_count % 8 <= bit_count
         /\ Cursor!NextByte(Pos) = Pos + (bit_count % 8)
         /\ bit_count % 8 = 0 <=> Pos % 8 = 0
<1>1. input.len \in Nat
  BY InputType DEF BufferTrue, TypeOK
<1>2. /\ next \in Nat /\ bit_count \in 0 .. 63 /\ bit_count <= 8 * next
      /\ Pos = 8 * next - bit_count
  BY <1>1 DEF BufferTrue, TypeOK, Pos
<1>3. (Pos + 7) \div 8 = next - (bit_count \div 8)
  BY <1>2
<1>4. Cursor!NextByte(Pos) = Pos + (bit_count % 8)
  BY <1>2, <1>3 DEF Cursor!NextByte
<1> QED BY <1>2, <1>4

\* align_to_byte
LEMMA AlignStep ==
  ASSUME BufferTrue, AlignToByte
  PROVE  BufferTrue' /\ Cursor!Align
<1>1. /\ Become(Consumed(Buffered, bit_count % 8)) /\ result' = Ok(Nothing)
      /\ UNCHANGED input
  BY DEF AlignToByte
<1>2. BufferTrue' /\ Pos' = Pos + (bit_count % 8)
  BY <1>1, Padding, ConsumeStep
<1> QED BY <1>1, <1>2, Padding, SameResults DEF Cursor!Align

\* read_zero_padding_to_byte
LEMMA PaddingStep ==
  ASSUME BufferTrue, ReadZeroPadding
  PROVE  BufferTrue' /\ Cursor!ReadPadding
<1>1. Become(Consumed(Buffered, bit_count % 8)) /\ UNCHANGED input
  BY DEF ReadZeroPadding
<1>2. BufferTrue' /\ Pos' = Pos + (bit_count % 8)
  BY <1>1, Padding, ConsumeStep
<1>3. (\A i \in 0 .. (bit_count % 8) - 1 : buffer[i] = 0)
        <=> \A p \in Pos .. Cursor!NextByte(Pos) - 1 : Cursor!BitAt(input, p) = 0
  <2>1. Pos \in Int /\ bit_count \in 0 .. 63 /\ bit_count % 8 \in 0 .. 7
    <3>1. input.len \in Nat
      BY InputType DEF BufferTrue, TypeOK
    <3> QED BY <3>1 DEF BufferTrue, TypeOK, Pos
  <2>2. \A i \in 0 .. (bit_count % 8) - 1 : i \in 0 .. 63 /\ i < bit_count
    BY <2>1
  <2>3. \A i \in 0 .. (bit_count % 8) - 1 : buffer[i] = BitAt(input, Pos + i)
    BY <2>2 DEF BufferTrue
  <2>4. \A p : Cursor!BitAt(input, p) = BitAt(input, p)
    BY DEF Cursor!BitAt, Cursor!TotalBits, BitAt
  <2> DEFINE w == bit_count % 8
  <2>5. w \in 0 .. 7 /\ Cursor!NextByte(Pos) = Pos + w
    BY <2>1, Padding
  <2>6. \A i \in 0 .. w - 1 : buffer[i] = BitAt(input, Pos + i)
    BY <2>3
  <2> HIDE DEF w
  <2>7. ASSUME \A i \in 0 .. w - 1 : buffer[i] = 0, NEW p \in Pos .. Pos + w - 1
        PROVE  BitAt(input, p) = 0
    <3>1. p - Pos \in 0 .. w - 1 /\ Pos + (p - Pos) = p
      BY <2>1, <2>5
    <3> QED BY <3>1, <2>6, <2>7
  <2>8. ASSUME \A p \in Pos .. Pos + w - 1 : BitAt(input, p) = 0, NEW i \in 0 .. w - 1
        PROVE  buffer[i] = 0
    <3>1. Pos + i \in Pos .. Pos + w - 1
      BY <2>1, <2>5
    <3> QED BY <3>1, <2>6, <2>8
  <2> DEFINE e == Cursor!NextByte(Pos)
             Padded == \A p \in Pos .. e - 1 : Cursor!BitAt(input, p) = 0
             Zeros == \A i \in 0 .. w - 1 : buffer[i] = 0
  <2>9. e - 1 = Pos + w - 1
    BY <2>1, <2>5
  <2> HIDE DEF e
  <2>10. ASSUME Zeros PROVE Padded
    <3>1. \A p \in Pos .. Pos + w - 1 : BitAt(input, p) = 0
      BY <2>7, <2>10
    <3>2. Pos .. e - 1 = Pos .. Pos + w - 1
      BY <2>9
    <3> QED BY <3>1, <3>2, <2>4
  <2>11. ASSUME Padded PROVE Zeros
    <3>1. Pos .. e - 1 = Pos .. Pos + w - 1
      BY <2>9
    <3>2. \A p \in Pos .. Pos + w - 1 : BitAt(input, p) = 0
      BY <3>1, <2>4, <2>11
    <3> QED BY <3>2, <2>8
  <2>12. Zeros <=> Padded
    BY <2>10, <2>11
  <2> QED BY <2>12 DEF w, e
<1>4. result' = IF \A i \in 0 .. (bit_count % 8) - 1 : buffer[i] = 0
                THEN Ok(Nothing) ELSE Fails
  BY DEF ReadZeroPadding
<1> QED BY <1>2, <1>3, <1>4, Padding, SameResults DEF Cursor!ReadPadding

\* read_aligned_bytes
LEMMA BytesStep ==
  ASSUME BufferTrue, NEW n \in Nat, ReadAlignedBytes(n)
  PROVE  BufferTrue' /\ Cursor!ReadBytes(n)
<1> DEFINE end == Pos \div 8 + n
<1>1. input.len \in Nat /\ input \in Inputs /\ input' = input
  BY InputType DEF BufferTrue, TypeOK, ReadAlignedBytes
<1>2. /\ next \in Nat /\ bit_count \in 0 .. 63 /\ bit_count <= 8 * next
      /\ Pos = 8 * next - bit_count /\ Pos \in Nat
  BY <1>1 DEF BufferTrue, TypeOK, Pos
<1>3. bit_count % 8 = 0 <=> Pos % 8 = 0
  BY Padding
<1>4. Pos % 8 = 0 => 8 * end = Pos + 8 * n /\ end \in Nat
  BY <1>2
<1>5. /\ bit_count % 8 = 0 /\ end <= input.len
           => Become(Emptied(end)) /\ result' = Ok(Nothing)
      /\ ~(bit_count % 8 = 0 /\ end <= input.len)
           => result' = Fails /\ UNCHANGED <<next, buffer, bit_count>>
  BY DEF ReadAlignedBytes
<1> HIDE DEF end
<1>6. bit_count % 8 = 0 /\ end <= input.len
        <=> Pos % 8 = 0 /\ Cursor!Has(8 * n)
  <2>1. Pos % 8 = 0 => (end <= input.len <=> Pos + 8 * n <= 8 * input.len)
    BY <1>1, <1>2, <1>4
  <2> QED BY <2>1, <1>3 DEF Cursor!Has, Cursor!TotalBits
<1>7. CASE bit_count % 8 = 0 /\ end <= input.len
  <2>1. end \in 0 .. input.len /\ 8 * end = Pos + 8 * n
    BY <1>1, <1>3, <1>4, <1>7
  <2>2. Good(Emptied(end)) /\ At(Emptied(end)) = Pos + 8 * n
    BY <2>1, <1>1, EmptiedTrue
  <2>3. BufferTrue' /\ Pos' = Pos + 8 * n
    BY <2>2, <1>1, <1>5, <1>7, BecomeTrue
  <2> QED BY <2>3, <1>5, <1>6, <1>7, SameResults DEF Cursor!ReadBytes
<1>8. CASE ~(bit_count % 8 = 0 /\ end <= input.len)
  <2>1. /\ result' = Fails /\ next' = next /\ buffer' = buffer
        /\ bit_count' = bit_count
    BY <1>5, <1>8
  <2>2. BufferTrue' /\ Pos' = Pos
    BY <2>1, <1>1 DEF BufferTrue, TypeOK, Pos, BitAt
  <2> QED BY <2>1, <2>2, <1>6, <1>8, SameResults DEF Cursor!ReadBytes
<1> QED BY <1>7, <1>8

\* remaining_bits_are_zero
LEMMA RestStep ==
  ASSUME BufferTrue, RemainingAreZero
  PROVE  BufferTrue' /\ Cursor!RestIsZero
<1>1. /\ input' = input /\ next' = next /\ buffer' = buffer /\ bit_count' = bit_count
      /\ input \in Inputs
  BY DEF RemainingAreZero, BufferTrue, TypeOK
<1>2. BufferTrue' /\ Pos' = Pos
  BY <1>1 DEF BufferTrue, TypeOK, Pos, BitAt
<1>3. input.len \in Nat
  BY <1>1, InputType
<1>4. /\ next \in 0 .. input.len /\ bit_count \in 0 .. 63 /\ bit_count <= 8 * next
      /\ Pos = 8 * next - bit_count /\ Pos \in Nat
  BY <1>3 DEF BufferTrue, TypeOK, Pos
<1> DEFINE Zeros == /\ \A i \in 0 .. bit_count - 1 : buffer[i] = 0
                    /\ \A p \in 8 * next .. 8 * input.len - 1 : input.bit[p] = 0
           Rests == \A p \in Pos .. 8 * input.len - 1 : BitAt(input, p) = 0
<1>5. \A i \in 0 .. bit_count - 1 : buffer[i] = BitAt(input, Pos + i)
  <2>1. \A i \in 0 .. bit_count - 1 : i \in 0 .. 63 /\ i < bit_count
    BY <1>4
  <2> QED BY <2>1 DEF BufferTrue
<1>6. \A p \in Pos .. 8 * input.len - 1 : BitAt(input, p) = input.bit[p]
  BY <1>3, <1>4 DEF BitAt
<1>7. ASSUME Zeros, NEW p \in Pos .. 8 * input.len - 1
      PROVE  BitAt(input, p) = 0
  <2>1. CASE p < 8 * next
    <3>1. p - Pos \in 0 .. bit_count - 1 /\ Pos + (p - Pos) = p
      BY <2>1, <1>3, <1>4
    <3> QED BY <3>1, <1>5, <1>7
  <2>2. CASE ~(p < 8 * next)
    <3>1. p \in 8 * next .. 8 * input.len - 1
      BY <2>2, <1>3, <1>4
    <3> QED BY <3>1, <1>6, <1>7
  <2> QED BY <2>1, <2>2
<1>8. ASSUME Rests PROVE Zeros
  <2>1. ASSUME NEW i \in 0 .. bit_count - 1 PROVE buffer[i] = 0
    <3>1. Pos + i \in Pos .. 8 * input.len - 1
      BY <1>3, <1>4
    <3> QED BY <3>1, <1>5, <1>8
  <2>2. ASSUME NEW p \in 8 * next .. 8 * input.len - 1 PROVE input.bit[p] = 0
    <3>1. p \in Pos .. 8 * input.len - 1
      BY <1>3, <1>4
    <3> QED BY <3>1, <1>6, <1>8
  <2> QED BY <2>1, <2>2
<1>9. Zeros <=> Rests
  BY <1>7, <1>8
<1>10. result' = IF Zeros THEN Ok(Nothing) ELSE Fails
  BY DEF RemainingAreZero
<1>11. Rests <=> \A p \in Pos .. Cursor!TotalBits(input) - 1 : Cursor!BitAt(input, p) = 0
  BY DEF Cursor!BitAt, Cursor!TotalBits, BitAt
<1> HIDE DEF Zeros, Rests
<1> QED BY <1>2, <1>9, <1>10, <1>11, SameResults DEF Cursor!RestIsZero

(***************************************************************************)
(* The specification.                                                      *)
(***************************************************************************)
\* BufferTrue is inductive, and a step of the reader is the cursor's or does
\* not show.
LEMMA Step ==
  ASSUME BufferTrue, [Next]_vars
  PROVE  BufferTrue' /\ [Cursor!Next]_(Cursor!cursorVars)
<1> DEFINE Goal == BufferTrue' /\ [Cursor!Next]_(Cursor!cursorVars)
<1>1. ASSUME NEW w \in Widths,
             Read(w) \/ Drop(w) \/ Peek(w) \/ Fill(w) \/ DropTrusted(w)
      PROVE  Goal
  <2>1. w \in 0 .. 56
    BY ReaderAssumption
  <2>2. CASE Read(w)
    BY <2>1, <2>2, ReadStep DEF Read, Cursor!Next
  <2>3. CASE Drop(w)
    BY <2>1, <2>3, DropStep DEF Drop, Cursor!Next
  <2>4. CASE Peek(w)
    BY <2>1, <2>4, PeekStep DEF Peek, Cursor!Next
  <2>5. CASE Fill(w)
    BY <2>1, <2>5, FillStep DEF Cursor!cursorVars
  <2>6. CASE DropTrusted(w)
    BY <2>1, <2>6, DropTrustedStep DEF DropTrusted, Cursor!Next
  <2> QED BY <1>1, <2>2, <2>3, <2>4, <2>5, <2>6
<1>2. CASE PeekPadded
  BY <1>2, PeekPaddedStep DEF PeekPadded, Cursor!Next
<1>3. CASE AlignToByte
  BY <1>3, AlignStep DEF AlignToByte, Cursor!Next
<1>4. CASE ReadZeroPadding
  BY <1>4, PaddingStep DEF ReadZeroPadding, Cursor!Next
<1>5. CASE RemainingAreZero
  BY <1>5, RestStep DEF RemainingAreZero, Cursor!Next
<1>6. ASSUME NEW n \in Lengths, ReadAlignedBytes(n) PROVE Goal
  <2>1. n \in Nat
    BY ReaderAssumption
  <2> QED BY <2>1, <1>6, BytesStep DEF ReadAlignedBytes, Cursor!Next
<1>7. CASE UNCHANGED vars
  BY <1>7 DEF vars, BufferTrue, TypeOK, Pos, BitAt, Cursor!cursorVars
<1> QED BY <1>1, <1>2, <1>3, <1>4, <1>5, <1>6, <1>7 DEF Next

\* with_bit_pos starts at a bit of the input, with the rest of its byte.
LEMMA Start ==
  ASSUME Init
  PROVE  BufferTrue /\ Cursor!Init
<1>1. input \in Inputs /\ input.len \in Nat
  BY InputType DEF Init
<1>2. PICK p \in 0 .. 8 * input.len :
        /\ next = (p + 7) \div 8
        /\ bit_count = 8 * next - p
        /\ buffer = [i \in 0 .. 63 |-> IF i < bit_count THEN input.bit[p + i] ELSE 0]
  BY DEF Init
<1>3. next \in 0 .. input.len /\ bit_count \in 0 .. 7 /\ bit_count <= 8 * next
  BY <1>1, <1>2
<1>4. Pos = p
  BY <1>1, <1>2 DEF Pos
<1>5. ASSUME NEW i \in 0 .. 63
      PROVE  /\ buffer[i] \in {0, 1}
             /\ buffer[i] = 1 => BitAt(input, Pos + i) = 1
             /\ i < bit_count => buffer[i] = BitAt(input, Pos + i)
  <2>1. CASE i < bit_count
    <3>1. buffer[i] = input.bit[p + i]
      BY <2>1, <1>2
    <3>2. p + i \in Nat /\ p + i < 8 * input.len
      BY <2>1, <1>1, <1>2, <1>3
    <3>3. BitAt(input, p + i) = input.bit[p + i] /\ BitAt(input, p + i) \in {0, 1}
      BY <3>2, <1>1, InputType
    <3> QED BY <3>1, <3>3, <1>4
  <2>2. CASE ~(i < bit_count)
    <3>1. buffer[i] = 0
      BY <2>2, <1>2
    <3> QED BY <3>1, <2>2
  <2> QED BY <2>1, <2>2
<1>6. buffer \in [0 .. 63 -> {0, 1}]
  BY <1>2, <1>5
<1>7. BufferTrue
  BY <1>1, <1>3, <1>5, <1>6 DEF BufferTrue, TypeOK
<1>8. Cursor!Init
  BY <1>1, <1>2, <1>4, SameResults DEF Init, Cursor!Init, Cursor!TotalBits
<1> QED BY <1>7, <1>8

\* The buffer holds the next bits of the input, and nothing else, for every
\* input and every sequence of operations.
THEOREM BufferTrueAlways == Spec => []BufferTrue
<1>1. Init => BufferTrue
  BY Start
<1>2. BufferTrue /\ [Next]_vars => BufferTrue'
  BY Step
<1> QED BY <1>1, <1>2, PTL DEF Spec

\* Refills never show: the reader implements the cursor.
THEOREM ReaderImplementsCursor == Spec => ReadsInput
<1>1. Init => BufferTrue /\ Cursor!Init
  BY Start
<1>2. BufferTrue /\ [Next]_vars => BufferTrue' /\ [Cursor!Next]_(Cursor!cursorVars)
  BY Step
<1> QED BY <1>1, <1>2, PTL DEF Spec, ReadsInput, Cursor!Spec
=============================================================================
