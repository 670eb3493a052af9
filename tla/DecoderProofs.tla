--------------------------- MODULE DecoderProofs ----------------------------
(***************************************************************************)
(* TLAPS proofs about the push decoder and the Read adapter over it, for   *)
(* every set of well-formed streams, every limit, piece size and room.     *)
(*                                                                         *)
(* The safety invariants are not inductive one by one.  IInv joins them    *)
(* with what they lean on: how the call's locals relate to `encoded`, that *)
(* `output` ends at `decoded` outside a compressed meta-block, and where   *)
(* in the stream the current meta-block lies.                              *)
(*                                                                         *)
(* The second part, from "What the loop of `decompress` does", proves what *)
(* the decoder promises the caller as a whole: how much it holds of output *)
(* and of input, and that decoding in pieces ends as decoding the stream   *)
(* in one go does (DecodeContract).  It leans on IInv throughout.          *)
(*                                                                         *)
(* The third, from "The Read adapter", is about StreamDecoder.  Every      *)
(* behaviour of the adapter is one of a PushDecoder whose caller is the    *)
(* adapter, so what is proved of the decoder holds within it; and the      *)
(* chunk it offers is always the input that follows what was consumed.     *)
(***************************************************************************)
EXTENDS StreamDecoder, TLAPS, FiniteSetTheorems, WellFoundedInduction

(***************************************************************************)
(* The inductive invariant.                                                *)
(***************************************************************************)
\* Locals of the running call: what it took is at the end of `encoded`.
CallInv ==
  /\ pc = "idle" => taken = NotTaken /\ offered = 0
  /\ taken = NotTaken => offered = 0
  /\ taken # NotTaken => taken + offered = held
  /\ pc = "step" => written = decoded /\ state \notin {"Done", "Failed"}
  /\ pc = "short" => state \notin {"Done", "Failed"}

\* Bytes are conserved until the decoder fails.
HeldInv == state # "Failed" => first + held = fed + offered

\* Outside a compressed meta-block `output` ends at `decoded`.
OutputInv ==
  /\ state # "Compressed" => out_len = decoded
  /\ state = "StreamHeader" => output_base = 0 /\ decoded = 0
  /\ state \in {"MetaBlockHeader", "Uncompressed", "Metadata", "Compressed"} =>
       window = stream.window

\* The current meta-block is one of the stream's, and the output so far is
\* what the stream has up to here.
BlockInv ==
  /\ block \in Starts(stream)
  /\ state = "Uncompressed" =>
       /\ stream.elem[block].kind = "uncompressed"
       /\ stream.elem[block].ok
       /\ remaining > 0
       /\ output_base + decoded + remaining
            = stream.elem[block].from + stream.elem[block].len
  /\ state = "Metadata" =>
       /\ stream.elem[block].kind = "metadata"
       /\ stream.elem[block].ok
       /\ output_base + decoded = stream.elem[block].from
  /\ state = "Compressed" =>
       /\ stream.elem[block].kind = "compressed"
       /\ stream.elem[block].ok
       /\ block < At
       /\ At < stream.elem[block].stop
       /\ output_base <= stream.elem[block].from

IInv ==
  /\ TypeOK
  /\ SlicesInRange
  /\ HeldInv
  /\ ResumesInPlace
  /\ HistoryCoversWindow
  /\ CallInv
  /\ OutputInv
  /\ BlockInv

(***************************************************************************)
(* Arithmetic, and facts about the stream.                                 *)
(***************************************************************************)
\* Splitting a bit position into bytes and bits, and rounding it up.
LEMMA BytesFacts ==
  ASSUME NEW b \in Nat
  PROVE  /\ b \div 8 \in Nat
         /\ b % 8 \in Nat
         /\ b % 8 = b - 8 * (b \div 8)
         /\ BytesOf(b) \in Nat
         /\ b <= 8 * BytesOf(b)
  BY SMT DEF BytesOf

\* The stream a decoder runs on is one of the well-formed ones.
LEMMA StreamFacts ==
  ASSUME TypeOK
  PROVE  /\ WellFormed(stream)
         /\ stream.bytes \in Nat
         /\ stream.window \in Nat \ {0}
         /\ Starts(stream) \subseteq Nat
         /\ stream.elem \in [Starts(stream) -> Element]
         /\ 0 \in Starts(stream)
         /\ Limits \subseteq Nat /\ Slack \in Nat /\ ZeroAhead \in Nat
         /\ MaxRoom \in Nat /\ InputPiece \in Nat \ {0}
  BY PushDecoderAssumption DEF TypeOK, WellFormed

\* Each element is typed and lies where its links say.
LEMMA ElementFacts ==
  ASSUME TypeOK, NEW p \in Starts(stream)
  PROVE  /\ p \in Nat
         /\ stream.elem[p].kind \in Kinds
         /\ stream.elem[p].ok \in BOOLEAN
         /\ stream.elem[p].end \in Nat
         /\ stream.elem[p].from \in Nat
         /\ stream.elem[p].to \in Nat
         /\ stream.elem[p].len \in Nat
         /\ stream.elem[p].last \in BOOLEAN
         /\ stream.elem[p].block \in Nat
         /\ stream.elem[p].stop \in Nat
         /\ stream.elem[p].reach \in Nat
         /\ stream.elem[p].dist \in Nat
         /\ p <= stream.elem[p].end
         /\ stream.elem[p].kind # "padding" => p < stream.elem[p].end
         /\ stream.elem[p].kind = "padding" => stream.elem[p].end = 8 * BytesOf(p)
         /\ stream.elem[p].from <= stream.elem[p].to
         /\ stream.elem[p].kind = "copy" \/ stream.elem[p].dist = 0
         /\ stream.elem[p].ok => Link(stream, p)
  <1>1. stream.elem[p] \in Element
    BY StreamFacts
  <1>2. p \in Nat
    BY StreamFacts
  <1>3. /\ p <= stream.elem[p].end
        /\ stream.elem[p].kind # "padding" => p < stream.elem[p].end
        /\ stream.elem[p].kind = "padding" => stream.elem[p].end = 8 * BytesOf(p)
        /\ stream.elem[p].from <= stream.elem[p].to
        /\ stream.elem[p].kind = "copy" \/ stream.elem[p].dist = 0
        /\ stream.elem[p].ok => Link(stream, p)
    BY StreamFacts DEF WellFormed
  <1> QED
    BY <1>1, <1>2, <1>3 DEF Element

\* Output positions follow the order of the elements.
LEMMA OutputOrder ==
  ASSUME TypeOK, NEW p \in Starts(stream), NEW q \in Starts(stream), p <= q
  PROVE  stream.elem[p].from <= stream.elem[q].from
  <1>1. CASE p = q
    BY <1>1, ElementFacts
  <1>2. CASE p < q
    <2>1. stream.elem[p].to <= stream.elem[q].from
      BY <1>2, StreamFacts DEF WellFormed, InOrder
    <2> QED
      BY <2>1, ElementFacts
  <1> QED
    BY <1>1, <1>2, ElementFacts

\* min and max are one of the two, and bound both.
LEMMA SmallerLarger ==
  ASSUME NEW a \in Int, NEW b \in Int
  PROVE  /\ Smaller(a, b) \in {a, b} /\ Smaller(a, b) <= a /\ Smaller(a, b) <= b
         /\ Larger(a, b) \in {a, b} /\ Larger(a, b) >= a /\ Larger(a, b) >= b
  BY DEF Smaller, Larger

(***************************************************************************)
(* Parts of the call that several actions share.                           *)
(***************************************************************************)
\* What write_output takes keeps `written` and the slice in range.
LEMMA WritableFacts ==
  ASSUME TypeOK, SlicesInRange
  PROVE  /\ Writable \in Nat
         /\ written + Writable <= decoded
         /\ wrote + Writable <= room
  BY SMT DEF TypeOK, SlicesInRange, Writable, Smaller

\* A return keeps every input byte with the decoder or with the caller, and
\* the byte the checkpoint is in with the decoder.
LEMMA ReturnFacts ==
  ASSUME TypeOK, SlicesInRange, HeldInv, CallInv,
         NEW s \in Statuses, NEW w \in Nat, NEW b \in Nat,
         b <= 8 * held,
         s = "NeedsInput" => offered = input,
         Return(s, w, b)
  PROVE  /\ held' \in Nat /\ fed' \in Nat /\ delivered' \in Nat
         /\ bit_pos' = b /\ b <= 8 * held'
         /\ first' = first
         /\ state # "Failed" => first' + held' = fed' + offered'
         /\ pc' = "idle" /\ status' = s /\ taken' = NotTaken
         /\ input' = 0 /\ offered' = 0 /\ room' = room /\ wrote' = w
  <1> USE DEF NotTaken
  <1>1. BytesOf(b) \in Nat /\ b <= 8 * BytesOf(b)
    BY BytesFacts
  <1>2. CASE taken = NotTaken
    BY <1>2 DEF Return, Consumed, TakesAll, TypeOK, HeldInv, CallInv
  <1>3. CASE taken # NotTaken /\ TakesAll(s)
    BY <1>3 DEF Return, Consumed, TakesAll, TypeOK, HeldInv, CallInv
  <1>4. CASE taken # NotTaken /\ ~TakesAll(s)
    <2>1. taken \in Nat /\ taken <= held
      BY <1>4 DEF TypeOK, CallInv
    <2>2. Kept(b) \in Nat /\ taken <= Kept(b) /\ b <= 8 * Kept(b)
      BY <1>1, <2>1 DEF Kept, Smaller, Larger, TypeOK
    <2> QED
      BY <1>4, <2>1, <2>2 DEF Return, Consumed, TypeOK, HeldInv, CallInv,
         SlicesInRange
  <1> QED
    BY <1>2, <1>3, <1>4

\* A step that leaves the decoder at its place in the stream leaves intact
\* what the invariant says of that place.
LEMMA SamePlace ==
  ASSUME IInv, At' = At,
         UNCHANGED <<streamVars, stateVars, out_len, output_base, decoded>>
  PROVE  ResumesInPlace' /\ HistoryCoversWindow' /\ OutputInv' /\ BlockInv'
  <1>1. ResumesInPlace'
    BY DEF IInv, ResumesInPlace, HeaderAt, InBlock, Starts, PayloadEnd,
       streamVars, stateVars
  <1>2. HistoryCoversWindow' /\ OutputInv'
    BY DEF IInv, HistoryCoversWindow, OutputInv, streamVars, stateVars
  <1>3. BlockInv'
    BY DEF IInv, BlockInv, Starts, streamVars, stateVars
  <1> QED
    BY <1>1, <1>2, <1>3

(***************************************************************************)
(* The call, its returns, and a step that ran out of input.                *)
(***************************************************************************)
LEMMA CallStep ==
  ASSUME IInv, NEW n \in Offers, NEW r \in Rooms, Call(n, r)
  PROVE  IInv'
  <1> DEFINE drop == bit_pos \div 8
  <1>1. n \in Nat /\ r \in 0 .. MaxRoom /\ r \in Nat
    BY StreamFacts DEF Offers, Rooms, IInv, TypeOK
  <1>2. /\ drop \in Nat /\ bit_pos % 8 \in Nat
        /\ bit_pos % 8 = bit_pos - 8 * drop
    BY BytesFacts DEF IInv, TypeOK
  <1>3. drop <= held
    BY <1>2 DEF IInv, TypeOK, SlicesInRange
  <1>4. /\ first' = first + drop /\ held' = held - drop
        /\ bit_pos' = bit_pos - 8 * drop
        /\ input' = n /\ room' = r /\ taken' = NotTaken /\ offered' = 0
        /\ wrote' = 0 /\ pc' = "top"
        /\ UNCHANGED <<streamVars, outputVars, stateVars, callerVars>>
    BY <1>2 DEF Call
  <1> HIDE DEF drop
  <1>5. At' = At
    BY <1>2, <1>3, <1>4 DEF At, IInv, TypeOK
  <1>6. ResumesInPlace' /\ HistoryCoversWindow' /\ OutputInv' /\ BlockInv'
    BY <1>4, <1>5, SamePlace DEF outputVars
  <1>7. TypeOK'
    BY <1>1, <1>2, <1>3, <1>4
       DEF IInv, TypeOK, streamVars, outputVars, stateVars, callerVars
  <1>8. SlicesInRange'
    BY <1>1, <1>2, <1>3, <1>4 DEF IInv, TypeOK, SlicesInRange, outputVars
  <1>9. HeldInv' /\ CallInv'
    BY <1>2, <1>3, <1>4, pc = "idle"
       DEF Call, IInv, TypeOK, HeldInv, CallInv, stateVars, callerVars
  <1> QED
    BY <1>6, <1>7, <1>8, <1>9 DEF IInv

\* The returns that only write output first.
LEMMA WriteThenReturnStep ==
  ASSUME IInv, NEW s \in Statuses, s = "NeedsInput" => offered = input,
         WriteThenReturn(s),
         UNCHANGED <<streamVars, stateVars, out_len, output_base, decoded>>
  PROVE  IInv'
  <1>1. /\ Writable \in Nat
        /\ written + Writable <= decoded
        /\ wrote + Writable <= room
    BY WritableFacts DEF IInv
  <1>2. /\ written' = written + Writable
        /\ Return(s, wrote + Writable, bit_pos)
    BY DEF WriteThenReturn
  <1> HIDE DEF Writable
  <1>3. bit_pos \in Nat /\ bit_pos <= 8 * held /\ wrote + Writable \in Nat
    BY <1>1 DEF IInv, TypeOK, SlicesInRange
  <1>4. /\ held' \in Nat /\ fed' \in Nat /\ delivered' \in Nat
        /\ bit_pos' = bit_pos /\ bit_pos <= 8 * held'
        /\ first' = first
        /\ state # "Failed" => first' + held' = fed' + offered'
        /\ pc' = "idle" /\ status' = s /\ taken' = NotTaken
        /\ input' = 0 /\ offered' = 0 /\ room' = room
        /\ wrote' = wrote + Writable
    BY <1>2, <1>3, ReturnFacts DEF IInv
  <1>5. ResumesInPlace' /\ HistoryCoversWindow' /\ OutputInv' /\ BlockInv'
    BY <1>4, SamePlace DEF At
  <1>6. TypeOK'
    BY <1>1, <1>2, <1>3, <1>4 DEF IInv, TypeOK, streamVars, stateVars
  <1>7. SlicesInRange'
    <2>1. written' = written + Writable
      BY <1>2
    <2> QED
      BY <1>1, <1>4, <2>1 DEF IInv, SlicesInRange
  <1>8. HeldInv'
    <2>1. state' = state
      BY DEF stateVars
    <2> QED
      BY <1>4, <2>1 DEF HeldInv
  <1>9. CallInv'
    BY <1>4 DEF CallInv
  <1> QED
    BY <1>5, <1>6, <1>7, <1>8, <1>9 DEF IInv

LEMMA ReturnFinishedStep ==
  ASSUME IInv, ReturnFinished
  PROVE  IInv'
  <1>1. /\ Writable \in Nat
        /\ written + Writable = decoded
        /\ wrote + Writable <= room
        /\ state = "Done"
        /\ UNCHANGED <<streamVars, stateVars>>
    BY WritableFacts DEF IInv, ReturnFinished
  <1>2. Return("Finished", wrote + Writable, bit_pos)
    BY DEF ReturnFinished
  <1>3. /\ out_len' \in Nat /\ output_base' \in Nat
        /\ written' = out_len' /\ decoded' = out_len'
    BY <1>1 DEF ReturnFinished, IInv, TypeOK, OutputInv
  <1> HIDE DEF Writable
  <1>4. bit_pos \in Nat /\ bit_pos <= 8 * held /\ wrote + Writable \in Nat
    BY <1>1 DEF IInv, TypeOK, SlicesInRange
  <1>5. /\ held' \in Nat /\ fed' \in Nat /\ delivered' \in Nat
        /\ bit_pos' = bit_pos /\ bit_pos <= 8 * held'
        /\ first' = first
        /\ state # "Failed" => first' + held' = fed' + offered'
        /\ pc' = "idle" /\ status' = "Finished" /\ taken' = NotTaken
        /\ input' = 0 /\ offered' = 0 /\ room' = room
        /\ wrote' = wrote + Writable
    BY <1>2, <1>4, ReturnFacts DEF IInv, Statuses
  <1>6. state' = "Done"
    BY <1>1 DEF stateVars
  <1>7. ResumesInPlace' /\ HistoryCoversWindow' /\ OutputInv'
    BY <1>3, <1>6 DEF ResumesInPlace, HistoryCoversWindow, OutputInv
  <1>8. BlockInv'
    BY <1>1, <1>6 DEF IInv, BlockInv, Starts, streamVars, stateVars
  <1>9. TypeOK'
    BY <1>1, <1>3, <1>4, <1>5
       DEF IInv, TypeOK, Statuses, streamVars, stateVars
  <1>10. SlicesInRange'
    <2>1. offered' <= input' /\ wrote' <= room' /\ bit_pos' <= 8 * held'
      BY <1>1, <1>5
    <2> QED
      BY <1>3, <2>1 DEF SlicesInRange
  <1>11. HeldInv' /\ CallInv'
    BY <1>1, <1>5 DEF HeldInv, CallInv
  <1> QED
    BY <1>7, <1>8, <1>9, <1>10, <1>11 DEF IInv

LEMMA ReturnErrorStep ==
  ASSUME IInv, ReturnError
  PROVE  IInv'
  <1>1. UNCHANGED <<streamVars, inputVars, outputVars, stateVars>>
    BY DEF ReturnError
  <1>2. ResumesInPlace' /\ HistoryCoversWindow' /\ OutputInv' /\ BlockInv'
    BY <1>1, SamePlace DEF At, inputVars, outputVars
  <1>3. TypeOK'
    BY DEF ReturnError, IInv, TypeOK, Statuses, streamVars, inputVars,
       outputVars, stateVars
  <1>4. SlicesInRange'
    BY DEF ReturnError, IInv, TypeOK, SlicesInRange, inputVars, outputVars
  <1>5. HeldInv' /\ CallInv'
    BY DEF ReturnError, HeldInv, CallInv, stateVars
  <1> QED
    BY <1>2, <1>3, <1>4, <1>5 DEF IInv

LEMMA BeginStepStep ==
  ASSUME IInv, BeginStep
  PROVE  IInv'
  <1>1. Writable \in Nat /\ wrote + Writable <= room
    BY WritableFacts DEF IInv
  <1>2. /\ written + Writable = decoded /\ written' = decoded
        /\ wrote' = wrote + Writable
        /\ state \notin {"Done", "Failed"}
        /\ pc' = "step"
        /\ UNCHANGED <<streamVars, inputVars, stateVars, callVars, callerVars,
                       out_len, output_base, decoded>>
    BY DEF BeginStep
  <1> HIDE DEF Writable
  <1>3. ResumesInPlace' /\ HistoryCoversWindow' /\ OutputInv' /\ BlockInv'
    BY <1>2, SamePlace DEF At, inputVars
  <1>4. TypeOK'
    BY <1>1, <1>2 DEF IInv, TypeOK, streamVars, inputVars, stateVars,
       callVars, callerVars
  <1>5. SlicesInRange'
    BY <1>1, <1>2 DEF IInv, TypeOK, SlicesInRange, inputVars, callVars
  <1>6. HeldInv' /\ CallInv'
    BY <1>2 DEF IInv, HeldInv, CallInv, inputVars, stateVars, callVars,
       callerVars
  <1> QED
    BY <1>3, <1>4, <1>5, <1>6 DEF IInv

LEMMA ShortTakePieceStep ==
  ASSUME IInv, ShortTakePiece
  PROVE  IInv'
  <1> DEFINE piece == Smaller(input - offered, InputPiece)
  <1>1. Writable \in Nat /\ wrote + Writable <= room
    BY WritableFacts DEF IInv
  <1>2. /\ written + Writable = decoded /\ written' = decoded
        /\ wrote' = wrote + Writable
        /\ held' = held + piece /\ offered' = offered + piece
        /\ taken' = IF taken = NotTaken THEN held ELSE taken
        /\ pc = "short" /\ pc' = "top"
        /\ UNCHANGED <<streamVars, stateVars, callerVars, first, bit_pos,
                       input, room, out_len, output_base, decoded>>
    BY DEF ShortTakePiece
  <1> HIDE DEF Writable
  <1>3. piece \in Nat /\ offered + piece <= input
    <2>1. input \in Nat /\ offered \in Nat /\ offered <= input
      BY DEF IInv, TypeOK, SlicesInRange
    <2> QED
      BY <2>1, StreamFacts DEF IInv, Smaller
  <1> HIDE DEF piece
  <1>4. ResumesInPlace' /\ HistoryCoversWindow' /\ OutputInv' /\ BlockInv'
    BY <1>2, SamePlace DEF At
  <1>5. TypeOK'
    BY <1>1, <1>2, <1>3 DEF IInv, TypeOK, streamVars, stateVars, callerVars
  <1>6. SlicesInRange'
    BY <1>1, <1>2, <1>3 DEF IInv, TypeOK, SlicesInRange
  <1>7. HeldInv'
    BY <1>2, <1>3 DEF IInv, TypeOK, HeldInv, stateVars, callerVars
  <1>8. CallInv'
    BY <1>2, <1>3 DEF IInv, TypeOK, CallInv, NotTaken
  <1> QED
    BY <1>4, <1>5, <1>6, <1>7, <1>8 DEF IInv

\* A step that ran out of input where it began.
LEMMA RunOutStep ==
  ASSUME IInv, pc = "step", RunOut,
         UNCHANGED <<streamVars, inputVars, outputVars, stateVars>>
  PROVE  IInv'
  <1> USE DEF RunOut
  <1>1. ResumesInPlace' /\ HistoryCoversWindow' /\ OutputInv' /\ BlockInv'
    BY SamePlace DEF At, inputVars, outputVars
  <1>2. TypeOK'
    BY DEF IInv, TypeOK, streamVars, inputVars, outputVars, stateVars,
       callVars, callerVars
  <1>3. SlicesInRange'
    BY DEF IInv, SlicesInRange, inputVars, outputVars, callVars
  <1>4. HeldInv' /\ CallInv'
    BY DEF IInv, HeldInv, CallInv, inputVars, outputVars, stateVars,
       callVars, callerVars
  <1> QED
    BY <1>1, <1>2, <1>3, <1>4 DEF IInv

(***************************************************************************)
(* Facts the steps share.                                                  *)
(***************************************************************************)
\* A step that goes on with the loop conserves bytes and keeps the locals.
LEMMA GoOn ==
  ASSUME IInv, pc = "step",
         pc' = "top" \/ (pc' = "short" /\ state' = state),
         UNCHANGED <<first, held, callVars, callerVars, wrote>>
  PROVE  HeldInv' /\ CallInv'
  <1>1. HeldInv'
    BY DEF IInv, HeldInv, CallInv, callVars, callerVars
  <1>2. CallInv'
    BY DEF IInv, CallInv, callVars
  <1> QED
    BY <1>1, <1>2

\* The bit position a step moves to, past an element it has the bits of.
LEMMA MovedTo ==
  ASSUME TypeOK, NEW e \in Nat, At <= e, HasBits(e)
  PROVE  /\ e - 8 * first \in Nat
         /\ e - 8 * first <= 8 * held
         /\ 8 * first + (e - 8 * first) = e
         /\ At \in Nat
  BY DEF TypeOK, At, HasBits

\* At a byte boundary the checkpoint counts whole bytes.
LEMMA Aligned ==
  ASSUME NEW f \in Nat, NEW b \in Nat, (8 * f + b) % 8 = 0
  PROVE  b \div 8 \in Nat /\ b = 8 * (b \div 8)
  BY SMT

\* Whole bytes keep a byte boundary.
LEMMA AlignedSum ==
  ASSUME NEW a \in Nat, NEW n \in Nat, a % 8 = 0
  PROVE  (a + 8 * n) % 8 = 0
  BY SMT

\* compact_output drops written history only, and keeps the window.
LEMMA CompactFacts ==
  ASSUME IInv, InState("MetaBlockHeader"), Compact
  PROVE  /\ Dropped \in Nat
         /\ decoded' \in Nat /\ output_base' \in Nat
         /\ written' = decoded'
         /\ decoded' = decoded - Dropped
         /\ out_len - Dropped = decoded'
         /\ output_base' + decoded' = output_base + decoded
         /\ output_base' = 0 \/ decoded' >= window
  <1>1. /\ decoded \in Nat /\ window \in Nat /\ written = decoded
        /\ output_base \in Nat /\ out_len = decoded
        /\ output_base = 0 \/ decoded >= window
    BY StreamFacts DEF IInv, TypeOK, CallInv, OutputInv, HistoryCoversWindow,
       InState
  <1>2. Dropped \in Nat /\ (Dropped = 0 \/ Dropped <= decoded - window)
        /\ Dropped <= decoded
    BY <1>1 DEF Dropped, Smaller, Monus
  <1> QED
    BY <1>1, <1>2 DEF Compact

\* A failed step keeps the output up to the decoded end d.
LEMMA FailStep ==
  ASSUME IInv, pc = "step", NEW d \in Nat, NEW l \in Nat, d <= l, Fail(d, l),
         decoded' = d, written' \in Nat, written' <= d, output_base' \in Nat,
         bit_pos' \in Nat, bit_pos' <= 8 * held,
         UNCHANGED <<streamVars, first, held, window, remaining, block>>
  PROVE  IInv'
  <1>1. /\ out_len' = d /\ state' = "Failed" /\ pc' = "top"
        /\ UNCHANGED <<callVars, callerVars, wrote>>
    BY DEF Fail, Continue, Smaller
  <1>2. HeldInv' /\ CallInv'
    BY <1>1, GoOn
  <1>3. ResumesInPlace' /\ HistoryCoversWindow' /\ OutputInv'
    BY <1>1 DEF ResumesInPlace, HistoryCoversWindow, OutputInv
  <1>4. BlockInv'
    BY <1>1 DEF IInv, BlockInv, Starts, streamVars
  <1>5. TypeOK'
    BY <1>1 DEF IInv, TypeOK, States, streamVars, callVars, callerVars
  <1>6. SlicesInRange'
    BY <1>1 DEF IInv, SlicesInRange, callVars
  <1> QED
    BY <1>2, <1>3, <1>4, <1>5, <1>6 DEF IInv

\* Where an error leaves the checkpoint, when it stays.
LEMMA FailHere ==
  ASSUME IInv, pc = "step", Fail(decoded, out_len),
         UNCHANGED <<streamVars, inputVars, output_base, written, decoded,
                     window, remaining, block>>
  PROVE  IInv'
  <1>1. /\ decoded \in Nat /\ out_len \in Nat /\ decoded <= out_len
        /\ written \in Nat /\ written <= decoded
        /\ output_base \in Nat /\ bit_pos \in Nat /\ bit_pos <= 8 * held
    BY DEF IInv, TypeOK, SlicesInRange
  <1> QED
    BY <1>1, FailStep DEF inputVars

(***************************************************************************)
(* The stream header and the meta-block headers.                           *)
(***************************************************************************)
LEMMA ReadStreamHeaderStep ==
  ASSUME IInv, ReadStreamHeader
  PROVE  IInv'
  <1>1. At = 0 /\ At \in Starts(stream) /\ Here.kind = "window"
        /\ stream.window \in Nat \ {0}
    BY StreamFacts DEF IInv, ResumesInPlace, ReadStreamHeader, InState, Here,
       WellFormed
  <1>2. Here.end \in Nat /\ At <= Here.end /\ HeaderAt(stream, Here.end, 0)
    BY <1>1, ElementFacts DEF IInv, ReadStreamHeader, Here, Link
  <1>3. /\ bit_pos' = Here.end - 8 * first
        /\ bit_pos' \in Nat /\ bit_pos' <= 8 * held
        /\ 8 * first + bit_pos' = Here.end
    BY <1>2, MovedTo DEF IInv, ReadStreamHeader
  <1>4. /\ output_base = 0 /\ decoded = 0 /\ out_len = 0
        /\ pc = "step" /\ pc' = "top"
        /\ state' = "MetaBlockHeader" /\ window' = stream.window
        /\ UNCHANGED <<streamVars, outputVars, first, held, remaining, block,
                       callVars, callerVars, wrote>>
    BY DEF IInv, OutputInv, ReadStreamHeader, InState, Continue
  <1>5. At' = Here.end
    BY <1>3, <1>4 DEF At
  <1>6. ResumesInPlace'
    BY <1>2, <1>4, <1>5 DEF ResumesInPlace, HeaderAt, Starts, streamVars,
       outputVars
  <1>7. HistoryCoversWindow' /\ OutputInv' /\ BlockInv'
    BY <1>4 DEF IInv, HistoryCoversWindow, OutputInv, BlockInv, Starts,
       streamVars, outputVars
  <1>8. HeldInv' /\ CallInv'
    BY <1>4, GoOn
  <1>9. TypeOK'
    BY <1>3, <1>4 DEF IInv, TypeOK, States, streamVars, outputVars, callVars,
       callerVars
  <1>10. SlicesInRange'
    BY <1>3, <1>4 DEF IInv, SlicesInRange, outputVars, callVars
  <1> QED
    BY <1>6, <1>7, <1>8, <1>9, <1>10 DEF IInv

\* A meta-block header that is accepted: all but the place it leads to.
LEMMA HeaderStep ==
  ASSUME IInv, NEW k, ReadHeader(k), Continue,
         bit_pos' = Here.end - 8 * first, out_len' = out_len - Dropped,
         state' \in {"Done", "Metadata", "Uncompressed", "Compressed"},
         remaining' \in Nat, block' \in {block, At},
         UNCHANGED <<streamVars, first, held, window>>,
         ResumesInPlace', BlockInv'
  PROVE  IInv'
  <1>1. /\ decoded' \in Nat /\ output_base' \in Nat
        /\ written' = decoded' /\ out_len' = decoded'
        /\ output_base' = 0 \/ decoded' >= window
    BY CompactFacts DEF ReadHeader
  <1>2. pc = "step" /\ pc' = "top" /\ window = stream.window
        /\ UNCHANGED <<callVars, callerVars, wrote>>
    BY DEF ReadHeader, InState, Continue, IInv, OutputInv
  <1>3. At \in Starts(stream) /\ At \in Nat /\ block \in Nat
    BY ElementFacts DEF ReadHeader, InState, IInv, ResumesInPlace, HeaderAt,
       TypeOK
  <1>4. bit_pos' \in Nat /\ bit_pos' <= 8 * held
    BY <1>3, ElementFacts, MovedTo DEF ReadHeader, IInv, Here
  <1>5. HistoryCoversWindow' /\ OutputInv'
    BY <1>1, <1>2 DEF HistoryCoversWindow, OutputInv, streamVars
  <1>6. HeldInv' /\ CallInv'
    BY <1>2, GoOn
  <1>7. TypeOK'
    BY <1>1, <1>2, <1>3, <1>4 DEF IInv, TypeOK, States, streamVars, callVars,
       callerVars
  <1>8. SlicesInRange'
    BY <1>1, <1>2, <1>4 DEF IInv, SlicesInRange, callVars
  <1> QED
    BY <1>5, <1>6, <1>7, <1>8 DEF IInv

\* Where an accepted header is, and what it says.
LEMMA HeaderFacts ==
  ASSUME IInv, NEW k, ReadHeader(k), bit_pos' = Here.end - 8 * first,
         UNCHANGED <<streamVars, first, held, window>>
  PROVE  /\ At \in Starts(stream) /\ At \in Nat
         /\ Here = stream.elem[At]
         /\ Here.kind = k /\ Here.ok /\ Link(stream, At)
         /\ Here.len \in Nat /\ Here.end \in Nat
         /\ At' = Here.end
         /\ output_base' + decoded' = Here.from
         /\ At < Here.end \/ k = "padding"
         /\ output_base' \in Nat /\ decoded' \in Nat
         /\ block \in Starts(stream) /\ stream' = stream
  <1>1. HeaderAt(stream, At, output_base + decoded) /\ block \in Starts(stream)
        /\ Here.kind = k /\ Here.ok /\ stream' = stream /\ first' = first
    BY DEF IInv, ReadHeader, InState, ResumesInPlace, BlockInv, streamVars
  <1>2. output_base' + decoded' = output_base + decoded
        /\ output_base' \in Nat /\ decoded' \in Nat
    BY CompactFacts DEF ReadHeader
  <1>3. At \in Starts(stream) /\ Here.from = output_base + decoded
    BY <1>1 DEF HeaderAt, Here
  <1>4. Here.len \in Nat /\ Here.end \in Nat /\ At <= Here.end /\ At \in Nat
        /\ Link(stream, At) /\ (k # "padding" => At < Here.end)
    BY <1>1, <1>3, ElementFacts DEF IInv, Here
  <1>5. At' = Here.end
    BY <1>1, <1>4, MovedTo DEF IInv, ReadHeader, At
  <1> QED
    BY <1>1, <1>2, <1>3, <1>4, <1>5 DEF Here

LEMMA ReadLastEmptyStep ==
  ASSUME IInv, ReadLastEmpty
  PROVE  IInv'
  <1>1. /\ ReadHeader("lastEmpty") /\ Continue
        /\ bit_pos' = Here.end - 8 * first /\ out_len' = out_len - Dropped
        /\ state' = "Done" /\ remaining' = remaining /\ block' = block
        /\ UNCHANGED <<streamVars, first, held, window>>
        /\ remaining' \in Nat
    BY DEF ReadLastEmpty, IInv, TypeOK
  <1>2. ResumesInPlace'
    BY <1>1 DEF ResumesInPlace
  <1>3. BlockInv'
    BY <1>1 DEF IInv, BlockInv, Starts, streamVars
  <1> QED
    BY <1>1, <1>2, <1>3, HeaderStep

LEMMA ReadMetadataHeaderStep ==
  ASSUME IInv, ReadMetadataHeader
  PROVE  IInv'
  <1>1. /\ ReadHeader("metadata") /\ Continue
        /\ bit_pos' = Here.end - 8 * first /\ out_len' = out_len - Dropped
        /\ state' = "Metadata" /\ remaining' = Here.len /\ block' = At
        /\ UNCHANGED <<streamVars, first, held, window>>
    BY DEF ReadMetadataHeader
  <1>2. /\ At \in Starts(stream) /\ At \in Nat
        /\ Here = stream.elem[At]
        /\ Here.kind = "metadata" /\ Here.ok /\ Link(stream, At)
        /\ Here.len \in Nat /\ Here.end \in Nat
        /\ At' = Here.end
        /\ output_base' + decoded' = Here.from
        /\ stream' = stream
    BY <1>1, HeaderFacts
  <1>3. At' % 8 = 0
    BY <1>2 DEF Link
  <1>4. ResumesInPlace'
    BY <1>1, <1>2, <1>3 DEF ResumesInPlace, PayloadEnd
  <1>5. BlockInv'
    BY <1>1, <1>2 DEF BlockInv, Starts
  <1> QED
    BY <1>1, <1>2, <1>4, <1>5, HeaderStep

LEMMA ReadUncompressedHeaderStep ==
  ASSUME IInv, ReadUncompressedHeader
  PROVE  IInv'
  <1>1. /\ ReadHeader("uncompressed") /\ Continue
        /\ bit_pos' = Here.end - 8 * first /\ out_len' = out_len - Dropped
        /\ state' = "Uncompressed" /\ remaining' = Here.len /\ block' = At
        /\ UNCHANGED <<streamVars, first, held, window>>
    BY DEF ReadUncompressedHeader
  <1>2. /\ At \in Starts(stream) /\ At \in Nat
        /\ Here = stream.elem[At]
        /\ Here.kind = "uncompressed" /\ Here.ok /\ Link(stream, At)
        /\ Here.len \in Nat /\ Here.end \in Nat
        /\ At' = Here.end
        /\ output_base' + decoded' = Here.from
        /\ stream' = stream
    BY <1>1, HeaderFacts
  <1>3. At' % 8 = 0 /\ Here.len > 0
    BY <1>2 DEF Link
  <1>4. ResumesInPlace'
    BY <1>1, <1>2, <1>3 DEF ResumesInPlace, PayloadEnd
  <1>5. BlockInv'
    BY <1>1, <1>2, <1>3 DEF BlockInv, Starts
  <1> QED
    BY <1>1, <1>2, <1>4, <1>5, HeaderStep

LEMMA ReadCompressedHeaderStep ==
  ASSUME IInv, ReadCompressedHeader
  PROVE  IInv'
  <1>1. /\ ReadHeader("compressed") /\ Continue
        /\ bit_pos' = Here.end - 8 * first /\ out_len' = out_len - Dropped
        /\ state' = "Compressed" /\ remaining' = remaining /\ block' = At
        /\ UNCHANGED <<streamVars, first, held, window>>
        /\ remaining' \in Nat
    BY DEF ReadCompressedHeader, IInv, TypeOK
  <1>2. /\ At \in Starts(stream) /\ At \in Nat
        /\ Here = stream.elem[At]
        /\ Here.kind = "compressed" /\ Here.ok /\ Link(stream, At)
        /\ Here.end \in Nat
        /\ At' = Here.end /\ At < Here.end
        /\ output_base' + decoded' = Here.from
        /\ output_base' \in Nat /\ decoded' \in Nat
        /\ stream' = stream
    BY <1>1, HeaderFacts
  <1>3. Here.end < Here.stop /\ InBlock(stream, At, Here.end, {"code"}, Here.from)
    BY <1>2 DEF Link
  <1>4. ResumesInPlace'
    BY <1>1, <1>2, <1>3 DEF ResumesInPlace, InBlock, Starts
  <1>5. BlockInv'
    BY <1>1, <1>2, <1>3 DEF BlockInv, Starts
  <1> QED
    BY <1>1, <1>2, <1>4, <1>5, HeaderStep

LEMMA RejectHeaderStep ==
  ASSUME IInv, RejectHeader
  PROVE  IInv'
  <1>1. /\ InState("MetaBlockHeader") /\ Compact /\ pc = "step"
        /\ Fail(decoded - Dropped, out_len - Dropped)
        /\ UNCHANGED <<streamVars, inputVars, window, remaining, block>>
    BY DEF RejectHeader, InState
  <1>2. /\ decoded' \in Nat /\ output_base' \in Nat
        /\ written' = decoded'
        /\ decoded' = decoded - Dropped
        /\ out_len - Dropped = decoded'
    BY <1>1, CompactFacts
  <1>3. Fail(decoded', decoded')
    BY <1>1, <1>2
  <1>4. bit_pos' \in Nat /\ bit_pos' <= 8 * held /\ UNCHANGED <<first, held>>
    BY <1>1 DEF IInv, TypeOK, SlicesInRange, inputVars
  <1> QED
    BY <1>1, <1>2, <1>3, <1>4, FailStep

LEMMA ShortHeaderStep ==
  ASSUME IInv, ShortHeader
  PROVE  IInv'
  <1>1. /\ decoded' \in Nat /\ output_base' \in Nat
        /\ written' = decoded' /\ out_len' = decoded'
        /\ output_base' + decoded' = output_base + decoded
        /\ output_base' = 0 \/ decoded' >= window
    BY CompactFacts DEF ShortHeader
  <1>2. /\ pc = "step" /\ pc' = "short" /\ state = "MetaBlockHeader"
        /\ UNCHANGED <<streamVars, inputVars, stateVars, callVars, callerVars,
                       wrote>>
    BY DEF ShortHeader, RunOut, InState
  <1>3. ResumesInPlace'
    <2>1. HeaderAt(stream, At, output_base + decoded) /\ At' = At
          /\ stream' = stream /\ state' = "MetaBlockHeader"
      BY <1>2 DEF IInv, ResumesInPlace, At, inputVars, streamVars, stateVars
    <2> QED
      BY <1>1, <2>1 DEF ResumesInPlace
  <1>4. HistoryCoversWindow' /\ OutputInv' /\ BlockInv'
    BY <1>1, <1>2 DEF IInv, HistoryCoversWindow, OutputInv, BlockInv, Starts,
       streamVars, stateVars
  <1>5. HeldInv' /\ CallInv'
    BY <1>2, GoOn DEF inputVars, stateVars
  <1>6. TypeOK'
    BY <1>1, <1>2 DEF IInv, TypeOK, streamVars, inputVars, stateVars, callVars,
       callerVars
  <1>7. SlicesInRange'
    BY <1>1, <1>2 DEF IInv, SlicesInRange, inputVars, callVars
  <1> QED
    BY <1>3, <1>4, <1>5, <1>6, <1>7 DEF IInv

(***************************************************************************)
(* Stored and metadata payload.                                            *)
(***************************************************************************)
\* A checkpoint in a payload is at a byte, and moves by the bytes it counts.
LEMMA PayloadMove ==
  ASSUME IInv, state \in {"Uncompressed", "Metadata"},
         NEW n \in Nat, n <= Unread, bit_pos' = bit_pos + 8 * n, first' = first
  PROVE  /\ bit_pos' \in Nat /\ bit_pos' <= 8 * held
         /\ At' = At + 8 * n /\ At' % 8 = 0 /\ At \in Nat
  <1>1. At % 8 = 0 /\ At \in Nat
    BY DEF IInv, ResumesInPlace, At, TypeOK
  <1>2. bit_pos \div 8 \in Nat /\ bit_pos = 8 * (bit_pos \div 8)
    BY <1>1, Aligned DEF At, IInv, TypeOK
  <1>3. bit_pos' \in Nat /\ bit_pos' <= 8 * held /\ At' = At + 8 * n
    BY <1>2 DEF Unread, At, IInv, TypeOK
  <1> QED
    BY <1>1, <1>3, AlignedSum

\* Bytes from the checkpoint on.
LEMMA UnreadNat ==
  ASSUME IInv
  PROVE  Unread \in Nat
  <1>1. bit_pos \div 8 \in Nat /\ 8 * (bit_pos \div 8) <= bit_pos
    BY BytesFacts DEF IInv, TypeOK
  <1> QED
    BY <1>1 DEF Unread, IInv, TypeOK, SlicesInRange

\* Where the step may stop is past the decoded end.
LEMMA StopAtFacts ==
  ASSUME IInv
  PROVE  StopAt \in Nat /\ decoded <= StopAt
  <1>1. room \in Nat /\ wrote \in Nat /\ decoded \in Nat /\ wrote <= room
    BY StreamFacts DEF IInv, TypeOK, SlicesInRange
  <1> QED
    BY <1>1 DEF StopAt

LEMMA CopyStoredStep ==
  ASSUME IInv, CopyStored
  PROVE  IInv'
  <1> DEFINE n == StoredCount
  <1>1. /\ pc = "step" /\ state = "Uncompressed" /\ n # 0
        /\ out_len' = out_len + n /\ bit_pos' = bit_pos + 8 * n
        /\ decoded' = decoded + n /\ remaining' = remaining - n
        /\ state' = IF remaining' = 0 THEN "MetaBlockHeader" ELSE state
        /\ pc' = "top"
        /\ UNCHANGED <<streamVars, first, held, output_base, written, window,
                       block, callVars, callerVars, wrote>>
    BY DEF CopyStored, InState, Continue
  <1>2. n \in Nat /\ n <= Unread /\ n <= remaining
    <2>1. remaining \in Nat /\ decoded \in Nat
      BY DEF IInv, TypeOK
    <2> QED
      BY <2>1, UnreadNat, StopAtFacts DEF StoredCount, Smaller
  <1> HIDE DEF n
  <1>3. /\ bit_pos' \in Nat /\ bit_pos' <= 8 * held
        /\ At' = At + 8 * n /\ At' % 8 = 0 /\ At \in Nat
    BY <1>1, <1>2, PayloadMove
  <1>4. /\ remaining \in Nat /\ decoded \in Nat /\ out_len = decoded
        /\ output_base \in Nat /\ written \in Nat /\ written <= decoded
        /\ window = stream.window
    BY <1>1 DEF IInv, TypeOK, SlicesInRange, OutputInv
  <1>5. /\ block \in Starts(stream) /\ stream.elem[block].kind = "uncompressed"
        /\ stream.elem[block].ok
        /\ output_base + decoded + remaining
             = stream.elem[block].from + stream.elem[block].len
        /\ At + 8 * remaining = stream.elem[block].end + 8 * stream.elem[block].len
    BY <1>1 DEF IInv, BlockInv, ResumesInPlace, PayloadEnd
  <1>6. HeaderAt(stream, At + 8 * remaining, output_base + decoded + remaining)
    BY <1>5, ElementFacts DEF IInv, Link
  <1>9. ResumesInPlace' /\ BlockInv'
    <2>1. CASE remaining' = 0
      <3>1. n = remaining /\ state' = "MetaBlockHeader" /\ stream' = stream
            /\ block' = block /\ output_base' = output_base
        BY <1>1, <1>2, <1>4, <2>1 DEF streamVars
      <3>2. HeaderAt(stream, At', output_base' + decoded')
        BY <1>1, <1>3, <1>4, <1>6, <3>1
      <3> QED
        BY <1>5, <3>1, <3>2 DEF ResumesInPlace, BlockInv, Starts
    <2>2. CASE remaining' # 0
      <3>1. state' = "Uncompressed" /\ stream' = stream /\ block' = block
            /\ output_base' = output_base /\ remaining' > 0
        BY <1>1, <1>2, <1>4, <2>2 DEF streamVars
      <3>2. At' + 8 * remaining' = PayloadEnd(stream, block)
        BY <1>1, <1>2, <1>3, <1>4, <1>5 DEF PayloadEnd
      <3>3. output_base' + decoded' + remaining'
               = stream.elem[block].from + stream.elem[block].len
        BY <1>1, <1>2, <1>4, <1>5, <3>1
      <3> QED
        BY <1>3, <1>5, <3>1, <3>2, <3>3 DEF ResumesInPlace, BlockInv, Starts
    <2> QED
      BY <2>1, <2>2
  <1>10. decoded' \in Nat /\ decoded <= decoded' /\ out_len' = decoded'
         /\ remaining' \in Nat
    BY <1>1, <1>2, <1>4
  <1>11. OutputInv'
    BY <1>1, <1>4, <1>10 DEF OutputInv, streamVars
  <1>12. HistoryCoversWindow'
    <2>1. output_base = 0 \/ decoded >= window
      BY <1>1 DEF IInv, HistoryCoversWindow
    <2>2. window \in Nat
      BY <1>4, StreamFacts DEF IInv
    <2> QED
      BY <1>1, <1>4, <1>10, <2>1, <2>2 DEF HistoryCoversWindow
  <1>13. HeldInv' /\ CallInv'
    BY <1>1, GoOn
  <1>14. TypeOK'
    BY <1>1, <1>3, <1>10 DEF IInv, TypeOK, States, streamVars, callVars,
       callerVars
  <1>15. SlicesInRange'
    <2>1. written' <= decoded'
      BY <1>1, <1>4, <1>10
    <2> QED
      BY <1>1, <1>3, <1>10, <2>1 DEF IInv, SlicesInRange, callVars
  <1> QED
    BY <1>9, <1>11, <1>12, <1>13, <1>14, <1>15 DEF IInv

LEMMA SkipMetadataStep ==
  ASSUME IInv, SkipMetadata
  PROVE  IInv'
  <1> DEFINE n == Smaller(Unread, remaining)
  <1>1. /\ pc = "step" /\ state = "Metadata"
        /\ bit_pos' = bit_pos + 8 * n /\ remaining' = remaining - n
        /\ state' = IF remaining' # 0 THEN state
                    ELSE IF stream.elem[block].last THEN "Done"
                    ELSE "MetaBlockHeader"
        /\ pc' = "top"
        /\ UNCHANGED <<streamVars, outputVars, first, held, window, block,
                       callVars, callerVars, wrote>>
    BY DEF SkipMetadata, InState, Continue
  <1>2. n \in Nat /\ n <= Unread /\ n <= remaining /\ remaining \in Nat
    <2>1. remaining \in Nat
      BY DEF IInv, TypeOK
    <2> QED
      BY <2>1, UnreadNat DEF Smaller
  <1> HIDE DEF n
  <1>3. /\ bit_pos' \in Nat /\ bit_pos' <= 8 * held
        /\ At' = At + 8 * n /\ At' % 8 = 0 /\ At \in Nat
    BY <1>1, <1>2, PayloadMove
  <1>4. remaining' \in Nat /\ At' + 8 * remaining' = At + 8 * remaining
    BY <1>1, <1>2, <1>3
  <1>5. /\ block \in Starts(stream) /\ stream.elem[block].kind = "metadata"
        /\ stream.elem[block].ok
        /\ output_base + decoded = stream.elem[block].from
        /\ At + 8 * remaining = stream.elem[block].end + 8 * stream.elem[block].len
    BY <1>1 DEF IInv, BlockInv, ResumesInPlace, PayloadEnd
  <1>6. stream.elem[block].last
        \/ HeaderAt(stream, At + 8 * remaining, output_base + decoded)
    BY <1>5, ElementFacts DEF IInv, Link
  <1>7. /\ stream' = stream /\ block' = block
        /\ output_base' = output_base /\ decoded' = decoded
    BY <1>1 DEF streamVars, outputVars
  <1>11. ResumesInPlace' /\ BlockInv'
    <2>1. CASE remaining' # 0
      <3>1. state' = "Metadata"
        BY <1>1, <2>1
      <3>2. At' + 8 * remaining' = PayloadEnd(stream, block)
        BY <1>4, <1>5 DEF PayloadEnd
      <3> QED
        BY <1>3, <1>5, <1>7, <3>1, <3>2 DEF ResumesInPlace, BlockInv, Starts
    <2>2. CASE remaining' = 0 /\ stream.elem[block].last
      BY <1>1, <1>5, <1>7, <2>2 DEF ResumesInPlace, BlockInv, Starts
    <2>3. CASE remaining' = 0 /\ ~stream.elem[block].last
      <3>1. At' = At + 8 * remaining
        BY <1>3, <1>4, <2>3
      <3> QED
        BY <1>1, <1>5, <1>6, <1>7, <2>3, <3>1 DEF ResumesInPlace, BlockInv, Starts
    <2> QED
      BY <2>1, <2>2, <2>3
  <1>12. OutputInv' /\ HistoryCoversWindow'
    BY <1>1 DEF IInv, OutputInv, HistoryCoversWindow, streamVars, outputVars
  <1>13. HeldInv' /\ CallInv'
    BY <1>1, GoOn
  <1>14. TypeOK'
    BY <1>1, <1>3, <1>4 DEF IInv, TypeOK, States, streamVars, outputVars,
       callVars, callerVars
  <1>15. SlicesInRange'
    BY <1>1, <1>3 DEF IInv, SlicesInRange, outputVars, callVars
  <1> QED
    BY <1>11, <1>12, <1>13, <1>14, <1>15 DEF IInv

(***************************************************************************)
(* Compressed meta-blocks.                                                 *)
(***************************************************************************)
\* The element at hand in a compressed meta-block.
LEMMA CompressedFacts ==
  ASSUME IInv, state = "Compressed"
  PROVE  /\ At \in Starts(stream) /\ At \in Nat /\ Here = stream.elem[At]
         /\ Here.kind \in {"code"} \cup BodyKinds
         /\ Here.block = block /\ Here.from = output_base + decoded
         /\ block \in Starts(stream) /\ block \in Nat
         /\ Header = stream.elem[block]
         /\ Header.kind = "compressed" /\ Header.ok
         /\ block < At /\ At < Header.stop
         /\ output_base <= Header.from
         /\ window = stream.window
         /\ Link(stream, block) /\ HoldsBlock(stream, block)
         /\ AfterBlock(stream, block)
         /\ Header.stop \in Nat /\ Header.from \in Nat /\ Header.len \in Nat
         /\ Header.last \in BOOLEAN
         /\ Header.end \in Nat
         /\ InBlock(stream, block, Header.end, {"code"}, Header.from)
  <1>1. /\ At \in Starts(stream)
        /\ Here.kind \in {"code"} \cup BodyKinds
        /\ Here.block = block /\ Here.from = output_base + decoded
    BY DEF IInv, ResumesInPlace, InBlock, Here
  <1>2. /\ block \in Starts(stream)
        /\ Header.kind = "compressed" /\ Header.ok
        /\ block < At /\ At < Header.stop
        /\ output_base <= Header.from
        /\ window = stream.window
    BY DEF IInv, BlockInv, OutputInv, Header
  <1>3. Link(stream, block) /\ Header.stop \in Nat /\ Header.from \in Nat
        /\ Header.len \in Nat /\ Header.last \in BOOLEAN /\ Header.end \in Nat
        /\ block \in Nat /\ At \in Nat
    BY <1>1, <1>2, ElementFacts DEF IInv, Header
  <1>4. HoldsBlock(stream, block) /\ AfterBlock(stream, block)
        /\ InBlock(stream, block, Header.end, {"code"}, Header.from)
    BY <1>2, <1>3 DEF Link, Header
  <1> QED
    BY <1>1, <1>2, <1>3, <1>4 DEF Here, Header

LEMMA ReadCodeStep ==
  ASSUME IInv, ReadCode
  PROVE  IInv'
  <1>1. /\ pc = "step" /\ pc' = "top" /\ state = "Compressed"
        /\ Here.kind = "code" /\ HasBits(Here.end) /\ Here.ok
        /\ bit_pos' = Here.end - 8 * first
        /\ UNCHANGED <<streamVars, outputVars, stateVars, first, held,
                       callVars, callerVars, wrote>>
    BY DEF ReadCode, InState, Continue
  <1>2. /\ At \in Starts(stream) /\ At \in Nat /\ Here = stream.elem[At]
        /\ Here.block = block /\ Here.from = output_base + decoded
        /\ block \in Nat /\ block < At
    BY <1>1, CompressedFacts
  <1>3. /\ Here.end \in Nat /\ At < Here.end
        /\ Here.end < stream.elem[block].stop
        /\ InBlock(stream, block, Here.end, {"code", "command"}, Here.from)
    <2>1. Link(stream, At) /\ Here.end \in Nat /\ At < Here.end
      BY <1>1, <1>2, ElementFacts DEF IInv
    <2> QED
      BY <1>1, <1>2, <2>1 DEF Link, CodeLink
  <1>4. /\ bit_pos' \in Nat /\ bit_pos' <= 8 * held /\ At' = Here.end
    <2>1. /\ bit_pos' \in Nat /\ bit_pos' <= 8 * held
          /\ 8 * first + bit_pos' = Here.end
      BY <1>1, <1>2, <1>3, MovedTo DEF IInv
    <2> QED
      BY <1>1, <2>1 DEF At
  <1>5. ResumesInPlace'
    BY <1>1, <1>2, <1>3, <1>4 DEF ResumesInPlace, InBlock, BodyKinds, Starts,
       streamVars, outputVars, stateVars
  <1>6. BlockInv'
    <2>1. block < At' /\ At' < stream.elem[block].stop
      BY <1>2, <1>3, <1>4
    <2> QED
      BY <1>1, <2>1 DEF IInv, BlockInv, Starts, streamVars, outputVars,
         stateVars
  <1>7. OutputInv' /\ HistoryCoversWindow'
    BY <1>1 DEF IInv, OutputInv, HistoryCoversWindow, streamVars, outputVars,
       stateVars
  <1>8. HeldInv' /\ CallInv'
    BY <1>1, GoOn
  <1>9. TypeOK'
    BY <1>1, <1>4 DEF IInv, TypeOK, streamVars, outputVars, stateVars,
       callVars, callerVars
  <1>10. SlicesInRange'
    BY <1>1, <1>4 DEF IInv, SlicesInRange, outputVars, callVars
  <1> QED
    BY <1>5, <1>6, <1>7, <1>8, <1>9, <1>10 DEF IInv

\* A step that stopped for room at the decoded end d: what the call returns.
LEMMA StopForRoomFacts ==
  ASSUME IInv, pc = "step", NEW d \in Nat, decoded <= d,
         NEW b \in Nat, b <= 8 * held, StopForRoom(d, b)
  PROVE  /\ decoded' = d
         /\ written' \in Nat /\ written' <= d
         /\ wrote' \in Nat /\ wrote' <= room /\ room' = room
         /\ held' \in Nat /\ fed' \in Nat /\ delivered' \in Nat
         /\ bit_pos' = b /\ b <= 8 * held' /\ first' = first
         /\ status' \in Statuses /\ pc' = "idle" /\ taken' = NotTaken
         /\ input' = 0 /\ offered' = 0
         /\ first' + held' = fed' + offered'
  <1> DEFINE count == Smaller(d - written, room - wrote)
  <1>1. /\ decoded' = d /\ written' = written + count
        /\ Return("NeedsOutput", wrote + count, b)
    BY DEF StopForRoom
  <1>2. written = decoded /\ written \in Nat /\ wrote \in Nat /\ room \in Nat
        /\ wrote <= room /\ state # "Failed"
    BY StreamFacts DEF IInv, TypeOK, SlicesInRange, CallInv
  <1>3. count \in Nat /\ written + count <= d /\ wrote + count <= room
    BY <1>2 DEF Smaller
  <1> HIDE DEF count
  <1>4. wrote + count \in Nat
    BY <1>2, <1>3
  <1>5. /\ held' \in Nat /\ fed' \in Nat /\ delivered' \in Nat
        /\ bit_pos' = b /\ b <= 8 * held'
        /\ first' = first
        /\ state # "Failed" => first' + held' = fed' + offered'
        /\ pc' = "idle" /\ status' = "NeedsOutput" /\ taken' = NotTaken
        /\ input' = 0 /\ offered' = 0 /\ room' = room /\ wrote' = wrote + count
    BY <1>1, <1>4, ReturnFacts DEF IInv, Statuses
  <1>6. written' \in Nat /\ written' <= d
    BY <1>1, <1>2, <1>3
  <1>7. first' + held' = fed' + offered'
    BY <1>2, <1>5
  <1> QED
    BY <1>1, <1>3, <1>4, <1>5, <1>6, <1>7 DEF Statuses

LEMMA StopStoredStep ==
  ASSUME IInv, StopStored
  PROVE  IInv'
  <1>1. /\ pc = "step" /\ StopForRoom(decoded, bit_pos)
        /\ UNCHANGED <<streamVars, stateVars, out_len, output_base>>
        /\ decoded \in Nat /\ bit_pos \in Nat /\ bit_pos <= 8 * held
    BY DEF StopStored, InState, IInv, TypeOK, SlicesInRange
  <1>2. /\ decoded' = decoded
        /\ written' \in Nat /\ written' <= decoded
        /\ wrote' \in Nat /\ wrote' <= room /\ room' = room
        /\ held' \in Nat /\ fed' \in Nat /\ delivered' \in Nat
        /\ bit_pos' = bit_pos /\ bit_pos <= 8 * held' /\ first' = first
        /\ status' \in Statuses /\ pc' = "idle" /\ taken' = NotTaken
        /\ input' = 0 /\ offered' = 0
        /\ first' + held' = fed' + offered'
    BY <1>1, StopForRoomFacts
  <1>3. ResumesInPlace' /\ HistoryCoversWindow' /\ OutputInv' /\ BlockInv'
    BY <1>1, <1>2, SamePlace DEF At
  <1>4. TypeOK'
    BY <1>1, <1>2 DEF IInv, TypeOK, streamVars, stateVars
  <1>5. SlicesInRange'
    <2>1. out_len' = out_len
      BY <1>1
    <2> QED
      BY <1>2, <2>1 DEF IInv, SlicesInRange
  <1>6. HeldInv' /\ CallInv'
    BY <1>2 DEF HeldInv, CallInv
  <1> QED
    BY <1>3, <1>4, <1>5, <1>6 DEF IInv

\* The loop reaches p: p lies in the meta-block, its input has been taken up
\* to it, and its output follows what is decoded.
LEMMA BodyFacts ==
  ASSUME IInv, NEW p \in Starts(stream), BodyReaches(p)
  PROVE  /\ state = "Compressed" /\ pc = "step"
         /\ p \in Nat /\ At \in Nat /\ At <= p /\ block < p /\ p < Header.stop
         /\ InBlock(stream, block, p, {"code"} \cup BodyKinds, stream.elem[p].from)
         /\ InOutput(stream.elem[p].from) \in Nat
         /\ decoded <= InOutput(stream.elem[p].from)
         /\ output_base + InOutput(stream.elem[p].from) = stream.elem[p].from
         /\ stream.elem[p].from <= stream.elem[p].reach
         /\ stream.elem[p].from < Header.from + Header.len
         /\ p <= 8 * (first + held)
  <1>1. /\ state = "Compressed" /\ pc = "step" /\ At <= p /\ p < Header.stop
        /\ \A q \in Starts(stream) :
             At <= q /\ q < p => ~(BodyStops(q) \/ BodyShort(q))
    BY DEF BodyReaches, InState
  <1>2. /\ At \in Starts(stream) /\ At \in Nat
        /\ Here.from = output_base + decoded /\ Here = stream.elem[At]
        /\ block \in Starts(stream) /\ block \in Nat /\ block < At
        /\ Header = stream.elem[block] /\ Header.end \in Nat
        /\ Header.stop \in Nat /\ HoldsBlock(stream, block)
        /\ output_base <= Header.from /\ Header.from \in Nat /\ Header.len \in Nat
    BY <1>1, CompressedFacts
  <1>3. p \in Nat /\ stream.elem[p].from \in Nat /\ stream.elem[p].reach \in Nat
    BY ElementFacts DEF IInv
  <1>4. block < p
    BY <1>1, <1>2, <1>3
  <1>5. /\ InBlock(stream, block, p, {"code"} \cup BodyKinds, stream.elem[p].from)
        /\ stream.elem[p].from <= stream.elem[p].reach
        /\ stream.elem[p].from < Header.from + Header.len
        /\ Header.end < p =>
             \E r \in Starts(stream) : block < r /\ r < p /\ stream.elem[r].end = p
    BY <1>1, <1>2, <1>4 DEF HoldsBlock
  <1>6. stream.elem[At].from <= stream.elem[p].from
    BY <1>1, <1>2, OutputOrder DEF IInv
  <1>7. decoded \in Nat /\ output_base \in Nat /\ bit_pos \in Nat /\ held \in Nat
        /\ first \in Nat /\ bit_pos <= 8 * held
    BY DEF IInv, TypeOK, SlicesInRange
  <1>8. /\ InOutput(stream.elem[p].from) \in Nat
        /\ decoded <= InOutput(stream.elem[p].from)
        /\ output_base + InOutput(stream.elem[p].from) = stream.elem[p].from
    BY <1>2, <1>3, <1>6, <1>7 DEF InOutput
  <1>9. p <= 8 * (first + held)
    <2>1. CASE p = At
      BY <1>7, <2>1 DEF At
    <2>2. CASE At < p
      <3>1. InOrder(stream)
        BY StreamFacts DEF IInv, WellFormed
      <3>2. Header.end <= At
        BY <1>2, <3>1, ElementFacts DEF IInv, InOrder, PayloadEnd
      <3>3. PICK r \in Starts(stream) :
              block < r /\ r < p /\ stream.elem[r].end = p
        <4>1. Header.end < p
          BY <1>2, <1>3, <2>2, <3>2
        <4> QED
          BY <1>5, <4>1
      <3>4. r \in Nat
        BY ElementFacts DEF IInv
      <3>5. At <= r
        <4>1. r < At => stream.elem[r].end <= At
          BY <1>2, <3>1, ElementFacts DEF IInv, InOrder, PayloadEnd
        <4> QED
          BY <1>2, <1>3, <2>2, <3>3, <3>4, <4>1
      <3>6. HasBits(stream.elem[r].end)
        BY <1>1, <3>3, <3>5 DEF BodyShort
      <3> QED
        BY <3>3, <3>6 DEF HasBits
    <2> QED
      BY <1>1, <1>2, <1>3, <2>1, <2>2
  <1> QED
    BY <1>1, <1>2, <1>3, <1>4, <1>5, <1>8, <1>9

\* A checkpoint from the one at hand up to p.
LEMMA CheckpointFacts ==
  ASSUME IInv, NEW p \in Starts(stream), BodyReaches(p),
         NEW c \in Starts(stream), At <= c, c <= p
  PROVE  /\ Checkpoint(c) \in Nat
         /\ Checkpoint(c) <= 8 * held
         /\ 8 * first + Checkpoint(c) = c
  <1>1. p <= 8 * (first + held) /\ c \in Nat /\ p \in Nat
    BY BodyFacts, ElementFacts DEF IInv
  <1>2. first \in Nat /\ held \in Nat /\ bit_pos \in Nat
    BY DEF IInv, TypeOK
  <1> QED
    BY <1>1, <1>2 DEF Checkpoint, At

\* grow_room has made room for what is decoded up to p.
LEMMA GrownFacts ==
  ASSUME IInv, NEW p \in Starts(stream), BodyReaches(p), NEW l \in Grown(p)
  PROVE  l \in Nat /\ InOutput(stream.elem[p].from) <= l
  <1> DEFINE space == InOutput(Header.from) + Header.len + Slack
             reach == InOutput(stream.elem[p].reach) + Slack
             low == Larger(out_len, Smaller(reach, space))
             high == Larger(out_len, Smaller(reach + ZeroAhead, space))
  <1>1. /\ InOutput(stream.elem[p].from) \in Nat
        /\ stream.elem[p].from <= stream.elem[p].reach
        /\ stream.elem[p].from < Header.from + Header.len
        /\ state = "Compressed"
    BY BodyFacts
  <1>2. /\ stream.elem[p].from \in Nat /\ stream.elem[p].reach \in Nat
        /\ Header.from \in Nat /\ Header.len \in Nat
        /\ Slack \in Nat /\ ZeroAhead \in Nat /\ out_len \in Nat
        /\ output_base \in Nat
    BY <1>1, ElementFacts, CompressedFacts, StreamFacts DEF IInv, TypeOK
  <1>3. space \in Int /\ reach \in Int
        /\ InOutput(stream.elem[p].from) <= space
        /\ InOutput(stream.elem[p].from) <= reach
    BY <1>1, <1>2 DEF InOutput
  <1>4. l \in low .. high
    BY DEF Grown
  <1> HIDE DEF space, reach
  <1>5. low \in Int /\ high \in Int /\ out_len <= low
        /\ InOutput(stream.elem[p].from) <= low
    BY <1>1, <1>2, <1>3 DEF Larger, Smaller
  <1> QED
    BY <1>1, <1>2, <1>4, <1>5

\* Where the decoder is once it is at p.
LEMMA AtElement ==
  ASSUME IInv, NEW p \in Starts(stream), BodyReaches(p),
         bit_pos' = Checkpoint(p), first' = first,
         decoded' = InOutput(stream.elem[p].from),
         UNCHANGED <<streamVars, stateVars, output_base>>
  PROVE  ResumesInPlace' /\ HistoryCoversWindow' /\ OutputInv' /\ BlockInv'
  <1>1. /\ state = "Compressed"
        /\ p \in Nat /\ block < p /\ p < Header.stop
        /\ InBlock(stream, block, p, {"code"} \cup BodyKinds, stream.elem[p].from)
        /\ decoded <= decoded' /\ decoded' \in Nat
        /\ output_base + decoded' = stream.elem[p].from
    BY BodyFacts
  <1>2. At' = p
    BY CheckpointFacts, BodyFacts DEF At
  <1>3. /\ stream' = stream /\ state' = "Compressed" /\ block' = block
        /\ window' = window /\ output_base' = output_base
    BY <1>1 DEF streamVars, stateVars
  <1>4. ResumesInPlace'
    BY <1>1, <1>2, <1>3 DEF ResumesInPlace
  <1>5. BlockInv'
    BY <1>1, <1>2, <1>3 DEF IInv, BlockInv, Starts, Header
  <1>6. OutputInv'
    BY <1>1, <1>3 DEF IInv, OutputInv
  <1>7. HistoryCoversWindow'
    <2>1. output_base = 0 \/ decoded >= window
      BY <1>1 DEF IInv, HistoryCoversWindow
    <2>2. window \in Nat /\ decoded \in Nat
      BY <1>1, CompressedFacts, StreamFacts DEF IInv, TypeOK
    <2> QED
      BY <1>1, <1>3, <2>1, <2>2 DEF HistoryCoversWindow
  <1> QED
    BY <1>4, <1>5, <1>6, <1>7

LEMMA BodyStopStep ==
  ASSUME IInv, NEW p \in Starts(stream), BodyStop(p)
  PROVE  IInv'
  <1> DEFINE d == InOutput(stream.elem[p].from)
  <1>1. /\ BodyReaches(p) /\ out_len' \in Grown(p)
        /\ StopForRoom(d, Checkpoint(p))
        /\ UNCHANGED <<streamVars, stateVars, output_base>>
    BY DEF BodyStop
  <1>2. d \in Nat /\ decoded <= d /\ pc = "step" /\ At <= p
    BY <1>1, BodyFacts
  <1>3. out_len' \in Nat /\ d <= out_len'
    BY <1>1, GrownFacts
  <1>4. Checkpoint(p) \in Nat /\ Checkpoint(p) <= 8 * held
    BY <1>1, <1>2, CheckpointFacts, ElementFacts DEF IInv
  <1>5. /\ decoded' = d
        /\ written' \in Nat /\ written' <= d
        /\ wrote' \in Nat /\ wrote' <= room /\ room' = room
        /\ held' \in Nat /\ fed' \in Nat /\ delivered' \in Nat
        /\ bit_pos' = Checkpoint(p) /\ Checkpoint(p) <= 8 * held'
        /\ first' = first
        /\ status' \in Statuses /\ pc' = "idle" /\ taken' = NotTaken
        /\ input' = 0 /\ offered' = 0
        /\ first' + held' = fed' + offered'
    BY <1>1, <1>2, <1>4, StopForRoomFacts
  <1>6. ResumesInPlace' /\ HistoryCoversWindow' /\ OutputInv' /\ BlockInv'
    BY <1>1, <1>5, AtElement
  <1> HIDE DEF d
  <1>7. TypeOK'
    BY <1>1, <1>2, <1>3, <1>4, <1>5 DEF IInv, TypeOK, streamVars, stateVars
  <1>8. SlicesInRange'
    BY <1>3, <1>5 DEF SlicesInRange
  <1>9. HeldInv' /\ CallInv'
    BY <1>5 DEF HeldInv, CallInv
  <1> QED
    BY <1>6, <1>7, <1>8, <1>9 DEF IInv

LEMMA BodyRunOutStep ==
  ASSUME IInv, NEW p \in Starts(stream), BodyRunOut(p)
  PROVE  IInv'
  <1>1. /\ BodyReaches(p) /\ out_len' \in Grown(p)
        /\ decoded' = InOutput(stream.elem[p].from)
        /\ bit_pos' = Checkpoint(p)
        /\ pc' = "short"
        /\ UNCHANGED <<streamVars, stateVars, first, held, output_base,
                       written, callVars, callerVars, wrote>>
    BY DEF BodyRunOut, RunOut
  <1>2. decoded' \in Nat /\ decoded <= decoded' /\ pc = "step" /\ At <= p
    BY <1>1, BodyFacts
  <1>3. out_len' \in Nat /\ decoded' <= out_len'
    BY <1>1, GrownFacts
  <1>4. bit_pos' \in Nat /\ bit_pos' <= 8 * held
    BY <1>1, <1>2, CheckpointFacts, ElementFacts DEF IInv
  <1>5. ResumesInPlace' /\ HistoryCoversWindow' /\ OutputInv' /\ BlockInv'
    BY <1>1, AtElement
  <1>6. HeldInv' /\ CallInv'
    BY <1>1, <1>2, GoOn DEF stateVars
  <1>7. TypeOK'
    BY <1>1, <1>2, <1>3, <1>4 DEF IInv, TypeOK, streamVars, stateVars,
       callVars, callerVars
  <1>8. SlicesInRange'
    <2>1. written' <= decoded'
      BY <1>1, <1>2 DEF IInv, TypeOK, SlicesInRange
    <2> QED
      BY <1>1, <1>3, <1>4, <2>1 DEF IInv, SlicesInRange, callVars
  <1> QED
    BY <1>5, <1>6, <1>7, <1>8 DEF IInv

LEMMA BodyRejectStep ==
  ASSUME IInv, NEW p \in Starts(stream), BodyReject(p)
  PROVE  IInv'
  <1> DEFINE d == InOutput(stream.elem[p].from)
  <1>1. /\ BodyReaches(p) /\ decoded' = d
        /\ UNCHANGED <<streamVars, first, held, output_base, written, window,
                       remaining, block>>
    BY DEF BodyReject
  <1>2. PICK l \in Grown(p) : Fail(d, l)
    BY DEF BodyReject
  <1>3. PICK c \in Starts(stream) : At <= c /\ c <= p /\ bit_pos' = Checkpoint(c)
    BY DEF BodyReject
  <1>4. d \in Nat /\ decoded <= d /\ pc = "step"
    BY <1>1, BodyFacts
  <1>5. l \in Nat /\ d <= l
    BY <1>1, GrownFacts
  <1>6. bit_pos' \in Nat /\ bit_pos' <= 8 * held
    BY <1>1, <1>3, CheckpointFacts
  <1> HIDE DEF d
  <1>7. /\ written' \in Nat /\ written' <= d /\ output_base' \in Nat
    BY <1>1, <1>4 DEF IInv, TypeOK, SlicesInRange
  <1> QED
    BY <1>1, <1>2, <1>4, <1>5, <1>6, <1>7, FailStep

LEMMA BodyDoneStep ==
  ASSUME IInv, NEW p \in Starts(stream), BodyDone(p)
  PROVE  IInv'
  <1> DEFINE needed == InOutput(Header.from) + Header.len
  <1>1. /\ BodyReaches(p)
        /\ ~(BodyStops(p) \/ BodyShort(p))
        /\ stream.elem[p].end = Header.stop
        /\ decoded' = needed /\ out_len' = needed
        /\ bit_pos' = Checkpoint(Header.stop)
        /\ state' = IF ~Header.last THEN "MetaBlockHeader"
                    ELSE IF stream.elem[Header.stop].ok THEN "Done"
                    ELSE "Failed"
        /\ pc' = "top"
        /\ UNCHANGED <<streamVars, first, held, output_base, written, window,
                       remaining, block, callVars, callerVars, wrote>>
    BY DEF BodyDone, Continue
  <1>2. /\ state = "Compressed" /\ pc = "step" /\ At <= p /\ p < Header.stop
        /\ p \in Nat /\ At \in Nat
    BY <1>1, BodyFacts
  <1>3. /\ block \in Starts(stream) /\ Header = stream.elem[block]
        /\ Header.from \in Nat /\ Header.len \in Nat /\ Header.stop \in Nat
        /\ output_base <= Header.from /\ window = stream.window
        /\ AfterBlock(stream, block)
        /\ At \in Starts(stream) /\ Here = stream.elem[At]
        /\ Here.from = output_base + decoded
        /\ block < At /\ At < Header.stop /\ HoldsBlock(stream, block)
    BY <1>2, CompressedFacts
  <1>4. /\ output_base \in Nat /\ decoded \in Nat /\ written \in Nat
        /\ written <= decoded
    BY DEF IInv, TypeOK, SlicesInRange
  <1>5. needed \in Nat /\ output_base + needed = Header.from + Header.len
    BY <1>3, <1>4 DEF InOutput
  <1>6. decoded <= needed
    <2>1. Here.from < Header.from + Header.len
      BY <1>3 DEF HoldsBlock
    <2> QED
      BY <1>3, <1>4, <1>5, <2>1
  <1> HIDE DEF needed
  <1>7. /\ bit_pos' \in Nat /\ bit_pos' <= 8 * held /\ At' = Header.stop
    <2>1. HasBits(Header.stop)
      BY <1>1 DEF BodyShort
    <2>2. At <= Header.stop
      BY <1>2, <1>3
    <2>3. /\ Header.stop - 8 * first \in Nat /\ Header.stop - 8 * first <= 8 * held
          /\ 8 * first + (Header.stop - 8 * first) = Header.stop
      BY <1>3, <2>1, <2>2, MovedTo DEF IInv
    <2>4. first' = first /\ bit_pos' = Header.stop - 8 * first
      BY <1>1 DEF Checkpoint
    <2> QED
      BY <2>3, <2>4 DEF At
  <1>8. /\ stream' = stream /\ block' = block /\ output_base' = output_base
        /\ window' = window /\ decoded' = needed
    BY <1>1 DEF streamVars
  <1>9. ResumesInPlace'
    <2>1. CASE Header.last
      BY <1>1, <2>1 DEF ResumesInPlace
    <2>2. CASE ~Header.last
      <3>1. HeaderAt(stream, Header.stop, Header.from + Header.len)
        BY <1>3, <2>2 DEF AfterBlock
      <3>2. HeaderAt(stream, At', output_base' + decoded')
        BY <1>5, <1>7, <1>8, <3>1
      <3>3. state' = "MetaBlockHeader"
        BY <1>1, <2>2
      <3> QED
        BY <1>8, <3>2, <3>3 DEF ResumesInPlace
    <2> QED
      BY <2>1, <2>2
  <1>10. state' \in {"MetaBlockHeader", "Done", "Failed"}
    BY <1>1
  <1>11. BlockInv'
    BY <1>3, <1>8, <1>10 DEF BlockInv, Starts
  <1>12. OutputInv'
    BY <1>1, <1>3, <1>8, <1>10 DEF OutputInv
  <1>13. HistoryCoversWindow'
    <2>1. output_base = 0 \/ decoded >= window
      BY <1>2 DEF IInv, HistoryCoversWindow
    <2>2. window \in Nat
      BY <1>3, StreamFacts DEF IInv
    <2> QED
      BY <1>4, <1>5, <1>6, <1>8, <2>1, <2>2 DEF HistoryCoversWindow
  <1>14. HeldInv' /\ CallInv'
    BY <1>1, <1>2, GoOn
  <1>15. TypeOK'
    BY <1>1, <1>5, <1>7, <1>10 DEF IInv, TypeOK, States, streamVars, callVars,
       callerVars
  <1>16. SlicesInRange'
    <2>1. written' <= decoded' /\ decoded' <= out_len'
      BY <1>1, <1>4, <1>5, <1>6
    <2> QED
      BY <1>1, <1>7, <2>1 DEF IInv, SlicesInRange, callVars
  <1> QED
    BY <1>9, <1>11, <1>12, <1>13, <1>14, <1>15, <1>16 DEF IInv

(***************************************************************************)
(* The invariant holds of every behaviour.                                 *)
(***************************************************************************)
LEMMA InitInv ==
  ASSUME Init
  PROVE  IInv
  <1>1. TypeOK
    BY PushDecoderAssumption DEF Init, TypeOK, States, Statuses
  <1>2. SlicesInRange /\ HeldInv /\ HistoryCoversWindow /\ CallInv
    BY DEF Init, SlicesInRange, HeldInv, HistoryCoversWindow, CallInv
  <1>3. ResumesInPlace
    BY DEF Init, ResumesInPlace, At
  <1>4. OutputInv /\ BlockInv
    BY <1>1, StreamFacts DEF Init, OutputInv, BlockInv
  <1> QED
    BY <1>1, <1>2, <1>3, <1>4 DEF IInv

LEMMA ReturnsKeep ==
  ASSUME IInv,
         ReturnOutputLeft \/ ReturnBeforeError \/ ShortOutputLeft \/ ShortNeedsInput
  PROVE  IInv'
  <1>1. PICK s \in Statuses :
          /\ s = "NeedsInput" => offered = input
          /\ WriteThenReturn(s)
          /\ UNCHANGED <<streamVars, stateVars, out_len, output_base, decoded>>
    BY DEF ReturnOutputLeft, ReturnBeforeError, ShortOutputLeft,
       ShortNeedsInput, Statuses
  <1> QED
    BY <1>1, WriteThenReturnStep

LEMMA ShortsKeep ==
  ASSUME IInv,
         ShortStreamHeader \/ ShortStored \/ ShortMetadata \/ ShortCode
  PROVE  IInv'
  BY RunOutStep DEF ShortStreamHeader, ShortStored, ShortMetadata, ShortCode,
     InState

LEMMA RejectsKeep ==
  ASSUME IInv, RejectStreamHeader \/ RejectCode
  PROVE  IInv'
  BY FailHere DEF RejectStreamHeader, RejectCode, InState

LEMMA StepKeeps ==
  ASSUME IInv, Step
  PROVE  IInv'
  <1>1. ASSUME NEW p \in Starts(stream), Body(p)
        PROVE  IInv'
    BY <1>1, BodyStopStep, BodyRunOutStep, BodyRejectStep, BodyDoneStep DEF Body
  <1> QED
    BY <1>1, ReadStreamHeaderStep, RejectsKeep, ShortsKeep, ReadLastEmptyStep,
       ReadMetadataHeaderStep, ReadUncompressedHeaderStep,
       ReadCompressedHeaderStep, RejectHeaderStep, ShortHeaderStep,
       CopyStoredStep, StopStoredStep, SkipMetadataStep, ReadCodeStep
       DEF Step

LEMMA Stutters ==
  ASSUME IInv, UNCHANGED vars
  PROVE  IInv'
  <1>1. At' = At /\ UNCHANGED <<streamVars, stateVars, out_len, output_base,
                                decoded>>
    BY DEF vars, At, inputVars, outputVars
  <1>2. ResumesInPlace' /\ HistoryCoversWindow' /\ OutputInv' /\ BlockInv'
    BY <1>1, SamePlace
  <1>3. TypeOK' /\ SlicesInRange' /\ HeldInv' /\ CallInv'
    BY DEF vars, streamVars, inputVars, outputVars, stateVars, callVars,
       callerVars, IInv, TypeOK, SlicesInRange, HeldInv, CallInv
  <1> QED
    BY <1>2, <1>3 DEF IInv

LEMMA NextKeeps ==
  ASSUME IInv, [Next]_vars
  PROVE  IInv'
  <1>1. CASE \E n \in Offers, r \in Rooms : Call(n, r)
    BY <1>1, CallStep
  <1>2. CASE Loop
    BY <1>2, ReturnsKeep, ReturnFinishedStep, ReturnErrorStep, BeginStepStep,
       StepKeeps, ShortTakePieceStep DEF Loop
  <1>3. CASE UNCHANGED vars
    BY <1>3, Stutters
  <1> QED
    BY <1>1, <1>2, <1>3 DEF Next

\* Every reachable state satisfies the inductive invariant.
THEOREM Inductive == Spec => []IInv
  <1>1. Init => IInv
    BY InitInv
  <1>2. IInv /\ [Next]_vars => IInv'
    BY NextKeeps
  <1> QED
    BY <1>1, <1>2, PTL DEF Spec

\* Type correctness of the decoder and the call's locals.
THEOREM TypeCorrect == Spec => []TypeOK
  <1>1. IInv => TypeOK
    BY DEF IInv
  <1> QED
    BY <1>1, Inductive, PTL

\* No slice index of decompress is out of range, whatever the pieces.
THEOREM NoPanic == Spec => []SlicesInRange
  <1>1. IInv => SlicesInRange
    BY DEF IInv
  <1> QED
    BY <1>1, Inductive, PTL

\* Every step resumes at the element the stream has there, at its output
\* position.
THEOREM Resumes == Spec => []ResumesInPlace
  <1>1. IInv => ResumesInPlace
    BY DEF IInv
  <1> QED
    BY <1>1, Inductive, PTL

\* Compaction never drops history a copy within the window may reach.
THEOREM KeepsWindow == Spec => []HistoryCoversWindow
  <1>1. IInv => HistoryCoversWindow
    BY DEF IInv
  <1> QED
    BY <1>1, Inductive, PTL

(***************************************************************************)
(* What follows for the caller.                                            *)
(***************************************************************************)
\* An error the caller got stays: the output is written and the next call
\* comes to it before it writes anything.
ErrorInv ==
  status = "Error" =>
    /\ state = "Failed" /\ written = decoded
    /\ pc = "idle" \/ (pc = "top" /\ wrote = 0)

\* Output left over means that the slice is full.
LEMMA LeftOver ==
  ASSUME IInv, written + Writable < decoded
  PROVE  wrote + Writable = room
  <1>1. written \in Nat /\ decoded \in Nat /\ wrote \in Nat /\ room \in Nat
    BY StreamFacts DEF IInv, TypeOK
  <1> QED
    BY <1>1 DEF Writable, Smaller

\* A step that stopped at StopAt or later filled the slice.
LEMMA StoppedFull ==
  ASSUME IInv, pc = "step", NEW d \in Nat, StopAt <= d
  PROVE  Smaller(d - written, room - wrote) = room - wrote
  <1>1. written = decoded /\ decoded \in Nat /\ wrote \in Nat /\ room \in Nat
    BY StreamFacts DEF IInv, TypeOK, CallInv
  <1> QED
    BY <1>1 DEF StopAt, Smaller

\* With nothing left to write, the next turn of the loop writes nothing.
LEMMA NothingLeft ==
  ASSUME IInv, written = decoded
  PROVE  Writable = 0
  <1>1. decoded \in Nat /\ wrote \in Nat /\ room \in Nat /\ wrote <= room
    BY StreamFacts DEF IInv, TypeOK, SlicesInRange
  <1> QED
    BY <1>1 DEF Writable, Smaller

LEMMA ErrorKeeps ==
  ASSUME IInv, ErrorInv, [Next]_vars
  PROVE  ErrorInv' /\ (status = "Error" => status' = "Error" /\ delivered' = delivered)
  <1>1. CASE status = "Error" /\ pc = "idle"
    <2>1. CASE \E n \in Offers, r \in Rooms : Call(n, r)
      BY <1>1, <2>1 DEF Call, ErrorInv, outputVars, stateVars, callerVars
    <2>2. CASE UNCHANGED vars
      BY <1>1, <2>2 DEF vars, ErrorInv, outputVars, stateVars, callerVars
    <2>3. ~Loop
      BY <1>1 DEF Loop, ReturnOutputLeft, ReturnFinished, ReturnError,
         ReturnBeforeError, BeginStep, ShortOutputLeft, ShortNeedsInput,
         ShortTakePiece, Step, ReadStreamHeader, RejectStreamHeader,
         ShortStreamHeader, ReadLastEmpty, ReadMetadataHeader,
         ReadUncompressedHeader, ReadCompressedHeader, ReadHeader,
         RejectHeader, ShortHeader, CopyStored, StopStored, ShortStored,
         SkipMetadata, ShortMetadata, ReadCode, RejectCode, ShortCode, Body,
         BodyStop, BodyRunOut, BodyReject, BodyDone, BodyReaches, InState
    <2> QED
      BY <2>1, <2>2, <2>3 DEF Next
  <1>2. CASE status = "Error" /\ pc = "top"
    <2>1. state = "Failed" /\ written = decoded /\ wrote = 0 /\ Writable = 0
          /\ decoded \in Nat
      BY <1>2, NothingLeft DEF ErrorInv, IInv, TypeOK
    <2>2. CASE ReturnError
      BY <2>1, <2>2 DEF ReturnError, ErrorInv, outputVars, stateVars
    <2>3. CASE UNCHANGED vars
      BY <1>2, <2>3 DEF vars, ErrorInv, outputVars, stateVars, callerVars
    <2>4. ~(\E n \in Offers, r \in Rooms : Call(n, r))
      BY <1>2 DEF Call
    <2>5. ~ReturnOutputLeft /\ ~ReturnBeforeError
      BY <2>1 DEF ReturnOutputLeft, ReturnBeforeError
    <2>6. ~ReturnFinished /\ ~BeginStep
      BY <2>1 DEF ReturnFinished, BeginStep
    <2>7. ~Step /\ ~ShortOutputLeft /\ ~ShortNeedsInput /\ ~ShortTakePiece
      BY <1>2 DEF ShortOutputLeft, ShortNeedsInput,
         ShortTakePiece, Step, ReadStreamHeader, RejectStreamHeader,
         ShortStreamHeader, ReadLastEmpty, ReadMetadataHeader,
         ReadUncompressedHeader, ReadCompressedHeader, ReadHeader,
         RejectHeader, ShortHeader, CopyStored, StopStored, ShortStored,
         SkipMetadata, ShortMetadata, ReadCode, RejectCode, ShortCode, Body,
         BodyStop, BodyRunOut, BodyReject, BodyDone, BodyReaches, InState
    <2> QED
      BY <2>2, <2>3, <2>4, <2>5, <2>6, <2>7 DEF Next, Loop
  <1>3. CASE status # "Error"
    <2>1. CASE ReturnError
      <3>1. written + Writable = decoded /\ wrote + Writable = 0 /\ state = "Failed"
        BY <2>1 DEF ReturnError
      <3>2. Writable \in Nat /\ wrote \in Nat /\ written \in Nat
        BY WritableFacts DEF IInv, TypeOK
      <3>3. written = decoded
        BY <3>1, <3>2
      <3> QED
        BY <1>3, <2>1, <3>1, <3>3 DEF ReturnError, ErrorInv, outputVars, stateVars
    <2>2. CASE ~ReturnError
      <3>1. status' # "Error"
        BY <1>3, <2>2 DEF Next, vars, Call, Loop, ReturnOutputLeft,
           ReturnFinished, ReturnBeforeError, BeginStep, ShortOutputLeft,
           ShortNeedsInput, WriteThenReturn, Return, StopForRoom,
           ShortTakePiece, Step, ReadStreamHeader, RejectStreamHeader,
           ShortStreamHeader, ReadLastEmpty, ReadMetadataHeader,
           ReadUncompressedHeader, ReadCompressedHeader, RejectHeader,
           ShortHeader, CopyStored, StopStored, ShortStored, SkipMetadata,
           ShortMetadata, ReadCode, RejectCode, ShortCode, Body, BodyStop,
           BodyRunOut, BodyReject, BodyDone, Continue, RunOut, Fail, callerVars
      <3> QED
        BY <1>3, <3>1 DEF ErrorInv
    <2> QED
      BY <2>1, <2>2
  <1> QED
    BY <1>1, <1>2, <1>3 DEF ErrorInv

\* An error is final: every later call returns it and writes nothing.
THEOREM ErrorStays == Spec => ErrorIsFinal
  <1>1. Init => ErrorInv
    BY DEF Init, ErrorInv
  <1>2. IInv /\ ErrorInv /\ [Next]_vars => ErrorInv'
    BY ErrorKeeps
  <1>3. IInv /\ ErrorInv /\ [Next]_vars =>
          [status = "Error" => status' = "Error" /\ delivered' = delivered]_vars
    BY ErrorKeeps
  <1> QED
    BY <1>1, <1>2, <1>3, Inductive, PTL DEF Spec, ErrorIsFinal

\* A failed decoder writes output, returns the error or is called again.
LEMMA FailedMoves ==
  ASSUME IInv, Next, state = "Failed"
  PROVE  \/ \E n \in Offers, r \in Rooms : Call(n, r)
         \/ ReturnOutputLeft \/ ReturnBeforeError \/ ReturnError
  <1>1. pc \notin {"step", "short"}
    BY DEF IInv, CallInv
  <1> QED
    BY <1>1 DEF Next, Loop, ReturnFinished, BeginStep, ShortOutputLeft,
       ShortNeedsInput, ShortTakePiece, Step, ReadStreamHeader,
       RejectStreamHeader, ShortStreamHeader, ReadLastEmpty,
       ReadMetadataHeader, ReadUncompressedHeader, ReadCompressedHeader,
       ReadHeader, RejectHeader, ShortHeader, CopyStored, StopStored,
       ShortStored, SkipMetadata, ShortMetadata, ReadCode, RejectCode,
       ShortCode, Body, BodyStop, BodyRunOut, BodyReject, BodyDone,
       BodyReaches, InState

\* A decoder fails in a step that takes and gives back no input.
LEMMA FailingStep ==
  ASSUME IInv, Next, state # "Failed", state' = "Failed"
  PROVE  UNCHANGED <<first, held, fed, offered>>
  BY DEF Next, Call, Loop, ReturnOutputLeft, ReturnFinished, ReturnError,
     ReturnBeforeError, BeginStep, ShortOutputLeft, ShortNeedsInput,
     ShortTakePiece, Step, ReadStreamHeader, RejectStreamHeader,
     ShortStreamHeader, ReadLastEmpty, ReadMetadataHeader,
     ReadUncompressedHeader, ReadCompressedHeader, RejectHeader, ShortHeader,
     CopyStored, StopStored, ShortStored, SkipMetadata, ShortMetadata,
     ReadCode, RejectCode, ShortCode, Body, BodyStop, BodyRunOut, BodyReject,
     BodyDone, Continue, Fail, InState, stateVars, inputVars, callVars,
     callerVars

LEMMA HeldKeeps ==
  ASSUME IInv, IInv', ErrorInv, InputConserved, [Next]_vars
  PROVE  InputConserved'
  <1>1. CASE state' # "Failed"
    BY <1>1 DEF IInv, HeldInv, InputConserved
  <1>2. CASE UNCHANGED vars
    BY <1>2 DEF vars, InputConserved, inputVars, callVars, callerVars
  <1>3. CASE Next /\ state' = "Failed" /\ state # "Failed"
    <2>1. UNCHANGED <<first, held, fed, offered>>
      BY <1>3, FailingStep
    <2> QED
      BY <1>3, <2>1 DEF IInv, HeldInv, InputConserved
  <1>4. CASE Next /\ state = "Failed"
    <2>1. CASE \E n \in Offers, r \in Rooms : Call(n, r)
      <3>1. first' + held' = first + held /\ fed' = fed /\ offered' = 0
            /\ offered = 0 /\ status' = status
        <4>1. bit_pos \div 8 \in Nat /\ first \in Nat /\ held \in Nat
          BY BytesFacts DEF IInv, TypeOK
        <4> QED
          BY <2>1, <4>1 DEF Call, IInv, CallInv, callerVars
      <3> QED
        BY <3>1 DEF InputConserved
    <2>2. CASE ReturnError
      BY <2>2 DEF ReturnError, InputConserved
    <2>3. CASE ReturnOutputLeft \/ ReturnBeforeError
      <3>1. PICK s \in Statuses : s # "NeedsInput" /\ WriteThenReturn(s)
        BY <2>3 DEF ReturnOutputLeft, ReturnBeforeError, Statuses
      <3>2. status # "Error"
        <4>1. status = "Error" =>
                written = decoded /\ wrote + Writable = 0 /\ decoded \in Nat
                /\ Writable = 0
          BY <2>3, NothingLeft
             DEF ErrorInv, IInv, TypeOK, ReturnOutputLeft, ReturnBeforeError
        <4> QED
          BY <2>3, <4>1 DEF ReturnOutputLeft, ReturnBeforeError
      <3>3. first + held = fed + offered
        BY <3>2 DEF InputConserved
      <3>4. CASE taken = NotTaken
        BY <3>1, <3>3, <3>4 DEF WriteThenReturn, Return, Consumed,
           InputConserved, IInv, CallInv, TypeOK
      <3>5. CASE taken # NotTaken
        <4>1. Kept(bit_pos) \in Nat /\ taken \in Nat /\ taken <= Kept(bit_pos)
          <5>1. BytesOf(bit_pos) \in Nat
            BY BytesFacts DEF IInv, TypeOK
          <5>2. taken \in Nat /\ held \in Nat /\ taken <= held
            BY <3>5 DEF IInv, TypeOK, CallInv
          <5> QED
            BY <5>1, <5>2 DEF Kept, Smaller, Larger
        <4>2. taken + offered = held /\ ~TakesAll(s)
          BY <3>1, <3>5 DEF IInv, CallInv, TakesAll
        <4>3. held' = Kept(bit_pos) /\ fed' = fed + (Kept(bit_pos) - taken)
              /\ first' = first /\ offered' = 0
          BY <3>1, <3>5, <4>2 DEF WriteThenReturn, Return, Consumed
        <4> QED
          BY <3>3, <4>1, <4>2, <4>3 DEF InputConserved, IInv, TypeOK
      <3> QED
        BY <3>4, <3>5
    <2> QED
      BY <1>4, <2>1, <2>2, <2>3, FailedMoves
  <1> QED
    BY <1>1, <1>2, <1>3, <1>4

\* No input byte is lost or taken twice across calls.
THEOREM ConservesInput == Spec => []InputConserved
  <1>1. Init => ErrorInv /\ InputConserved
    BY DEF Init, ErrorInv, InputConserved
  <1>2. IInv /\ ErrorInv /\ [Next]_vars => ErrorInv'
    BY ErrorKeeps
  <1>3. IInv /\ IInv' /\ ErrorInv /\ InputConserved /\ [Next]_vars =>
          InputConserved'
    BY HeldKeeps
  <1> QED
    BY <1>1, <1>2, <1>3, Inductive, PTL DEF Spec

\* A slice that is full, or a write, keeps NeedsOutput honest.
LEMMA UsedRoom ==
  ASSUME IInv, IInv', room' = room, wrote' = room \/ wrote' # 0
  PROVE  NeedsOutputUsedRoom'
  <1>1. room' \in Nat /\ wrote' \in Nat /\ room \in Nat
    BY StreamFacts DEF IInv, TypeOK
  <1> QED
    BY <1>1 DEF NeedsOutputUsedRoom

\* A write that left output over filled the slice.
LEMMA LeftOverUsed ==
  ASSUME IInv, IInv', WriteThenReturn("NeedsOutput"), written + Writable < decoded
  PROVE  NeedsOutputUsedRoom'
  <1>1. wrote' = wrote + Writable /\ room' = room
    BY DEF WriteThenReturn, Return
  <1> QED
    BY <1>1, LeftOver, UsedRoom

\* A step that stopped at StopAt or later filled the slice.
LEMMA StopUsed ==
  ASSUME IInv, IInv', pc = "step", NEW d \in Nat, StopAt <= d, NEW b,
         StopForRoom(d, b)
  PROVE  NeedsOutputUsedRoom'
  <1>1. wrote' = wrote + (room - wrote) /\ room' = room
    BY StoppedFull DEF StopForRoom, Return
  <1>2. room \in Nat /\ wrote \in Nat
    BY StreamFacts DEF IInv, TypeOK
  <1>3. wrote' = room
    BY <1>1, <1>2
  <1> QED
    BY <1>1, <1>3, UsedRoom

LEMMA NeedsOutputKeeps ==
  ASSUME IInv, IInv', NeedsOutputUsedRoom, [Next]_vars
  PROVE  NeedsOutputUsedRoom'
  <1>1. CASE ReturnOutputLeft \/ ShortOutputLeft
    BY <1>1, LeftOverUsed DEF ReturnOutputLeft, ShortOutputLeft
  <1>2. CASE ReturnBeforeError
    <2>1. wrote' # 0 /\ room' = room
      BY <1>2 DEF ReturnBeforeError, WriteThenReturn, Return
    <2> QED
      BY <2>1, UsedRoom
  <1>3. CASE StopStored
    <2>1. decoded \in Nat /\ StopAt <= decoded /\ pc = "step"
          /\ StopForRoom(decoded, bit_pos)
      BY <1>3 DEF StopStored, InState, IInv, TypeOK
    <2> QED
      BY <2>1, StopUsed
  <1>4. ASSUME NEW p \in Starts(stream), BodyStop(p)
        PROVE  NeedsOutputUsedRoom'
    <2>1. BodyReaches(p) /\ BodyStops(p)
          /\ StopForRoom(InOutput(stream.elem[p].from), Checkpoint(p))
      BY <1>4 DEF BodyStop
    <2>2. /\ InOutput(stream.elem[p].from) \in Nat /\ pc = "step"
          /\ StopAt <= InOutput(stream.elem[p].from)
      BY <2>1, BodyFacts, StopAtFacts DEF BodyStops
    <2> QED
      BY <2>1, <2>2, StopUsed
  <1>5. CASE UNCHANGED vars
    BY <1>5 DEF vars, NeedsOutputUsedRoom, callVars, callerVars
  <1>6. CASE /\ Next
             /\ ~(ReturnOutputLeft \/ ShortOutputLeft \/ ReturnBeforeError)
             /\ ~StopStored
             /\ ~(\E p \in Starts(stream) : BodyStop(p))
    <2>1. pc' # "idle" \/ status' # "NeedsOutput"
      BY <1>6 DEF Next, Call, Loop, ReturnFinished, ReturnError, BeginStep,
         ShortNeedsInput, ShortTakePiece, WriteThenReturn, Return, Step,
         ReadStreamHeader, RejectStreamHeader, ShortStreamHeader,
         ReadLastEmpty, ReadMetadataHeader, ReadUncompressedHeader,
         ReadCompressedHeader, RejectHeader, ShortHeader, CopyStored,
         ShortStored, SkipMetadata, ShortMetadata, ReadCode, RejectCode,
         ShortCode, Body, BodyRunOut, BodyReject, BodyDone, Continue, RunOut,
         Fail
    <2> QED
      BY <2>1 DEF NeedsOutputUsedRoom
  <1> QED
    BY <1>1, <1>2, <1>3, <1>4, <1>5, <1>6

\* A caller that gave room and is told NeedsOutput got output for it.
THEOREM RoomIsUsed == Spec => []NeedsOutputUsedRoom
  <1>1. Init => NeedsOutputUsedRoom
    BY DEF Init, NeedsOutputUsedRoom
  <1>2. IInv /\ IInv' /\ NeedsOutputUsedRoom /\ [Next]_vars => NeedsOutputUsedRoom'
    BY NeedsOutputKeeps
  <1> QED
    BY <1>1, <1>2, Inductive, PTL DEF Spec

\* No well-formed copy fails for dropped history.
CopiesHaveHistory ==
  \A p \in Starts(stream) :
    (BodyReaches(p) /\ stream.elem[p].ok) => ~CopyFails(stream.elem[p])

LEMMA CopyHasHistory ==
  ASSUME IInv
  PROVE  CopiesHaveHistory
  <1> SUFFICES ASSUME NEW p \in Starts(stream), BodyReaches(p), stream.elem[p].ok
               PROVE  ~CopyFails(stream.elem[p])
    BY DEF CopiesHaveHistory
  <1> DEFINE e == stream.elem[p]
  <1>1. e.dist \in Nat /\ e.from \in Nat /\ stream.window \in Nat
    BY ElementFacts, StreamFacts DEF IInv
  <1>2. /\ state = "Compressed"
        /\ decoded <= InOutput(e.from)
        /\ output_base + InOutput(e.from) = e.from
        /\ InOutput(e.from) \in Nat
    BY BodyFacts
  <1>3. window = stream.window /\ (output_base = 0 \/ decoded >= window)
    BY <1>2 DEF IInv, OutputInv, HistoryCoversWindow
  <1>4. decoded \in Nat /\ output_base \in Nat
    BY DEF IInv, TypeOK
  <1>5. e.dist <= Smaller(stream.window, e.from)
    <2>1. CASE e.kind = "copy"
      <3>1. Link(stream, p)
        BY ElementFacts DEF IInv
      <3> QED
        BY <2>1, <3>1 DEF Link, BodyKinds, BodyLink
    <2>2. CASE e.dist = 0
      BY <1>1, <2>2 DEF Smaller
    <2> QED
      BY <2>1, <2>2, ElementFacts DEF IInv
  <1>6. e.dist <= Smaller(InOutput(e.from), window)
    <2>1. CASE output_base = 0
      BY <1>1, <1>2, <1>3, <1>5, <2>1 DEF Smaller
    <2>2. CASE decoded >= window
      BY <1>1, <1>2, <1>3, <1>4, <1>5, <2>2 DEF Smaller
    <2> QED
      BY <1>3, <2>1, <2>2
  <1> HIDE DEF e
  <1>7. Smaller(InOutput(e.from), window) \in Nat
    BY <1>1, <1>2, <1>3 DEF Smaller
  <1> QED
    BY <1>1, <1>6, <1>7 DEF CopyFails, e

\* "invalid Brotli backward distance" is never the decoder's own doing: no
\* copy an accepted stream has fails for history that compaction dropped.
THEOREM LegalCopiesSucceed == Spec => []CopiesHaveHistory
  <1>1. IInv => CopiesHaveHistory
    BY CopyHasHistory
  <1> QED
    BY <1>1, Inductive, PTL

(***************************************************************************)
(* What the loop of `decompress` does to the call's input.                 *)
(***************************************************************************)
\* A return consumes what the call took at most, and all of the input when
\* it needs more.
LEMMA ReturnConsumes ==
  ASSUME IInv, NEW s \in Statuses, s = "NeedsInput" => offered = input,
         NEW w, NEW b \in Nat, Return(s, w, b)
  PROVE  /\ \E c \in 0 .. input :
              fed' = fed + c /\ (s = "NeedsInput" => c = input)
         /\ status' = s /\ pc' = "idle" /\ room' = room /\ input' = 0
  <1>1. /\ fed' = fed + Consumed(s, b)
        /\ status' = s /\ pc' = "idle" /\ room' = room /\ input' = 0
    BY DEF Return
  <1>2. /\ fed \in Nat /\ input \in Nat /\ offered \in Nat /\ held \in Nat
        /\ offered <= input
    BY DEF IInv, TypeOK, SlicesInRange
  <1>3. CASE taken = NotTaken
    <2>1. Consumed(s, b) = 0 /\ offered = 0
      BY <1>3 DEF Consumed, IInv, CallInv
    <2> QED
      BY <1>1, <1>2, <2>1
  <1>4. CASE taken # NotTaken /\ s = "NeedsInput"
    <2>1. Consumed(s, b) = input
      BY <1>4 DEF Consumed, TakesAll
    <2> QED
      BY <1>1, <1>2, <2>1
  <1>5. CASE taken # NotTaken /\ s # "NeedsInput"
    <2>1. Consumed(s, b) = Kept(b) - taken
      BY <1>5 DEF Consumed, TakesAll
    <2>2. taken \in Nat /\ taken + offered = held
      BY <1>5 DEF IInv, CallInv, TypeOK
    <2>3. BytesOf(b) \in Nat
      BY BytesFacts
    <2>4. Kept(b) \in Nat /\ taken <= Kept(b) /\ Kept(b) <= held
      BY <1>2, <2>2, <2>3 DEF Kept, Smaller, Larger
    <2>5. Consumed(s, b) \in Nat /\ Consumed(s, b) <= input
      BY <1>2, <2>1, <2>2, <2>4
    <2> QED
      BY <1>1, <1>2, <1>5, <2>5
  <1> QED
    BY <1>3, <1>4, <1>5

LEMMA LoopConsumes ==
  ASSUME IInv, Loop
  PROVE  /\ UNCHANGED streamVars /\ room' = room /\ pc # "idle"
         /\ \/ pc' # "idle" /\ fed' = fed /\ input' = input
            \/ pc' = "idle" /\ input' = 0 /\ \E c \in 0 .. input :
                 fed' = fed + c /\ (status' = "NeedsInput" => c = input)
  <1>1. bit_pos \in Nat /\ fed \in Nat /\ input \in Nat
    BY DEF IInv, TypeOK
  <1>2. CASE ReturnOutputLeft \/ ReturnBeforeError \/ ShortOutputLeft
             \/ ShortNeedsInput \/ ReturnFinished
    <2>1. UNCHANGED streamVars /\ pc # "idle"
      BY <1>2 DEF ReturnOutputLeft, ReturnBeforeError, ShortOutputLeft,
         ShortNeedsInput, ReturnFinished
    <2>2. PICK s \in Statuses, w \in {wrote + Writable} :
            /\ s = "NeedsInput" => offered = input
            /\ Return(s, w, bit_pos)
      BY <1>2 DEF ReturnOutputLeft, ReturnBeforeError, ShortOutputLeft,
         ShortNeedsInput, ReturnFinished, WriteThenReturn, Statuses
    <2> QED
      BY <1>1, <2>1, <2>2, ReturnConsumes
  <1>3. CASE StopStored
    <2>1. UNCHANGED streamVars /\ pc # "idle"
          /\ StopForRoom(decoded, bit_pos)
      BY <1>3 DEF StopStored, InState
    <2>2. \E w : Return("NeedsOutput", w, bit_pos)
      BY <2>1 DEF StopForRoom
    <2> QED
      BY <1>1, <2>1, <2>2, ReturnConsumes DEF Statuses
  <1>4. ASSUME NEW p \in Starts(stream), BodyStop(p)
        PROVE  /\ UNCHANGED streamVars /\ room' = room /\ pc # "idle"
               /\ pc' = "idle" /\ input' = 0 /\ \E c \in 0 .. input :
                    fed' = fed + c /\ (status' = "NeedsInput" => c = input)
    <2>1. UNCHANGED streamVars /\ pc # "idle" /\ BodyReaches(p)
          /\ StopForRoom(InOutput(stream.elem[p].from), Checkpoint(p))
      BY <1>4 DEF BodyStop, BodyReaches, InState
    <2>2. At <= p
      BY <2>1 DEF BodyReaches
    <2>3. Checkpoint(p) \in Nat
      BY <2>1, <2>2, BodyFacts, CheckpointFacts
    <2>4. \E w : Return("NeedsOutput", w, Checkpoint(p))
      BY <2>1 DEF StopForRoom
    <2> QED
      BY <2>1, <2>3, <2>4, ReturnConsumes DEF Statuses
  <1>5. CASE ReturnError
    <2>1. 0 \in 0 .. input /\ fed' = fed + 0
      BY <1>1, <1>5 DEF ReturnError
    <2> QED
      BY <1>5, <2>1 DEF ReturnError
  <1>6. CASE /\ ~(ReturnOutputLeft \/ ReturnBeforeError \/ ShortOutputLeft
                  \/ ShortNeedsInput \/ ReturnFinished)
             /\ ~StopStored /\ ~ReturnError
             /\ ~(\E p \in Starts(stream) : BodyStop(p))
    <2>1. /\ UNCHANGED streamVars /\ room' = room /\ pc # "idle"
          /\ pc' # "idle" /\ fed' = fed /\ input' = input
      BY <1>6 DEF Loop, BeginStep, ShortTakePiece, Step, ReadStreamHeader,
         RejectStreamHeader, ShortStreamHeader, ReadLastEmpty, ReadHeader,
         ReadMetadataHeader, ReadUncompressedHeader, ReadCompressedHeader,
         RejectHeader, ShortHeader, CopyStored, ShortStored, SkipMetadata,
         ShortMetadata, ReadCode, RejectCode, ShortCode, Body, BodyRunOut,
         BodyReject, BodyDone, BodyReaches, InState, Continue, RunOut, Fail,
         callVars, callerVars
    <2> QED
      BY <2>1
  <1> QED
    BY <1>2, <1>3, <1>4, <1>5, <1>6

(***************************************************************************)
(* How much output is held.  Compaction leaves less than twice the window  *)
(* before a meta-block; what a meta-block adds lies within its announced   *)
(* length, so where its output begins is what has to be carried along.     *)
(***************************************************************************)
HistInv ==
  /\ HistoryBounded
  /\ Header.from < output_base + 2 * stream.window

\* A step within the block at hand that does not lengthen `output`.
LEMMA HistoryStays ==
  ASSUME IInv, IInv', HistInv, stream' = stream, block' = block,
         out_len' <= out_len, output_base <= output_base'
  PROVE  HistInv'
  <1>1. /\ block \in Starts(stream)
        /\ stream.window \in Nat /\ Slack \in Nat
        /\ out_len \in Nat /\ out_len' \in Nat
        /\ output_base \in Nat /\ output_base' \in Nat
    BY StreamFacts DEF IInv, TypeOK, BlockInv
  <1>2. Header.from \in Nat /\ Header.len \in Nat /\ Header' = Header
    BY <1>1, ElementFacts DEF IInv, Header
  <1> QED
    BY <1>1, <1>2 DEF HistInv, HistoryBounded, Header

\* A step that leaves `output` within the meta-block and its slack.
LEMMA HistoryWithinBlock ==
  ASSUME IInv, IInv', HistInv, stream' = stream, block' = block,
         output_base' = output_base,
         out_len' <= out_len \/ out_len' <= InOutput(Header.from) + Header.len + Slack
  PROVE  HistInv'
  <1>1. CASE out_len' <= out_len
    <2>1. output_base <= output_base'
      BY DEF IInv, TypeOK
    <2> QED
      BY <1>1, <2>1, HistoryStays
  <1>2. CASE out_len' <= InOutput(Header.from) + Header.len + Slack
    <2>1. /\ block \in Starts(stream)
          /\ stream.window \in Nat /\ Slack \in Nat
          /\ out_len' \in Nat /\ output_base \in Nat
      BY StreamFacts DEF IInv, TypeOK, BlockInv
    <2>2. Header.from \in Nat /\ Header.len \in Nat /\ Header' = Header
      BY <2>1, ElementFacts DEF IInv, Header
    <2> QED
      BY <1>2, <2>1, <2>2 DEF HistInv, HistoryBounded, Header, InOutput
  <1> QED
    BY <1>1, <1>2

\* Compaction: what stays is shorter than twice the window.
LEMMA CompactedBelow ==
  ASSUME IInv, InState("MetaBlockHeader"), Compact
  PROVE  /\ decoded' < 2 * stream.window
         /\ decoded' <= decoded /\ output_base <= output_base'
         /\ out_len - Dropped = decoded' /\ out_len = decoded
  <1>1. /\ decoded \in Nat /\ window \in Nat \ {0} /\ written = decoded
        /\ output_base \in Nat /\ out_len = decoded /\ window = stream.window
    BY StreamFacts DEF IInv, TypeOK, CallInv, OutputInv, InState
  <1>2. /\ Dropped \in Nat /\ decoded - Dropped < 2 * window
        /\ Dropped <= decoded
    BY <1>1 DEF Dropped, Smaller, Monus
  <1> QED
    BY <1>1, <1>2 DEF Compact

\* A header that is accepted and opens its meta-block, or ends the stream.
LEMMA HistoryAtHeader ==
  ASSUME IInv, IInv', HistInv, NEW k, ReadHeader(k),
         bit_pos' = Here.end - 8 * first, out_len' = out_len - Dropped,
         UNCHANGED <<streamVars, first, held, window>>, block' \in {block, At}
  PROVE  HistInv'
  <1>1. /\ decoded' < 2 * stream.window
        /\ decoded' <= decoded /\ output_base <= output_base'
        /\ out_len' = decoded' /\ out_len = decoded
    BY CompactedBelow DEF ReadHeader
  <1>2. /\ At \in Starts(stream)
        /\ output_base' + decoded' = Here.from
        /\ output_base' \in Nat /\ decoded' \in Nat /\ stream' = stream
    BY HeaderFacts
  <1>3. CASE block' = block
    BY <1>1, <1>2, <1>3, HistoryStays
  <1>4. CASE block' = At
    <2>1. Header' = Here
      BY <1>2, <1>4 DEF Header, Here
    <2>2. Here.len \in Nat /\ Slack \in Nat /\ stream.window \in Nat
      BY <1>2, ElementFacts, StreamFacts DEF IInv, Here
    <2>3. HistoryBounded'
      BY <1>1, <1>2, <2>1, <2>2 DEF HistoryBounded, Header
    <2>4. Header'.from < output_base' + 2 * stream.window
      BY <1>1, <1>2, <2>1, <2>2
    <2> QED
      BY <1>2, <2>3, <2>4 DEF HistInv
  <1> QED
    BY <1>3, <1>4

\* What grow_room and the loop leave lies within the meta-block's room.
LEMMA HistoryInBody ==
  ASSUME IInv, IInv', HistInv, NEW p \in Starts(stream), Body(p)
  PROVE  HistInv'
  <1>1. /\ BodyReaches(p) /\ stream' = stream /\ block' = block
        /\ output_base' = output_base
    BY DEF Body, BodyStop, BodyRunOut, BodyReject, BodyDone, streamVars, stateVars
  <1>2. /\ state = "Compressed" /\ Header.from \in Nat /\ Header.len \in Nat
        /\ stream.elem[p].reach \in Nat
        /\ Slack \in Nat /\ ZeroAhead \in Nat /\ out_len \in Nat
        /\ output_base \in Nat
    BY <1>1, BodyFacts, CompressedFacts, ElementFacts, StreamFacts DEF IInv, TypeOK
  <1> DEFINE room_ == InOutput(Header.from) + Header.len + Slack
  <1>3. ASSUME NEW l \in Grown(p)
        PROVE  l \in Nat /\ (l <= out_len \/ l <= room_)
    <2>1. l \in Nat
      BY <1>1, GrownFacts
    <2>2. room_ \in Int /\ InOutput(stream.elem[p].reach) + Slack + ZeroAhead \in Int
      BY <1>2 DEF InOutput
    <2>3. l <= Larger(out_len, Smaller(InOutput(stream.elem[p].reach) + Slack
                                         + ZeroAhead, room_))
      BY <2>1, <2>2, <1>2 DEF Grown, Larger, Smaller, InOutput
    <2> HIDE DEF room_
    <2> QED
      BY <1>2, <2>1, <2>2, <2>3 DEF Larger, Smaller
  <1>4. out_len' <= out_len \/ out_len' <= room_
    <2>1. CASE BodyStop(p) \/ BodyRunOut(p)
      BY <1>3, <2>1 DEF BodyStop, BodyRunOut
    <2>2. CASE BodyReject(p)
      <3>1. PICK l \in Grown(p) : Fail(InOutput(stream.elem[p].from), l)
        BY <2>2 DEF BodyReject
      <3>2. l \in Nat /\ InOutput(stream.elem[p].from) \in Nat
        BY <1>1, <1>3, BodyFacts
      <3>3. out_len' <= l /\ out_len' \in Nat
        BY <3>1, <3>2 DEF Fail, Smaller
      <3>4. l <= out_len \/ l <= room_
        BY <1>3
      <3>5. room_ \in Int
        BY <1>2 DEF InOutput
      <3> HIDE DEF room_
      <3> QED
        BY <1>2, <3>2, <3>3, <3>4, <3>5
    <2>3. CASE BodyDone(p)
      BY <1>2, <2>3 DEF BodyDone, InOutput
    <2> QED
      BY <2>1, <2>2, <2>3 DEF Body
  <1> QED
    BY <1>1, <1>4, HistoryWithinBlock

LEMMA HistoryInSteps ==
  ASSUME IInv, IInv', HistInv, Step
  PROVE  HistInv'
  <1>0. out_len \in Nat /\ output_base \in Nat /\ decoded \in Nat
    BY DEF IInv, TypeOK
  <1>1. CASE ReadLastEmpty \/ ReadMetadataHeader \/ ReadUncompressedHeader
             \/ ReadCompressedHeader
    <2>1. PICK k \in HeaderKinds :
            /\ ReadHeader(k)
            /\ bit_pos' = Here.end - 8 * first /\ out_len' = out_len - Dropped
            /\ UNCHANGED <<streamVars, first, held, window>>
            /\ block' \in {block, At}
      BY <1>1 DEF ReadLastEmpty, ReadMetadataHeader, ReadUncompressedHeader,
         ReadCompressedHeader, HeaderKinds
    <2> QED
      BY <2>1, HistoryAtHeader
  <1>2. CASE RejectHeader \/ ShortHeader
    <2>1. /\ InState("MetaBlockHeader") /\ Compact
          /\ stream' = stream /\ block' = block
          /\ \/ out_len' = Smaller(out_len - Dropped, decoded - Dropped)
             \/ out_len' = out_len - Dropped
      BY <1>2 DEF RejectHeader, ShortHeader, Fail, streamVars, stateVars
    <2>2. /\ decoded' <= decoded /\ output_base <= output_base'
          /\ out_len - Dropped = decoded' /\ out_len = decoded
          /\ decoded' = decoded - Dropped
      BY <2>1, CompactedBelow DEF Compact
    <2>3. out_len' = decoded'
      BY <2>1, <2>2 DEF Smaller
    <2> QED
      BY <2>1, <2>2, <2>3, HistoryStays
  <1>3. CASE CopyStored
    <2>1. /\ state = "Uncompressed" /\ stream' = stream /\ block' = block
          /\ output_base' = output_base
          /\ out_len' = out_len + StoredCount /\ decoded' = decoded + StoredCount
          /\ remaining' = remaining - StoredCount
      BY <1>3 DEF CopyStored, InState, streamVars
    <2>2. /\ out_len = decoded /\ remaining \in Nat /\ remaining' \in Nat
          /\ output_base + decoded + remaining = Header.from + Header.len
          /\ block \in Starts(stream) /\ Slack \in Nat /\ decoded' \in Nat
      BY <2>1, StreamFacts DEF IInv, TypeOK, OutputInv, BlockInv, Header
    <2>3. Header.from \in Nat /\ Header.len \in Nat
      BY <2>2, ElementFacts DEF IInv, Header
    <2>4. StoredCount \in Int
      BY <1>0, <2>2, UnreadNat, StopAtFacts DEF StoredCount, Smaller
    <2>5. out_len' <= InOutput(Header.from) + Header.len + Slack
      BY <1>0, <2>1, <2>2, <2>3, <2>4 DEF InOutput
    <2> QED
      BY <2>1, <2>5, HistoryWithinBlock
  <1>4. ASSUME NEW p \in Starts(stream), Body(p)
        PROVE  HistInv'
    BY <1>4, HistoryInBody
  <1>5. CASE ReadStreamHeader \/ RejectStreamHeader \/ ShortStreamHeader
             \/ StopStored \/ ShortStored \/ SkipMetadata \/ ShortMetadata
             \/ ReadCode \/ RejectCode \/ ShortCode
    <2>1. /\ stream' = stream /\ block' = block /\ output_base' = output_base
          /\ out_len' = out_len \/ out_len' = Smaller(out_len, decoded)
      BY <1>5 DEF ReadStreamHeader, RejectStreamHeader, ShortStreamHeader,
         StopStored, ShortStored, SkipMetadata, ShortMetadata, ReadCode,
         RejectCode, ShortCode, Fail, streamVars, stateVars, outputVars
    <2>2. out_len' <= out_len
      BY <1>0, <2>1 DEF Smaller
    <2> QED
      BY <1>0, <2>1, <2>2, HistoryStays
  <1> QED
    BY <1>1, <1>2, <1>3, <1>4, <1>5 DEF Step

LEMMA HistoryKeeps ==
  ASSUME IInv, IInv', HistInv, [Next]_vars
  PROVE  HistInv'
  <1>0. out_len \in Nat /\ output_base \in Nat
    BY DEF IInv, TypeOK
  <1>1. CASE Step
    BY <1>1, HistoryInSteps
  <1>2. CASE ReturnFinished
    <2>1. /\ stream' = stream /\ block' = block
          /\ \/ out_len' = 0 /\ output_base' = output_base + out_len
             \/ UNCHANGED <<out_len, output_base>>
      BY <1>2 DEF ReturnFinished, streamVars, stateVars
    <2>2. out_len' <= out_len /\ output_base <= output_base'
      BY <1>0, <2>1
    <2> QED
      BY <2>1, <2>2, HistoryStays
  <1>3. CASE UNCHANGED vars
    <2>1. UNCHANGED <<stream, block, out_len, output_base>>
      BY <1>3 DEF vars, streamVars, stateVars, outputVars
    <2> QED
      BY <1>0, <2>1, HistoryStays
  <1>4. CASE (\E n \in Offers, r \in Rooms : Call(n, r))
             \/ ReturnOutputLeft \/ ReturnError \/ ReturnBeforeError
             \/ BeginStep \/ ShortOutputLeft \/ ShortNeedsInput \/ ShortTakePiece
    <2>1. UNCHANGED <<stream, block, out_len, output_base>>
      BY <1>4 DEF Call, ReturnOutputLeft, ReturnError, ReturnBeforeError,
         BeginStep, ShortOutputLeft, ShortNeedsInput, ShortTakePiece,
         streamVars, stateVars, outputVars
    <2> QED
      BY <1>0, <2>1, HistoryStays
  <1> QED
    BY <1>1, <1>2, <1>3, <1>4 DEF Next, Loop

\* The output a decoder holds stays within twice the window, the meta-block
\* at hand and its slack, however slowly the caller takes it.
THEOREM BoundsHistory == Spec => []HistoryBounded
  <1>1. Init => HistInv
    <2> SUFFICES ASSUME Init
                 PROVE  HistInv
      OBVIOUS
    <2>1. TypeOK
      BY InitInv DEF IInv
    <2>2. /\ 0 \in Starts(stream) /\ stream.window \in Nat \ {0} /\ Slack \in Nat
          /\ stream.elem[0].from = 0
      BY <2>1, StreamFacts DEF WellFormed
    <2>3. stream.elem[0].len \in Nat
      BY <2>1, <2>2, ElementFacts
    <2>4. Header = stream.elem[0] /\ out_len = 0 /\ output_base = 0
      BY DEF Init, Header
    <2> QED
      BY <2>2, <2>3, <2>4 DEF HistInv, HistoryBounded, Header
  <1>2. IInv /\ IInv' /\ HistInv /\ [Next]_vars => HistInv'
    BY HistoryKeeps
  <1>3. HistInv => HistoryBounded
    BY DEF HistInv
  <1> QED
    BY <1>1, <1>2, <1>3, Inductive, PTL DEF Spec

(***************************************************************************)
(* How much input is held.  What the decoder had before the call took more *)
(* was not enough for the step at hand: that much, or the byte of the      *)
(* checkpoint, is what it keeps.                                           *)
(***************************************************************************)
\* Input of h bytes from `first` on does not reach past the checkpoint's
\* byte, or not to the end of the element there.
Starved(h) ==
  \/ h <= BytesOf(bit_pos)
  \/ At \in Starts(stream) /\ Here.end > 8 * (first + h)

Needed(h) ==
  IF state \in {"StreamHeader", "MetaBlockHeader", "Compressed"}
  THEN Starved(h)
  ELSE h <= BytesOf(bit_pos)

\* What the decoder held when the running call began.
HeldBefore == IF taken = NotTaken THEN held ELSE taken

HoldInv ==
  state # "Failed" =>
    /\ Needed(HeldBefore)
    /\ pc = "short" => Needed(held)

LEMMA BytesMonotone ==
  ASSUME NEW a \in Nat, NEW b \in Nat, a <= b
  PROVE  BytesOf(a) <= BytesOf(b)
  BY SMT DEF BytesOf

\* A checkpoint past h bytes is in a later byte; whole bytes before it
\* count off, and it lies in what is held.
LEMMA BytesShift ==
  ASSUME NEW b \in Nat, NEW h \in Nat
  PROVE  /\ 8 * h < b => h <= BytesOf(b)
         /\ b <= 8 * h => BytesOf(b) <= h
         /\ 8 * h <= b => BytesOf(b - 8 * h) = BytesOf(b) - h
         /\ BytesOf(8 * h + b) = h + BytesOf(b)
  BY SMT DEF BytesOf

LEMMA HeldBeforeFacts ==
  ASSUME IInv
  PROVE  /\ HeldBefore \in Nat /\ HeldBefore <= held
         /\ BytesOf(bit_pos) \in Nat /\ BytesOf(bit_pos) <= held
         /\ first \in Nat /\ held \in Nat /\ bit_pos \in Nat
  <1>1. /\ first \in Nat /\ held \in Nat /\ bit_pos \in Nat
        /\ bit_pos <= 8 * held
        /\ taken \in Nat \cup {NotTaken} /\ offered \in Nat
        /\ taken # NotTaken => taken + offered = held
    BY DEF IInv, TypeOK, SlicesInRange, CallInv
  <1>2. BytesOf(bit_pos) \in Nat /\ BytesOf(bit_pos) <= held
    BY <1>1, BytesFacts, BytesShift
  <1> QED
    BY <1>1, <1>2 DEF HeldBefore

\* A step past the element at hand leaves h bytes behind the checkpoint.
LEMMA PastElement ==
  ASSUME IInv, IInv', NEW h \in Nat, first' = first,
         Needed(h), bit_pos <= bit_pos',
         state \in {"StreamHeader", "MetaBlockHeader", "Compressed"} =>
           Here.end <= At'
  PROVE  h <= BytesOf(bit_pos')
  <1>1. bit_pos \in Nat /\ bit_pos' \in Nat /\ first \in Nat
    BY DEF IInv, TypeOK
  <1>2. CASE h <= BytesOf(bit_pos)
    <2>1. BytesOf(bit_pos) <= BytesOf(bit_pos')
      BY <1>1, BytesMonotone
    <2>2. BytesOf(bit_pos) \in Nat /\ BytesOf(bit_pos') \in Nat
      BY <1>1, BytesFacts
    <2> QED
      BY <1>2, <2>1, <2>2
  <1>3. CASE ~(h <= BytesOf(bit_pos))
    <2>1. /\ At \in Starts(stream) /\ Here.end > 8 * (first + h)
          /\ Here.end <= At'
      BY <1>3 DEF Needed, Starved
    <2>2. Here.end \in Nat
      BY <2>1, ElementFacts DEF IInv, Here
    <2>3. 8 * h < bit_pos'
      BY <1>1, <2>1, <2>2 DEF At
    <2> QED
      BY <1>1, <2>3, BytesShift
  <1> QED
    BY <1>2, <1>3

\* Whatever the state, h bytes behind the checkpoint are few enough.
LEMMA BehindIsNeeded ==
  ASSUME NEW h, h <= BytesOf(bit_pos)
  PROVE  Needed(h)
  BY DEF Needed, Starved

\* A step that leaves the checkpoint in place and the state as it is.
LEMMA SameNeed ==
  ASSUME NEW h, Needed(h), UNCHANGED <<stream, first, bit_pos, state>>
  PROVE  Needed(h)'
  BY DEF Needed, Starved, Here, At, Starts

\* A step that goes on, past the element or the payload at hand.
LEMMA GoesPast ==
  ASSUME IInv, IInv', HoldInv, state # "Failed", pc' = "top",
         UNCHANGED <<first, held, taken>>, bit_pos <= bit_pos',
         state \in {"StreamHeader", "MetaBlockHeader", "Compressed"} =>
           Here.end <= At'
  PROVE  HoldInv'
  <1>1. HeldBefore' = HeldBefore /\ HeldBefore \in Nat /\ Needed(HeldBefore)
    BY HeldBeforeFacts DEF HeldBefore, HoldInv
  <1>2. HeldBefore <= BytesOf(bit_pos')
    BY <1>1, PastElement
  <1>3. Needed(HeldBefore)'
    BY <1>1, <1>2 DEF Needed, Starved
  <1> QED
    BY <1>3 DEF HoldInv

\* A step that ran out of input where it began: what is held is needed.
LEMMA GoesShort ==
  ASSUME IInv, HoldInv, pc' = "short", state # "Failed",
         UNCHANGED <<stream, first, held, bit_pos, state, taken>>,
         Needed(held)
  PROVE  HoldInv'
  <1>1. HeldBefore' = HeldBefore /\ Needed(HeldBefore)
    BY DEF HeldBefore, HoldInv
  <1>2. Needed(HeldBefore)' /\ Needed(held)'
    BY <1>1, SameNeed
  <1> QED
    BY <1>2 DEF HoldInv

\* A return keeps what was held before the call, the byte of the checkpoint,
\* or all of it if all was needed.
LEMMA ReturnHolds ==
  ASSUME IInv, IInv', NEW s, NEW w, Return(s, w, bit_pos'),
         stream' = stream, state' = state,
         s = "NeedsInput" => Needed(held)',
         NEW h, h = HeldBefore, Needed(h)'
  PROVE  HoldInv'
  <1>1. /\ first' = first /\ pc' = "idle" /\ HeldBefore' = held'
        /\ held' = IF taken = NotTaken \/ TakesAll(s) THEN held
                   ELSE Kept(bit_pos')
    BY DEF Return, HeldBefore
  <1>2. held' = h \/ s = "NeedsInput" \/ held' <= BytesOf(bit_pos')
    <2>1. CASE taken = NotTaken \/ s = "NeedsInput"
      BY <1>1, <2>1 DEF TakesAll, HeldBefore
    <2>2. CASE ~(taken = NotTaken \/ s = "NeedsInput")
      <3>1. /\ held' = Kept(bit_pos') /\ h = taken
            /\ taken \in Nat /\ taken <= held /\ held \in Nat
        BY <1>1, <2>2 DEF TakesAll, HeldBefore, IInv, TypeOK, CallInv
      <3>2. BytesOf(bit_pos') \in Nat
        BY BytesFacts DEF IInv, TypeOK
      <3> QED
        BY <3>1, <3>2 DEF Kept, Smaller, Larger
    <2> QED
      BY <2>1, <2>2
  <1>3. Needed(held)'
    BY <1>2 DEF Needed, Starved
  <1> QED
    BY <1>1, <1>3 DEF HoldInv

\* The same, at the checkpoint the call began with.
LEMMA ReturnHoldsHere ==
  ASSUME IInv, IInv', HoldInv, NEW s, NEW w, Return(s, w, bit_pos),
         stream' = stream, state' = state, s = "NeedsInput" => pc = "short"
  PROVE  HoldInv'
  <1>1. CASE state = "Failed"
    BY <1>1 DEF HoldInv
  <1>2. CASE state # "Failed"
    <2>1. bit_pos' = bit_pos /\ first' = first /\ Return(s, w, bit_pos')
      BY DEF Return
    <2>2. Needed(HeldBefore) /\ (s = "NeedsInput" => Needed(held))
      BY <1>2 DEF HoldInv
    <2>3. s = "NeedsInput" => Needed(held)'
      <3>1. s = "NeedsInput" => held' = held
        BY DEF Return, TakesAll
      <3> QED
        BY <2>1, <2>2, <3>1 DEF Needed, Starved, Here, At, Starts
    <2>4. PICK h : h = HeldBefore
      OBVIOUS
    <2>5. Needed(h)'
      BY <2>1, <2>2, <2>4, SameNeed
    <2> QED
      BY <2>1, <2>3, <2>4, <2>5, ReturnHolds
  <1> QED
    BY <1>1, <1>2

LEMMA CallHolds ==
  ASSUME IInv, IInv', HoldInv, NEW n \in Offers, NEW r \in Rooms, Call(n, r)
  PROVE  HoldInv'
  <1> DEFINE drop == bit_pos \div 8
  <1>1. /\ drop \in Nat /\ bit_pos % 8 = bit_pos - 8 * drop
        /\ bit_pos \in Nat /\ first \in Nat /\ held \in Nat
    BY BytesFacts DEF IInv, TypeOK
  <1>2. 8 * drop <= bit_pos
    BY <1>1, BytesFacts
  <1>3. /\ first' = first + drop /\ held' = held - drop
        /\ bit_pos' = bit_pos - 8 * drop
        /\ taken' = NotTaken /\ pc' = "top" /\ taken = NotTaken
        /\ stream' = stream /\ state' = state
    BY <1>1 DEF Call, IInv, CallInv, streamVars, stateVars
  <1>4. BytesOf(bit_pos') = BytesOf(bit_pos) - drop /\ BytesOf(bit_pos) \in Nat
    BY <1>1, <1>2, <1>3, BytesShift, BytesFacts
  <1> HIDE DEF drop
  <1>5. At' = At /\ 8 * (first' + held') = 8 * (first + held)
    BY <1>1, <1>3 DEF At
  <1>6. HeldBefore = held /\ HeldBefore' = held'
    BY <1>3 DEF HeldBefore
  <1>7. held <= BytesOf(bit_pos) => held' <= BytesOf(bit_pos')
    BY <1>1, <1>3, <1>4
  <1>8. state # "Failed" => Needed(held)'
    BY <1>3, <1>5, <1>6, <1>7 DEF HoldInv, Needed, Starved, Here, Starts
  <1> QED
    BY <1>3, <1>6, <1>8 DEF HoldInv

\* A step over the whole element at hand.
LEMMA ReadHolds ==
  ASSUME IInv, IInv', HoldInv,
         ReadStreamHeader \/ ReadLastEmpty \/ ReadMetadataHeader
           \/ ReadUncompressedHeader \/ ReadCompressedHeader \/ ReadCode
  PROVE  HoldInv'
  <1>1. /\ bit_pos' = Here.end - 8 * first
        /\ pc' = "top" /\ state # "Failed"
        /\ UNCHANGED <<first, held, taken>>
    BY DEF ReadStreamHeader, ReadLastEmpty, ReadMetadataHeader,
       ReadUncompressedHeader, ReadCompressedHeader, ReadCode, ReadHeader,
       InState, Continue, callVars
  <1>2. /\ state \in {"StreamHeader", "MetaBlockHeader", "Compressed"}
        /\ HasBits(Here.end)
    BY DEF ReadStreamHeader, ReadLastEmpty, ReadMetadataHeader,
       ReadUncompressedHeader, ReadCompressedHeader, ReadCode, ReadHeader,
       InState
  <1>3. At \in Starts(stream)
    BY <1>2, StreamFacts DEF IInv, ResumesInPlace, HeaderAt, InBlock
  <1>4. Here.end \in Nat /\ At <= Here.end
    BY <1>3, ElementFacts DEF IInv, Here
  <1>5. At' = Here.end /\ bit_pos <= bit_pos'
    BY <1>1, <1>4 DEF At, IInv, TypeOK
  <1> QED
    BY <1>1, <1>4, <1>5, GoesPast

LEMMA PayloadHolds ==
  ASSUME IInv, IInv', HoldInv, CopyStored \/ SkipMetadata
  PROVE  HoldInv'
  <1>1. /\ pc' = "top" /\ state \in {"Uncompressed", "Metadata"}
        /\ UNCHANGED <<first, held, taken>>
    BY DEF CopyStored, SkipMetadata, InState, Continue, callVars
  <1>2. /\ Unread \in Nat /\ remaining \in Nat /\ decoded \in Nat
        /\ StopAt \in Nat /\ decoded <= StopAt /\ bit_pos \in Nat
    BY UnreadNat, StopAtFacts DEF IInv, TypeOK
  <1>3. \E n \in Nat : bit_pos' = bit_pos + 8 * n
    <2>1. CASE CopyStored
      <3>1. StoredCount \in Nat
        BY <1>2 DEF StoredCount, Smaller
      <3> QED
        BY <2>1, <3>1 DEF CopyStored
    <2>2. CASE SkipMetadata
      <3>1. Smaller(Unread, remaining) \in Nat
        BY <1>2 DEF Smaller
      <3> QED
        BY <2>2, <3>1 DEF SkipMetadata
    <2> QED
      BY <2>1, <2>2
  <1>4. bit_pos <= bit_pos'
    BY <1>2, <1>3
  <1> QED
    BY <1>1, <1>4, GoesPast

\* What is left of the input ends within the element, or at its payload.
LEMMA ShortHolds ==
  ASSUME IInv, IInv', HoldInv,
         ShortStreamHeader \/ ShortHeader \/ ShortCode \/ ShortStored
           \/ ShortMetadata
  PROVE  HoldInv'
  <1>1. /\ pc' = "short" /\ state # "Failed"
        /\ UNCHANGED <<stream, first, held, bit_pos, state, taken>>
    BY DEF ShortStreamHeader, ShortHeader, ShortCode, ShortStored,
       ShortMetadata, RunOut, InState, inputVars, stateVars, streamVars, callVars
  <1>2. CASE ShortStreamHeader \/ ShortHeader \/ ShortCode
    <2>1. /\ state \in {"StreamHeader", "MetaBlockHeader", "Compressed"}
          /\ ~HasBits(Here.end)
      BY <1>2 DEF ShortStreamHeader, ShortHeader, ShortCode, InState
    <2>2. At \in Starts(stream)
      BY <2>1, StreamFacts DEF IInv, ResumesInPlace, HeaderAt, InBlock
    <2>3. Here.end \in Nat /\ first \in Nat /\ held \in Nat
      BY <2>2, ElementFacts DEF IInv, TypeOK, Here
    <2>4. Needed(held)
      BY <2>1, <2>2, <2>3 DEF Needed, Starved, HasBits
    <2> QED
      BY <1>1, <2>4, GoesShort
  <1>3. CASE ShortStored \/ ShortMetadata
    <2>1. Unread = 0
      <3>1. CASE ShortMetadata
        BY <3>1 DEF ShortMetadata
      <3>2. CASE ShortStored
        <4>1. /\ decoded # StopAt /\ StoredCount = 0 /\ remaining > 0
          BY <3>2 DEF ShortStored, InState, IInv, BlockInv
        <4>2. /\ Unread \in Nat /\ remaining \in Nat /\ decoded \in Nat
              /\ StopAt \in Nat /\ decoded <= StopAt
          BY UnreadNat, StopAtFacts DEF IInv, TypeOK
        <4> QED
          BY <4>1, <4>2 DEF StoredCount, Smaller
      <3> QED
        BY <1>3, <3>1, <3>2
    <2>2. bit_pos \in Nat /\ held \in Nat
      BY DEF IInv, TypeOK
    <2>3. bit_pos \div 8 \in Nat /\ bit_pos \div 8 <= BytesOf(bit_pos)
      BY <2>2, SMT DEF BytesOf
    <2>4. held <= BytesOf(bit_pos)
      <3> BytesOf(bit_pos) \in Nat
        BY <2>2, BytesFacts
      <3> QED
        BY <2>1, <2>2, <2>3 DEF Unread
    <2> QED
      BY <1>1, <2>4, BehindIsNeeded, GoesShort
  <1> QED
    BY <1>2, <1>3

\* On the way to p the loop leaves the elements before it behind.
LEMMA BodyNeeds ==
  ASSUME IInv, IInv', NEW p \in Starts(stream), BodyReaches(p),
         bit_pos' = Checkpoint(p), UNCHANGED <<stream, first, state>>,
         NEW h \in Nat, Needed(h)
  PROVE  Needed(h)'
  <1>1. /\ state = "Compressed" /\ p \in Nat /\ At \in Nat /\ At <= p
        /\ bit_pos \in Nat /\ first \in Nat
    BY BodyFacts DEF IInv, TypeOK
  <1>2. Checkpoint(p) \in Nat /\ 8 * first + Checkpoint(p) = p
    BY <1>1, CheckpointFacts
  <1>3. At' = p /\ bit_pos <= bit_pos'
    BY <1>1, <1>2 DEF At
  <1>4. CASE p = At
    <2>1. bit_pos' = bit_pos
      BY <1>1, <1>2, <1>4 DEF At
    <2> QED
      BY <2>1, SameNeed
  <1>5. CASE At < p
    <2>1. At \in Starts(stream) /\ Here = stream.elem[At]
          /\ Here.kind \in {"code"} \cup BodyKinds
      BY <1>1, CompressedFacts
    <2>2. Here.end <= p
      BY <1>5, <2>1, StreamFacts
         DEF IInv, WellFormed, InOrder, PayloadEnd, BodyKinds
    <2>3. h <= BytesOf(bit_pos')
      BY <1>3, <2>2, PastElement
    <2> QED
      BY <2>3 DEF Needed, Starved
  <1> QED
    BY <1>1, <1>4, <1>5

LEMMA BodyHolds ==
  ASSUME IInv, IInv', HoldInv, NEW p \in Starts(stream), Body(p)
  PROVE  HoldInv'
  <1>1. /\ BodyReaches(p) /\ stream' = stream /\ first' = first
        /\ state = "Compressed"
    BY BodyFacts DEF Body, BodyStop, BodyRunOut, BodyReject, BodyDone,
       StopForRoom, Return, streamVars
  <1>2. Needed(HeldBefore) /\ HeldBefore \in Nat
    BY <1>1, HeldBeforeFacts DEF HoldInv
  <1>3. CASE BodyStop(p)
    <2>1. /\ state' = state /\ bit_pos' = Checkpoint(p)
          /\ \E w : Return("NeedsOutput", w, bit_pos')
      BY <1>3 DEF BodyStop, StopForRoom, Return, stateVars
    <2>2. PICK h \in Nat : h = HeldBefore
      BY <1>2
    <2>3. Needed(h)'
      BY <1>1, <1>2, <2>1, <2>2, BodyNeeds
    <2> QED
      BY <1>1, <2>1, <2>2, <2>3, ReturnHolds
  <1>4. CASE BodyRunOut(p)
    <2>1. /\ state' = state /\ bit_pos' = Checkpoint(p) /\ BodyShort(p)
          /\ UNCHANGED <<held, taken>>
      BY <1>4 DEF BodyRunOut, RunOut, stateVars, callVars
    <2>2. Needed(HeldBefore)'
      <3>1. PICK h \in Nat : h = HeldBefore
        BY <1>2
      <3>2. Needed(h)' /\ HeldBefore' = h
        BY <1>1, <1>2, <2>1, <3>1, BodyNeeds DEF HeldBefore
      <3> QED
        BY <3>2 DEF Needed, Starved
    <2>3. At' = p
      BY <1>1, <2>1, CheckpointFacts, BodyFacts DEF At
    <2>4. Needed(held)'
      <3>1. stream.elem[p].end \in Nat /\ first \in Nat /\ held \in Nat
        BY ElementFacts DEF IInv, TypeOK
      <3>2. stream.elem[p].end > 8 * (first + held)
        BY <2>1, <3>1 DEF BodyShort, HasBits
      <3> QED
        BY <1>1, <2>1, <2>3, <3>2 DEF Needed, Starved, Here, Starts
    <2> QED
      BY <2>2, <2>4 DEF HoldInv
  <1>5. CASE BodyReject(p)
    <2>1. state' = "Failed"
      BY <1>5 DEF BodyReject, Fail
    <2> QED
      BY <2>1 DEF HoldInv
  <1>6. CASE BodyDone(p)
    <2>1. /\ bit_pos' = Checkpoint(Header.stop) /\ pc' = "top"
          /\ UNCHANGED <<held, taken>>
      BY <1>6 DEF BodyDone, Continue, callVars
    <2>2. /\ At \in Starts(stream) /\ At \in Nat /\ Here = stream.elem[At]
          /\ block < At /\ At < Header.stop /\ HoldsBlock(stream, block)
          /\ Header.stop \in Nat /\ Header = stream.elem[block]
      BY <1>1, CompressedFacts
    <2>3. Here.end <= Header.stop
      BY <2>2 DEF HoldsBlock
    <2>4. At' = Header.stop /\ bit_pos <= bit_pos'
      BY <1>1, <2>1, <2>2 DEF Checkpoint, At, IInv, TypeOK
    <2> QED
      BY <1>1, <2>1, <2>3, <2>4, GoesPast
  <1> QED
    BY <1>3, <1>4, <1>5, <1>6 DEF Body

LEMMA HoldKeeps ==
  ASSUME IInv, IInv', HoldInv, [Next]_vars
  PROVE  HoldInv'
  <1>1. CASE \E n \in Offers, r \in Rooms : Call(n, r)
    BY <1>1, CallHolds
  <1>2. CASE ReturnOutputLeft \/ ReturnFinished \/ ReturnBeforeError
             \/ ShortOutputLeft \/ ShortNeedsInput
    <2>1. /\ stream' = stream /\ state' = state
          /\ \E s, w : /\ Return(s, w, bit_pos)
                       /\ s = "NeedsInput" => pc = "short"
      BY <1>2 DEF ReturnOutputLeft, ReturnFinished, ReturnBeforeError,
         ShortOutputLeft, ShortNeedsInput, WriteThenReturn, streamVars, stateVars
    <2> QED
      BY <2>1, ReturnHoldsHere
  <1>3. CASE StopStored
    <2>1. /\ stream' = stream /\ state' = state
          /\ \E w : Return("NeedsOutput", w, bit_pos)
      BY <1>3 DEF StopStored, StopForRoom, streamVars, stateVars
    <2> QED
      BY <2>1, ReturnHoldsHere
  <1>4. CASE ReturnError \/ BeginStep \/ UNCHANGED vars
    <2>1. UNCHANGED <<stream, first, bit_pos, state, held>>
      BY <1>4 DEF ReturnError, BeginStep, vars, streamVars, inputVars, stateVars
    <2>2. \/ state = "Failed"
          \/ pc' = "step" /\ taken' = taken
          \/ pc' = pc /\ taken' = taken
      BY <1>4 DEF ReturnError, BeginStep, vars, callVars
    <2> QED
      BY <2>1, <2>2, SameNeed DEF HoldInv, HeldBefore
  <1>5. CASE ShortTakePiece
    <2>1. /\ UNCHANGED <<stream, first, bit_pos, state>> /\ pc' = "top"
          /\ taken' = (IF taken = NotTaken THEN held ELSE taken)
      BY <1>5 DEF ShortTakePiece, streamVars, stateVars
    <2>2. HeldBefore' = HeldBefore
      BY <2>1 DEF HeldBefore, IInv, TypeOK, NotTaken
    <2> QED
      BY <2>1, <2>2, SameNeed DEF HoldInv
  <1>6. CASE RejectStreamHeader \/ RejectHeader \/ RejectCode
    <2>1. state' = "Failed"
      BY <1>6 DEF RejectStreamHeader, RejectHeader, RejectCode, Fail
    <2> QED
      BY <2>1 DEF HoldInv
  <1>7. ASSUME NEW p \in Starts(stream), Body(p)
        PROVE  HoldInv'
    BY <1>7, BodyHolds
  <1> QED
    BY <1>1, <1>2, <1>3, <1>4, <1>5, <1>6, <1>7, ReadHolds, PayloadHolds,
       ShortHolds DEF Next, Loop, Step

LEMMA HoldInvariant == Spec => []HoldInv
  <1>1. Init => HoldInv
    <2> SUFFICES ASSUME Init
                 PROVE  HoldInv
      OBVIOUS
    <2>1. HeldBefore = 0 /\ bit_pos = 0 /\ pc = "idle"
      BY DEF Init, HeldBefore
    <2>2. BytesOf(0) = 0
      BY SMT DEF BytesOf
    <2> QED
      BY <2>1, <2>2, BehindIsNeeded DEF HoldInv
  <1>2. IInv /\ IInv' /\ HoldInv /\ [Next]_vars => HoldInv'
    BY HoldKeeps
  <1> QED
    BY <1>1, <1>2, Inductive, PTL DEF Spec

\* Between calls the decoder holds the byte of its checkpoint and nothing
\* beyond it that the step at hand does not need.
THEOREM HoldsLittle == Spec => []HoldsOnlyTheStep
  <1>1. IInv /\ HoldInv => HoldsOnlyTheStep
    <2> SUFFICES ASSUME IInv, HoldInv, pc = "idle", state \notin {"Failed", "Done"}
                 PROVE  \/ held = BytesOf(bit_pos)
                        \/ At \in Starts(stream) /\ ~HasBits(Here.end)
      BY DEF HoldsOnlyTheStep
    <2>1. HeldBefore = held /\ Needed(held)
      BY DEF IInv, CallInv, HoldInv, HeldBefore
    <2>2. BytesOf(bit_pos) \in Nat /\ BytesOf(bit_pos) <= held
          /\ first \in Nat /\ held \in Nat
      BY HeldBeforeFacts
    <2>3. CASE held <= BytesOf(bit_pos)
      BY <2>2, <2>3
    <2>4. CASE At \in Starts(stream) /\ Here.end > 8 * (first + held)
      <3>1. Here.end \in Nat
        BY <2>4, ElementFacts DEF IInv, Here
      <3> QED
        BY <2>2, <2>4, <3>1 DEF HasBits
    <2> QED
      BY <2>1, <2>3, <2>4 DEF Needed, Starved
  <1> QED
    BY <1>1, HoldInvariant, Inductive, PTL

(***************************************************************************)
(* Where a stream ends.  Read from its start, element after element, every *)
(* well-formed stream comes to one that halts the decode or is the last:   *)
(* the chain only goes forward, and input is finite.                       *)
(***************************************************************************)
StopsAt(p) ==
  Halts(stream, max_output_size, p) \/ FinalElement(stream, p)

\* No element before p stops a decoder that holds the whole input.
Passed(p) == \A q \in Starts(stream) : q < p => ~StopsAt(q)

TheEnding == Ending(stream, max_output_size)

\* Only one element can be the ending.
LEMMA EndingIs ==
  ASSUME TypeOK, NEW p \in Starts(stream), StopsAt(p), Passed(p)
  PROVE  TheEnding = p
  <1> DEFINE Ends(x) ==
        /\ Halts(stream, max_output_size, x) \/ FinalElement(stream, x)
        /\ \A q \in Starts(stream) :
             q < x => ~Halts(stream, max_output_size, q) /\ ~FinalElement(stream, q)
  <1>1. Ends(p)
    BY DEF StopsAt, Passed
  <1>2. ASSUME NEW x \in Starts(stream), Ends(x)
        PROVE  x = p
    <2>1. StopsAt(x) /\ Passed(x)
      BY <1>2 DEF StopsAt, Passed
    <2>2. ~(x < p) /\ ~(p < x)
      BY <2>1 DEF Passed
    <2> QED
      BY <2>2, StreamFacts
  <1>3. TheEnding = CHOOSE x \in Starts(stream) : Ends(x)
    BY DEF TheEnding, Ending
  <1> HIDE DEF Ends
  <1> QED
    BY <1>1, <1>2, <1>3

\* A place on the chain: the first element, a header, an element of an
\* accepted compressed meta-block, or the padding after it.
OnChain(p) ==
  LET e == stream.elem[p] IN
  \/ e.kind \in {"window", "padding"} \cup HeaderKinds
  \/ /\ e.kind \in {"code"} \cup BodyKinds
     /\ e.block \in Starts(stream)
     /\ stream.elem[e.block].kind = "compressed"
     /\ stream.elem[e.block].ok
     /\ e.block < p
     /\ p < stream.elem[e.block].stop

\* An element that stops nothing is accepted and has all its input.
LEMMA GoesOnFacts ==
  ASSUME TypeOK, NEW p \in Starts(stream), ~StopsAt(p)
  PROVE  /\ stream.elem[p].ok /\ Link(stream, p)
         /\ stream.elem[p].kind \notin {"lastEmpty", "padding"}
         /\ ~(stream.elem[p].kind = "metadata" /\ stream.elem[p].last)
         /\ PayloadEnd(stream, p) \in Nat
         /\ p < PayloadEnd(stream, p)
         /\ PayloadEnd(stream, p) <= 8 * stream.bytes
  <1>1. /\ stream.elem[p].ok
        /\ stream.elem[p].kind \notin {"lastEmpty", "padding"}
        /\ ~(stream.elem[p].kind = "metadata" /\ stream.elem[p].last)
        /\ ~(PayloadEnd(stream, p) > 8 * stream.bytes)
    BY DEF StopsAt, Halts, Rejected, Truncated, FinalElement
  <1>2. /\ p \in Nat /\ stream.elem[p].end \in Nat /\ stream.elem[p].len \in Nat
        /\ p < stream.elem[p].end /\ stream.bytes \in Nat
    BY <1>1, ElementFacts, StreamFacts
  <1>3. PayloadEnd(stream, p) \in Nat /\ p < PayloadEnd(stream, p)
    BY <1>2 DEF PayloadEnd
  <1> QED
    BY <1>1, <1>2, <1>3, ElementFacts

\* What comes before the end of an element that stops nothing is passed.
LEMMA PassedNext ==
  ASSUME TypeOK, NEW p \in Starts(stream), Passed(p), ~StopsAt(p)
  PROVE  Passed(PayloadEnd(stream, p))
  <1> SUFFICES ASSUME NEW q \in Starts(stream), q < PayloadEnd(stream, p)
               PROVE  ~StopsAt(q)
    BY DEF Passed
  <1>1. p \in Nat /\ q \in Nat /\ PayloadEnd(stream, p) \in Nat
    BY StreamFacts, GoesOnFacts
  <1>2. ~(p < q)
    <2>1. p < q => PayloadEnd(stream, p) <= q
      BY StreamFacts DEF WellFormed, InOrder
    <2> QED
      BY <1>1, <2>1
  <1> QED
    BY <1>1, <1>2 DEF Passed

\* The next place on the chain.
LEMMA Successor ==
  ASSUME TypeOK, NEW p \in Starts(stream), OnChain(p), Passed(p), ~StopsAt(p)
  PROVE  \E n \in Starts(stream) :
           p < n /\ n <= 8 * stream.bytes /\ OnChain(n) /\ Passed(n)
  <1> DEFINE e == stream.elem[p]
             n == PayloadEnd(stream, p)
  <1>1. /\ e.ok /\ Link(stream, p) /\ e.kind \notin {"lastEmpty", "padding"}
        /\ ~(e.kind = "metadata" /\ e.last)
        /\ p < n /\ n <= 8 * stream.bytes /\ n \in Nat
    BY GoesOnFacts
  <1>2. Passed(n)
    BY PassedNext
  <1>3. e.kind \in Kinds
    BY ElementFacts
  <1>4. n \in Starts(stream) /\ OnChain(n)
    <2>1. CASE e.kind \in {"window", "metadata", "uncompressed"}
      <3>1. \E out : HeaderAt(stream, n, out)
        BY <1>1, <2>1 DEF Link, PayloadEnd
      <3> QED
        BY <3>1 DEF HeaderAt, OnChain
    <2>2. CASE e.kind = "compressed"
      <3>1. /\ n = e.end /\ n < e.stop
            /\ InBlock(stream, p, n, {"code"}, e.from)
        BY <1>1, <2>2 DEF Link, PayloadEnd
      <3> QED
        BY <1>1, <2>2, <3>1 DEF InBlock, OnChain
    <2>3. CASE e.kind \in {"code"} \cup BodyKinds
      <3>1. /\ e.block \in Starts(stream) /\ n = e.end
            /\ stream.elem[e.block].kind = "compressed"
            /\ stream.elem[e.block].ok
            /\ e.block < p /\ p < stream.elem[e.block].stop
        BY <2>3 DEF OnChain, PayloadEnd, BodyKinds, HeaderKinds
      <3>2. /\ HoldsBlock(stream, e.block) /\ AfterBlock(stream, e.block)
            /\ stream.elem[e.block].stop \in Nat /\ e.block \in Nat /\ p \in Nat
            /\ e.block \in Nat
        <4>1. Link(stream, e.block)
          BY <3>1, ElementFacts
        <4> QED
          BY <3>1, <4>1, ElementFacts DEF Link
      <3>3. n <= stream.elem[e.block].stop
        BY <3>1, <3>2 DEF HoldsBlock
      <3>4. CASE n < stream.elem[e.block].stop
        <4>1. \E k \in SUBSET ({"code"} \cup BodyKinds) : \E out :
                InBlock(stream, e.block, n, k, out)
          <5>1. CASE e.kind = "code"
            BY <1>1, <3>1, <5>1 DEF Link, CodeLink, BodyKinds
          <5>2. CASE e.kind \in BodyKinds
            BY <1>1, <3>1, <3>4, <5>2 DEF Link, BodyLink
          <5> QED
            BY <2>3, <5>1, <5>2
        <4>2. /\ n \in Starts(stream)
              /\ stream.elem[n].kind \in {"code"} \cup BodyKinds
              /\ stream.elem[n].block = e.block
          BY <4>1 DEF InBlock
        <4>3. e.block < n
          BY <1>1, <3>1, <3>2
        <4> HIDE DEF n, e
        <4> QED
          BY <3>1, <3>4, <4>2, <4>3 DEF OnChain
      <3>5. CASE n = stream.elem[e.block].stop
        <4>1. \/ n \in Starts(stream) /\ stream.elem[n].kind = "padding"
              \/ \E out : HeaderAt(stream, n, out)
          BY <3>2, <3>5 DEF AfterBlock
        <4> QED
          BY <4>1 DEF HeaderAt, OnChain
      <3> QED
        BY <1>1, <3>2, <3>3, <3>4, <3>5
    <2> QED
      BY <1>1, <1>3, <2>1, <2>2, <2>3 DEF Kinds, HeaderKinds
  <1> QED
    BY <1>1, <1>2, <1>4

\* A bounded set of naturals that is not empty has a largest member.
LEMMA BoundedSetHasLargest ==
  ASSUME NEW S \in SUBSET Nat, S # {}, NEW n \in Nat, \A x \in S : x <= n
  PROVE  \E x \in S : \A y \in S : y <= x
  <1> DEFINE Above(x) == {y \in S : y > x}
             Aboves == {Above(x) : x \in S}
  <1>1. Aboves \subseteq FiniteSubsetsOf(S)
    <2>1. IsFiniteSet(S)
      BY FS_BoundedSetOfNaturals
    <2>2. \A x \in S : IsFiniteSet(Above(x))
      BY <2>1, FS_Subset
    <2> QED
      BY <2>2 DEF FiniteSubsetsOf
  <1>2. \E A \in Aboves :
          \A B \in Aboves : ~ (<<B, A>> \in StrictSubsetOrdering(S))
    <2>1. Aboves # {}
      OBVIOUS
    <2> HIDE DEF Aboves
    <2> QED
      BY <1>1, <2>1, FS_StrictSubsetOrderingWellFounded, WFMin
  <1>3. PICK x \in S :
          \A y \in S : ~ (<<Above(y), Above(x)>> \in StrictSubsetOrdering(S))
    BY <1>2
  <1>4. ASSUME NEW y \in S, ~(y <= x)
        PROVE  FALSE
    <2>1. S \subseteq Nat /\ y \in Nat /\ x \in Nat /\ x < y
      BY <1>4
    <2>2. Above(y) \subseteq Above(x) /\ y \in Above(x) /\ y \notin Above(y)
      <3>1. y \in Above(x) /\ y \notin Above(y)
        BY <1>4, <2>1
      <3>2. \A z \in Above(y) : z \in Above(x)
        BY <2>1
      <3> QED
        BY <3>1, <3>2
    <2>3. <<Above(y), Above(x)>> \in StrictSubsetOrdering(S)
      BY <2>2 DEF StrictSubsetOrdering
    <2> QED
      BY <1>3, <2>3
  <1> QED
    BY <1>4

\* There is an ending, and Ending is it.
LEMMA EndingFacts ==
  ASSUME TypeOK
  PROVE  TheEnding \in Starts(stream) /\ StopsAt(TheEnding) /\ Passed(TheEnding)
  <1> DEFINE Reached == {p \in Starts(stream) : OnChain(p) /\ Passed(p)}
  <1>1. \E p \in Starts(stream) : StopsAt(p) /\ Passed(p)
    <2> SUFFICES ASSUME \A p \in Starts(stream) : Passed(p) => ~StopsAt(p)
                 PROVE  FALSE
      OBVIOUS
    <2>1. 0 \in Reached
      <3>1. 0 \in Starts(stream) /\ stream.elem[0].kind = "window"
            /\ Starts(stream) \subseteq Nat
        BY StreamFacts DEF WellFormed
      <3>2. Passed(0)
        BY <3>1 DEF Passed
      <3> QED
        BY <3>1, <3>2 DEF OnChain
    <2>2. Reached \in SUBSET Nat /\ 8 * stream.bytes \in Nat
      BY StreamFacts
    <2>3. \A p \in Reached : p <= 8 * stream.bytes
      <3> TAKE p \in Reached
      <3>1. /\ p < PayloadEnd(stream, p) /\ PayloadEnd(stream, p) \in Nat
            /\ PayloadEnd(stream, p) <= 8 * stream.bytes
        BY GoesOnFacts
      <3> QED
        BY <2>2, <3>1
    <2>4. PICK m \in Reached : \A q \in Reached : q <= m
      <3> HIDE DEF Reached
      <3> QED
        BY <2>1, <2>2, <2>3, BoundedSetHasLargest
    <2>5. PICK n \in Starts(stream) : m < n /\ OnChain(n) /\ Passed(n)
      BY Successor
    <2>6. n \in Reached /\ n <= m /\ m \in Nat /\ n \in Nat
      BY <2>2, <2>4, <2>5
    <2> QED
      BY <2>5, <2>6
  <1>2. PICK p \in Starts(stream) : StopsAt(p) /\ Passed(p)
    BY <1>1
  <1>3. TheEnding = p
    BY <1>2, EndingIs
  <1> QED
    BY <1>2, <1>3

(***************************************************************************)
(* The goal.  Cut at its end the input is decoded up to the same element,  *)
(* as far, and nothing follows that: the goal is what the whole input      *)
(* gives, without the check for bytes that follow.                         *)
(***************************************************************************)
StreamOutcome ==
  LET e == stream.elem[TheEnding] IN
  IF e.end <= 8 * stream.bytes /\ Rejected(stream, max_output_size, TheEnding)
  THEN [verdict |-> "error", output |-> e.from]
  ELSE IF Truncated(stream, TheEnding)
       THEN [verdict |-> "starved", output |-> e.from + StoredHeld(stream, TheEnding)]
       ELSE [verdict |-> "finished", output |-> e.from]

Cut == Itself(stream, max_output_size)

\* An element ends before the payload that follows it.
LEMMA PayloadFacts ==
  ASSUME TypeOK, NEW p \in Starts(stream)
  PROVE  /\ PayloadEnd(stream, p) \in Nat
         /\ stream.elem[p].end <= PayloadEnd(stream, p)
         /\ p <= PayloadEnd(stream, p)
  BY ElementFacts DEF PayloadEnd

\* Up to the ending, what is cut off makes no difference.
LEMMA CutFacts ==
  ASSUME TypeOK
  PROVE  /\ Starts(Cut) = Starts(stream)
         /\ \A p \in Starts(stream) :
              /\ PayloadEnd(Cut, p) = PayloadEnd(stream, p)
              /\ FinalElement(Cut, p) <=> FinalElement(stream, p)
              /\ Rejected(Cut, max_output_size, p)
                   <=> Rejected(stream, max_output_size, p)
              /\ p <= TheEnding =>
                   /\ Truncated(Cut, p) <=> Truncated(stream, p)
                   /\ stream.elem[p].end <= 8 * Cut.bytes
                        <=> stream.elem[p].end <= 8 * stream.bytes
         /\ Cut.elem = stream.elem
         /\ Cut.bytes = Smaller(stream.bytes, BytesOf(PayloadEnd(stream, TheEnding)))
  <1>1. /\ Cut.elem = stream.elem
        /\ Cut.bytes = Smaller(stream.bytes, BytesOf(PayloadEnd(stream, TheEnding)))
    BY DEF Cut, Itself, StreamBytes, TheEnding
  <1>2. Starts(Cut) = Starts(stream)
    BY <1>1 DEF Starts
  <1>3. ASSUME NEW p \in Starts(stream)
        PROVE  /\ PayloadEnd(Cut, p) = PayloadEnd(stream, p)
               /\ FinalElement(Cut, p) <=> FinalElement(stream, p)
               /\ Rejected(Cut, max_output_size, p)
                    <=> Rejected(stream, max_output_size, p)
    BY <1>1 DEF PayloadEnd, FinalElement, Rejected, OverLimit
  <1>4. ASSUME NEW p \in Starts(stream), p <= TheEnding
        PROVE  /\ Truncated(Cut, p) <=> Truncated(stream, p)
               /\ stream.elem[p].end <= 8 * Cut.bytes
                    <=> stream.elem[p].end <= 8 * stream.bytes
    <2> DEFINE last == PayloadEnd(stream, TheEnding)
    <2>1. /\ TheEnding \in Starts(stream) /\ TheEnding \in Nat /\ p \in Nat
          /\ last \in Nat /\ TheEnding <= last /\ stream.bytes \in Nat
      BY EndingFacts, StreamFacts, PayloadFacts
    <2>2. /\ PayloadEnd(stream, p) \in Nat /\ stream.elem[p].end \in Nat
          /\ stream.elem[p].end <= PayloadEnd(stream, p)
      BY PayloadFacts, ElementFacts
    <2>3. PayloadEnd(stream, p) <= last
      <3>1. CASE p = TheEnding
        BY <2>2, <3>1
      <3>2. CASE p < TheEnding
        <4>1. PayloadEnd(stream, p) <= TheEnding
          BY <2>1, <3>2, StreamFacts DEF WellFormed, InOrder
        <4> QED
          BY <2>1, <2>2, <4>1
      <3> QED
        BY <1>4, <2>1, <3>1, <3>2
    <2>4. BytesOf(last) \in Nat /\ last <= 8 * BytesOf(last)
      BY <2>1, BytesFacts
    <2> HIDE DEF last
    <2>5. /\ PayloadEnd(stream, p) > 8 * Cut.bytes
               <=> PayloadEnd(stream, p) > 8 * stream.bytes
          /\ stream.elem[p].end <= 8 * Cut.bytes
               <=> stream.elem[p].end <= 8 * stream.bytes
      BY <1>1, <2>1, <2>2, <2>3, <2>4 DEF Smaller, last
    <2> QED
      BY <1>3, <2>5 DEF Truncated
  <1> QED
    BY <1>1, <1>2, <1>3, <1>4

LEMMA CutEnding ==
  ASSUME TypeOK
  PROVE  Ending(Cut, max_output_size) = TheEnding
  <1> DEFINE Ends(x) ==
        /\ Halts(Cut, max_output_size, x) \/ FinalElement(Cut, x)
        /\ \A q \in Starts(Cut) :
             q < x => ~Halts(Cut, max_output_size, q) /\ ~FinalElement(Cut, q)
  <1>1. /\ TheEnding \in Starts(stream) /\ StopsAt(TheEnding)
        /\ Passed(TheEnding) /\ Starts(stream) \subseteq Nat
        /\ Starts(Cut) = Starts(stream)
    BY EndingFacts, StreamFacts, CutFacts
  <1>2. ASSUME NEW p \in Starts(stream), p <= TheEnding
        PROVE  (Halts(Cut, max_output_size, p) \/ FinalElement(Cut, p)) <=> StopsAt(p)
    BY <1>2, CutFacts DEF Halts, StopsAt
  <1>3. Ends(TheEnding)
    <2>1. TheEnding <= TheEnding
          /\ \A q \in Starts(stream) : q < TheEnding => q <= TheEnding
      BY <1>1
    <2> QED
      BY <1>1, <1>2, <2>1 DEF Passed
  <1>4. ASSUME NEW x \in Starts(Cut), Ends(x)
        PROVE  x = TheEnding
    <2>1. ~(TheEnding < x)
      BY <1>1, <1>3, <1>4
    <2>2. ~(x < TheEnding)
      BY <1>1, <1>3, <1>4
    <2> QED
      BY <1>1, <2>1, <2>2
  <1>5. Ending(Cut, max_output_size) = CHOOSE x \in Starts(Cut) : Ends(x)
    BY DEF Ending
  <1> HIDE DEF Ends
  <1> QED
    BY <1>1, <1>3, <1>4, <1>5

\* Whether a byte follows an element that is not cut short.
LEMMA FollowFacts ==
  ASSUME NEW n \in Nat, NEW b \in Nat, n <= 8 * b
  PROVE  /\ 8 * b - n >= 8 <=> BytesOf(n) < b
         /\ ~(8 * Smaller(b, BytesOf(n)) - n >= 8)
  BY SMT DEF BytesOf, Smaller

LEMMA GoalIs ==
  ASSUME TypeOK
  PROVE  Goal = StreamOutcome
  <1> DEFINE p == TheEnding
             n == PayloadEnd(stream, p)
  <1>1. /\ p \in Starts(stream) /\ n \in Nat /\ p <= p
        /\ stream.elem[p].end \in Nat /\ stream.bytes \in Nat
        /\ BytesOf(n) \in Nat /\ n <= 8 * BytesOf(n)
    BY EndingFacts, PayloadFacts, ElementFacts, StreamFacts, BytesFacts
  <1>2. Goal = OneShot(Cut, max_output_size)
    BY DEF Goal, StreamDecode, Decoded, Cut, TypeOK
  <1>3. /\ Cut.elem = stream.elem /\ PayloadEnd(Cut, p) = n
        /\ Cut.bytes = Smaller(stream.bytes, BytesOf(n))
        /\ Rejected(Cut, max_output_size, p) <=> Rejected(stream, max_output_size, p)
        /\ Truncated(Cut, p) <=> Truncated(stream, p)
        /\ stream.elem[p].end <= 8 * Cut.bytes
             <=> stream.elem[p].end <= 8 * stream.bytes
    BY <1>1, CutFacts
  <1>4. Truncated(stream, p) => StoredHeld(Cut, p) = StoredHeld(stream, p)
    <2> SUFFICES ASSUME n > 8 * stream.bytes
                 PROVE  Cut.bytes = stream.bytes
      BY <1>3 DEF Truncated, StoredHeld
    <2> HIDE DEF n
    <2> QED
      BY <1>1, <1>3 DEF Smaller
  <1>5. ~Truncated(stream, p) => ~BytesFollow(Cut, p)
    <2> SUFFICES ASSUME ~(n > 8 * stream.bytes)
                 PROVE  ~BytesFollow(Cut, p)
      BY DEF Truncated
    <2>1. n <= 8 * stream.bytes
      BY <1>1
    <2> HIDE DEF n
    <2> QED
      BY <1>1, <1>3, <2>1, FollowFacts DEF BytesFollow
  <1> QED
    BY <1>2, <1>3, <1>4, <1>5, CutEnding DEF OneShot, StreamOutcome

\* What decoding all the input in one go gives: the same, but for an error
\* where bytes follow the stream.
LEMMA InputDecodeIs ==
  ASSUME TypeOK
  PROVE  InputDecode[stream][max_output_size] =
           IF Goal.verdict = "finished"
                /\ StreamBytes(stream, max_output_size) < stream.bytes
           THEN [verdict |-> "error", output |-> Goal.output]
           ELSE Goal
  <1> DEFINE p == TheEnding
             n == PayloadEnd(stream, p)
  <1>1. p \in Starts(stream) /\ n \in Nat /\ stream.bytes \in Nat
    BY EndingFacts, PayloadFacts, StreamFacts
  <1>2. InputDecode[stream][max_output_size] = OneShot(stream, max_output_size)
    BY DEF InputDecode, TypeOK
  <1>3. StreamBytes(stream, max_output_size) = BytesOf(n)
    BY DEF StreamBytes, TheEnding
  <1>4. ~Truncated(stream, p) =>
          (BytesFollow(stream, p) <=> BytesOf(n) < stream.bytes)
    <2> SUFFICES ASSUME ~(n > 8 * stream.bytes)
                 PROVE  8 * stream.bytes - n >= 8 <=> BytesOf(n) < stream.bytes
      BY DEF Truncated, BytesFollow
    <2> HIDE DEF n
    <2>1. n <= 8 * stream.bytes
      BY <1>1
    <2> QED
      BY <1>1, <2>1, FollowFacts
  <1> HIDE DEF n
  <1> QED
    BY <1>2, <1>3, <1>4, GoalIs DEF OneShot, StreamOutcome, TheEnding

\* A decoder that has passed everything before p is not past the goal.
LEMMA BeforeEnding ==
  ASSUME TypeOK, NEW p \in Starts(stream), Passed(p)
  PROVE  /\ p <= TheEnding
         /\ stream.elem[p].from <= stream.elem[TheEnding].from
         /\ stream.elem[TheEnding].from <= Goal.output
         /\ Goal.output \in Nat
  <1>1. TheEnding \in Starts(stream) /\ StopsAt(TheEnding)
    BY EndingFacts
  <1>2. p <= TheEnding
    BY <1>1, StreamFacts DEF Passed
  <1>3. /\ stream.elem[TheEnding].from \in Nat /\ stream.elem[TheEnding].end \in Nat
        /\ stream.bytes \in Nat
    BY <1>1, ElementFacts, StreamFacts
  <1>4. StoredHeld(stream, TheEnding) \in Nat
    <2>1. Monus(8 * stream.bytes, stream.elem[TheEnding].end) \in Nat
      BY <1>3 DEF Monus
    <2>2. Monus(8 * stream.bytes, stream.elem[TheEnding].end) \div 8 \in Nat
      BY <2>1, BytesFacts
    <2> QED
      BY <2>2 DEF StoredHeld
  <1>5. Goal.output \in {stream.elem[TheEnding].from,
                         stream.elem[TheEnding].from + StoredHeld(stream, TheEnding)}
    BY GoalIs DEF StreamOutcome
  <1> QED
    BY <1>1, <1>2, <1>3, <1>4, <1>5, OutputOrder

\* The goal of a stream that ends at a rejected element.
LEMMA GoalIsError ==
  ASSUME TypeOK, NEW p \in Starts(stream), Passed(p),
         Rejected(stream, max_output_size, p),
         stream.elem[p].end <= 8 * stream.bytes
  PROVE  Goal = [verdict |-> "error", output |-> stream.elem[p].from]
  <1>1. TheEnding = p
    BY EndingIs DEF StopsAt, Halts
  <1> QED
    BY <1>1, GoalIs DEF StreamOutcome

\* The goal of a stream that comes to its last element.
LEMMA GoalIsFinished ==
  ASSUME TypeOK, NEW p \in Starts(stream), Passed(p),
         FinalElement(stream, p), stream.elem[p].ok,
         PayloadEnd(stream, p) <= 8 * stream.bytes
  PROVE  /\ Goal = [verdict |-> "finished", output |-> stream.elem[p].from]
         /\ StreamBytes(stream, max_output_size) = BytesOf(PayloadEnd(stream, p))
  <1>1. TheEnding = p
    BY EndingIs DEF StopsAt
  <1>2. ~Rejected(stream, max_output_size, p)
    BY DEF Rejected, OverLimit, FinalElement
  <1>3. ~Truncated(stream, p)
    <2>1. PayloadEnd(stream, p) \in Nat /\ stream.bytes \in Nat
      BY ElementFacts, StreamFacts DEF PayloadEnd
    <2> QED
      BY <2>1 DEF Truncated
  <1> QED
    BY <1>1, <1>2, <1>3, GoalIs DEF StreamOutcome, TheEnding, StreamBytes

(***************************************************************************)
(* Where the decoder is on that way.  Every element before the one at hand *)
(* has been passed; a decoder that is done or has failed is at the ending, *)
(* with the goal's output.                                                 *)
(***************************************************************************)
PlaceInv ==
  /\ state \in {"StreamHeader", "MetaBlockHeader", "Compressed"} => Passed(At)
  /\ state \in {"Uncompressed", "Metadata"} =>
       /\ Passed(block) /\ ~Rejected(stream, max_output_size, block)
       /\ remaining <= stream.elem[block].len
  /\ state = "Done" =>
       /\ Goal = [verdict |-> "finished", output |-> output_base + decoded]
       /\ StreamBytes(stream, max_output_size) = BytesOf(At)
  /\ state = "Failed" =>
       Goal = [verdict |-> "error", output |-> output_base + decoded]

\* The caller offers input it has.
FedInv == fed + input <= stream.bytes

\* What the caller got is what has been written, now or before.
DeliveredInv ==
  delivered + (IF pc = "idle" THEN 0 ELSE wrote) = output_base + written

\* A decoder that said it finished has written everything.
FinishedInv ==
  status = "Finished" =>
    /\ state = "Done" /\ written = decoded
    /\ pc = "idle" \/ (pc = "top" /\ wrote = 0)

LEMMA PassedSame ==
  ASSUME NEW p, Passed(p), UNCHANGED streamVars
  PROVE  Passed(p)'
  BY DEF Passed, StopsAt, streamVars

LEMMA GoalSame ==
  ASSUME UNCHANGED streamVars
  PROVE  Goal' = Goal
         /\ StreamBytes(stream, max_output_size)' = StreamBytes(stream, max_output_size)
  BY DEF Goal, streamVars

\* A step that leaves the decoder at its place.
LEMMA PlaceStays ==
  ASSUME PlaceInv, At' = At,
         UNCHANGED <<streamVars, state, remaining, block>>,
         output_base' + decoded' = output_base + decoded
  PROVE  PlaceInv'
  <1>1. stream' = stream /\ max_output_size' = max_output_size
    BY DEF streamVars
  <1>2. state \in {"StreamHeader", "MetaBlockHeader", "Compressed"} => Passed(At)'
    <2>1. PICK p : p = At
      OBVIOUS
    <2>2. Passed(p) => Passed(p)'
      BY PassedSame
    <2> QED
      BY <2>1, <2>2 DEF PlaceInv, Passed
  <1>3. state \in {"Uncompressed", "Metadata"} => Passed(block)'
    <2>1. PICK p : p = block
      OBVIOUS
    <2>2. Passed(p) => Passed(p)'
      BY PassedSame
    <2> QED
      BY <2>1, <2>2 DEF PlaceInv, Passed
  <1> QED
    BY <1>1, <1>2, <1>3, GoalSame DEF PlaceInv

\* What the decoder has the bits of is in the stream.
LEMMA BitsInStream ==
  ASSUME IInv, FedInv, state # "Failed"
  PROVE  /\ first + held <= stream.bytes
         /\ At <= 8 * stream.bytes
         /\ \A e \in Nat : HasBits(e) => e <= 8 * stream.bytes
  <1>1. /\ first + held = fed + offered /\ offered <= input
        /\ first \in Nat /\ held \in Nat /\ fed \in Nat /\ offered \in Nat
        /\ input \in Nat /\ stream.bytes \in Nat
        /\ bit_pos \in Nat /\ bit_pos <= 8 * held
    BY StreamFacts DEF IInv, HeldInv, SlicesInRange, TypeOK
  <1> QED
    BY <1>1 DEF FedInv, HasBits, At

\* The decoder is never ahead of the goal.
LEMMA NotAhead ==
  ASSUME IInv, PlaceInv, FedInv
  PROVE  /\ output_base + decoded <= Goal.output
         /\ output_base + decoded \in Nat /\ Goal.output \in Nat
  <1>1. output_base + decoded \in Nat /\ output_base \in Nat /\ decoded \in Nat
    BY DEF IInv, TypeOK
  <1>2. CASE state \in {"Done", "Failed"}
    BY <1>1, <1>2 DEF PlaceInv
  <1>3. CASE state \in {"StreamHeader", "MetaBlockHeader", "Compressed"}
    <2>1. At \in Starts(stream) /\ stream.elem[At].from = output_base + decoded
      <3>1. CASE state = "StreamHeader"
        BY <3>1, StreamFacts DEF IInv, ResumesInPlace, OutputInv, WellFormed
      <3>2. CASE state \in {"MetaBlockHeader", "Compressed"}
        BY <3>2 DEF IInv, ResumesInPlace, HeaderAt, InBlock
      <3> QED
        BY <1>3, <3>1, <3>2
    <2>2. Passed(At) /\ TypeOK
      BY <1>3 DEF PlaceInv, IInv
    <2>3. /\ stream.elem[At].from <= stream.elem[TheEnding].from
          /\ stream.elem[TheEnding].from <= Goal.output
          /\ Goal.output \in Nat
      BY <2>1, <2>2, BeforeEnding
    <2>4. stream.elem[TheEnding].from \in Nat
      BY <2>2, EndingFacts, ElementFacts
    <2> QED
      BY <1>1, <2>1, <2>3, <2>4
  <1>4. CASE state \in {"Uncompressed", "Metadata"}
    <2>1. /\ block \in Starts(stream) /\ Passed(block) /\ TypeOK
          /\ ~Rejected(stream, max_output_size, block)
          /\ At + 8 * remaining = PayloadEnd(stream, block)
          /\ Header.ok /\ Header.from \in Nat /\ Header.len \in Nat
          /\ Header.end \in Nat /\ remaining \in Nat /\ block \in Nat
      BY <1>4, ElementFacts
         DEF PlaceInv, IInv, BlockInv, ResumesInPlace, Header, TypeOK
    <2>2. /\ block <= TheEnding /\ Header.from <= stream.elem[TheEnding].from
          /\ stream.elem[TheEnding].from <= Goal.output /\ Goal.output \in Nat
          /\ TheEnding \in Starts(stream) /\ StopsAt(TheEnding)
          /\ stream.elem[TheEnding].from \in Nat /\ TheEnding \in Nat
      BY <2>1, BeforeEnding, EndingFacts, ElementFacts DEF Header
    <2>3. CASE state = "Metadata"
      <3>1. output_base + decoded = Header.from
        BY <2>3 DEF IInv, BlockInv, Header
      <3> QED
        BY <1>1, <2>1, <2>2, <3>1
    <2>4. CASE state = "Uncompressed"
      <3>1. /\ output_base + decoded + remaining = Header.from + Header.len
            /\ Header.kind = "uncompressed"
            /\ PayloadEnd(stream, block) = Header.end + 8 * Header.len
        BY <2>4 DEF IInv, BlockInv, Header, PayloadEnd
      <3>2. CASE TheEnding = block
        <4>1. ~FinalElement(stream, block)
          BY <3>1 DEF FinalElement, Header
        <4>2. Truncated(stream, block)
          BY <2>1, <2>2, <3>2, <4>1 DEF StopsAt, Halts
        <4>3. Goal.output = Header.from + StoredHeld(stream, block)
          BY <2>1, <3>2, <4>2, GoalIs DEF IInv, StreamOutcome, Header
        <4>4. /\ At <= 8 * stream.bytes /\ stream.bytes \in Nat /\ At \in Nat
          BY <1>4, BitsInStream, StreamFacts DEF IInv, TypeOK, At
        <4>5. Header.len - remaining \in Nat
              /\ At = Header.end + 8 * (Header.len - remaining)
          <5>1. remaining <= Header.len
            BY <2>4 DEF PlaceInv, Header
          <5> QED
            BY <2>1, <3>1, <4>4, <5>1
        <4>6. Header.len - remaining <= StoredHeld(stream, block)
          <5>1. StoredHeld(stream, block)
                  = Monus(8 * stream.bytes, Header.end) \div 8
            BY <3>1 DEF StoredHeld, Header
          <5> DEFINE n == Header.len - remaining
                     m == Monus(8 * stream.bytes, Header.end)
          <5>2. /\ n \in Nat /\ m \in Nat /\ 8 * n <= m
            BY <2>1, <4>4, <4>5 DEF Monus
          <5> HIDE DEF n, m
          <5>3. n <= m \div 8
            BY <5>2, SMT
          <5> QED
            BY <5>1, <5>3 DEF n, m
        <4>7. StoredHeld(stream, block) \in Nat
          <5>1. StoredHeld(stream, block) = Goal.output - Header.from
            <6>1. StoredHeld(stream, block) \in Int
              BY <2>1, <4>4 DEF StoredHeld, Monus, Header
            <6> QED
              BY <2>1, <4>3, <6>1
          <5> QED
            BY <2>1, <2>2, <4>5, <4>6, <5>1
        <4> QED
          BY <1>1, <2>1, <2>2, <3>1, <4>3, <4>5, <4>6, <4>7
      <3>3. CASE block < TheEnding
        <4> DEFINE n == PayloadEnd(stream, block)
        <4>1. n \in Starts(stream) /\ stream.elem[n].from = Header.from + Header.len
          <5>1. Link(stream, block)
            BY <2>1, ElementFacts DEF Header
          <5> QED
            BY <3>1, <5>1 DEF Link, HeaderAt, Header
        <4>2. n <= TheEnding
          BY <2>1, <2>2, <3>3, StreamFacts DEF WellFormed, InOrder
        <4>3. stream.elem[n].from <= stream.elem[TheEnding].from
          BY <2>1, <2>2, <4>1, <4>2, OutputOrder
        <4> HIDE DEF n
        <4> QED
          BY <1>1, <2>1, <2>2, <3>1, <4>1, <4>3
      <3> QED
        BY <2>1, <2>2, <3>2, <3>3
    <2> QED
      BY <1>4, <2>3, <2>4
  <1> QED
    BY <1>2, <1>3, <1>4 DEF IInv, TypeOK, States

(***************************************************************************)
(* Each action takes the decoder along the chain, or stays.                *)
(***************************************************************************)
\* The four ways to be at a new place.
LEMMA PlaceAt ==
  ASSUME UNCHANGED streamVars, state' \in {"MetaBlockHeader", "Compressed"},
         NEW p, Passed(p), At' = p
  PROVE  PlaceInv'
  <1>1. Passed(p)'
    BY PassedSame
  <1>2. Passed(At)'
    BY <1>1 DEF Passed
  <1> QED
    BY <1>2 DEF PlaceInv

LEMMA PlaceStored ==
  ASSUME UNCHANGED streamVars, state' \in {"Uncompressed", "Metadata"},
         NEW p, Passed(p), block' = p, ~Rejected(stream, max_output_size, p),
         remaining' <= stream.elem[p].len
  PROVE  PlaceInv'
  <1>1. Passed(p)' /\ stream' = stream /\ max_output_size' = max_output_size
    BY PassedSame DEF streamVars
  <1>2. Passed(block)'
    BY <1>1 DEF Passed
  <1> QED
    BY <1>1, <1>2 DEF PlaceInv

LEMMA PlaceDone ==
  ASSUME UNCHANGED streamVars, state' = "Done",
         Goal = [verdict |-> "finished", output |-> output_base' + decoded'],
         StreamBytes(stream, max_output_size) = BytesOf(At')
  PROVE  PlaceInv'
  BY GoalSame DEF PlaceInv, streamVars

LEMMA PlaceFailed ==
  ASSUME UNCHANGED streamVars, state' = "Failed",
         Goal = [verdict |-> "error", output |-> output_base' + decoded']
  PROVE  PlaceInv'
  BY GoalSame DEF PlaceInv, streamVars

\* An accepted element the decoder has all of stops nothing.
LEMMA GoesOn ==
  ASSUME TypeOK, NEW p \in Starts(stream), stream.elem[p].ok,
         PayloadEnd(stream, p) <= 8 * stream.bytes,
         ~OverLimit(stream, max_output_size, p), ~FinalElement(stream, p)
  PROVE  ~StopsAt(p)
  <1>1. PayloadEnd(stream, p) \in Nat /\ stream.bytes \in Nat
    BY ElementFacts, StreamFacts DEF PayloadEnd
  <1> QED
    BY <1>1 DEF StopsAt, Halts, Rejected, Truncated

\* The decoder checks the limit against all output so far.
LEMMA LimitChecked ==
  ASSUME IInv, state = "MetaBlockHeader",
         Here.kind \in {"uncompressed", "compressed"}
  PROVE  PastLimit <=> OverLimit(stream, max_output_size, At)
  <1>1. out_len = decoded /\ Here.from = output_base + decoded
        /\ At \in Starts(stream) /\ Here = stream.elem[At]
    BY DEF IInv, OutputInv, ResumesInPlace, HeaderAt, Here
  <1>2. output_base \in Nat /\ decoded \in Nat /\ Here.len \in Nat
        /\ max_output_size \in Nat
    BY <1>1, ElementFacts, StreamFacts DEF IInv, TypeOK
  <1> QED
    BY <1>1, <1>2 DEF PastLimit, OverLimit

LEMMA WindowPlace ==
  ASSUME IInv, PlaceInv, FedInv, ReadStreamHeader \/ RejectStreamHeader
  PROVE  PlaceInv'
  <1>1. /\ state = "StreamHeader" /\ HasBits(Here.end) /\ At = 0
        /\ UNCHANGED streamVars
        /\ output_base' + decoded' = output_base + decoded
        /\ Passed(0) /\ TypeOK
    BY DEF ReadStreamHeader, RejectStreamHeader, InState, PlaceInv, IInv,
       ResumesInPlace, outputVars
  <1>2. /\ 0 \in Starts(stream) /\ Here = stream.elem[0] /\ Here.kind = "window"
        /\ Here.from = 0 /\ output_base + decoded = 0
    BY <1>1, StreamFacts DEF Here, WellFormed, IInv, OutputInv
  <1>3. Here.end \in Nat /\ Here.end <= 8 * stream.bytes
    BY <1>1, <1>2, BitsInStream, ElementFacts
  <1>4. CASE ReadStreamHeader
    <2>1. /\ Here.ok /\ state' = "MetaBlockHeader" /\ first' = first
          /\ bit_pos' = Here.end - 8 * first
      BY <1>4 DEF ReadStreamHeader
    <2>2. Passed(Here.end)
      <3>1. PayloadEnd(stream, 0) = Here.end
        BY <1>2 DEF PayloadEnd
      <3>2. ~OverLimit(stream, max_output_size, 0) /\ ~FinalElement(stream, 0)
        BY <1>2 DEF OverLimit, FinalElement
      <3> QED
        BY <1>1, <1>2, <1>3, <2>1, <3>1, <3>2, GoesOn, PassedNext
    <2>3. At' = Here.end
      BY <1>3, <2>1 DEF At, IInv, TypeOK
    <2> QED
      BY <1>1, <2>1, <2>2, <2>3, PlaceAt
  <1>5. CASE RejectStreamHeader
    <2>1. ~Here.ok /\ state' = "Failed"
      BY <1>5 DEF RejectStreamHeader, Fail
    <2>2. Goal = [verdict |-> "error", output |-> 0]
      BY <1>1, <1>2, <1>3, <2>1, GoalIsError DEF Rejected
    <2> QED
      BY <1>1, <1>2, <2>1, <2>2, PlaceFailed
  <1> QED
    BY <1>4, <1>5

\* A header the decoder has all of, and how the place looks before it.
LEMMA HeaderPlace ==
  ASSUME IInv, PlaceInv, FedInv, InState("MetaBlockHeader"), HasBits(Here.end)
  PROVE  /\ TypeOK /\ At \in Starts(stream) /\ Here = stream.elem[At]
         /\ Passed(At) /\ Here.from = output_base + decoded
         /\ Here.kind \in HeaderKinds
         /\ Here.end \in Nat /\ Here.end <= 8 * stream.bytes
         /\ state = "MetaBlockHeader"
  <1>1. /\ TypeOK /\ state = "MetaBlockHeader" /\ Passed(At)
        /\ At \in Starts(stream) /\ Here.from = output_base + decoded
        /\ Here.kind \in HeaderKinds
    BY DEF IInv, PlaceInv, InState, ResumesInPlace, HeaderAt, Here
  <1>2. Here.end \in Nat /\ Here.end <= 8 * stream.bytes
    BY <1>1, BitsInStream, ElementFacts DEF Here
  <1> QED
    BY <1>1, <1>2 DEF Here

LEMMA HeadersPlace ==
  ASSUME IInv, PlaceInv, FedInv,
         ReadLastEmpty \/ ReadMetadataHeader \/ ReadUncompressedHeader
           \/ ReadCompressedHeader
  PROVE  PlaceInv'
  <1>1. PICK k \in HeaderKinds : ReadHeader(k)
    BY DEF ReadLastEmpty, ReadMetadataHeader, ReadUncompressedHeader,
       ReadCompressedHeader, HeaderKinds
  <1>2. /\ InState("MetaBlockHeader") /\ HasBits(Here.end) /\ Here.ok
        /\ bit_pos' = Here.end - 8 * first
        /\ UNCHANGED <<streamVars, first, held, window>>
    BY <1>1 DEF ReadHeader, ReadLastEmpty, ReadMetadataHeader,
       ReadUncompressedHeader, ReadCompressedHeader
  <1>3. /\ TypeOK /\ At \in Starts(stream) /\ Here = stream.elem[At]
        /\ Passed(At) /\ Here.from = output_base + decoded
        /\ Here.end \in Nat /\ Here.end <= 8 * stream.bytes
        /\ state = "MetaBlockHeader"
    BY <1>2, HeaderPlace
  <1>4. /\ At' = Here.end /\ output_base' + decoded' = Here.from
    BY <1>1, <1>2, HeaderFacts
  <1>5. CASE ReadLastEmpty
    <2>1. Here.kind = "lastEmpty" /\ state' = "Done"
      BY <1>5 DEF ReadLastEmpty, ReadHeader
    <2>2. PayloadEnd(stream, At) = Here.end /\ FinalElement(stream, At)
      BY <1>3, <2>1 DEF PayloadEnd, FinalElement
    <2>3. /\ Goal = [verdict |-> "finished", output |-> Here.from]
          /\ StreamBytes(stream, max_output_size) = BytesOf(Here.end)
      BY <1>2, <1>3, <2>2, GoalIsFinished
    <2> QED
      BY <1>2, <1>4, <2>1, <2>3, PlaceDone
  <1>6. CASE ReadMetadataHeader \/ ReadUncompressedHeader
    <2>1. /\ state' \in {"Uncompressed", "Metadata"} /\ block' = At
          /\ remaining' = Here.len
          /\ Here.kind = "metadata" \/ (Here.kind = "uncompressed" /\ ~PastLimit)
      BY <1>6 DEF ReadMetadataHeader, ReadUncompressedHeader, ReadHeader
    <2>2. ~Rejected(stream, max_output_size, At)
      <3>1. ~OverLimit(stream, max_output_size, At)
        <4>1. CASE Here.kind = "metadata"
          BY <1>3, <4>1 DEF OverLimit
        <4>2. CASE Here.kind = "uncompressed" /\ ~PastLimit
          BY <1>3, <4>2, LimitChecked
        <4> QED
          BY <2>1, <4>1, <4>2
      <3> QED
        BY <1>2, <1>3, <3>1 DEF Rejected
    <2>3. Here.len \in Nat
      BY <1>3, ElementFacts
    <2>4. remaining' <= stream.elem[At].len
      BY <1>3, <2>1, <2>3
    <2> QED
      BY <1>2, <1>3, <2>1, <2>2, <2>4, PlaceStored
  <1>7. CASE ReadCompressedHeader
    <2>1. /\ state' = "Compressed" /\ Here.kind = "compressed" /\ ~PastLimit
      BY <1>7 DEF ReadCompressedHeader, ReadHeader
    <2>2. PayloadEnd(stream, At) = Here.end /\ ~FinalElement(stream, At)
      BY <1>3, <2>1 DEF PayloadEnd, FinalElement
    <2>3. ~StopsAt(At)
      BY <1>2, <1>3, <2>1, <2>2, LimitChecked, GoesOn
    <2>4. Passed(Here.end)
      BY <1>3, <2>2, <2>3, PassedNext
    <2> QED
      BY <1>2, <1>4, <2>1, <2>4, PlaceAt
  <1> QED
    BY <1>5, <1>6, <1>7

LEMMA RejectHeaderPlace ==
  ASSUME IInv, PlaceInv, FedInv, RejectHeader
  PROVE  PlaceInv'
  <1>1. /\ InState("MetaBlockHeader") /\ HasBits(Here.end) /\ Compact
        /\ state' = "Failed" /\ UNCHANGED streamVars
        /\ \/ ~Here.ok
           \/ Here.kind \in {"uncompressed", "compressed"} /\ PastLimit
    BY DEF RejectHeader, Fail
  <1>2. /\ TypeOK /\ At \in Starts(stream) /\ Here = stream.elem[At]
        /\ Passed(At) /\ Here.from = output_base + decoded
        /\ Here.end \in Nat /\ Here.end <= 8 * stream.bytes
        /\ state = "MetaBlockHeader"
    BY <1>1, HeaderPlace
  <1>3. Rejected(stream, max_output_size, At)
    BY <1>1, <1>2, LimitChecked DEF Rejected
  <1>4. Goal = [verdict |-> "error", output |-> Here.from]
    BY <1>2, <1>3, GoalIsError
  <1>5. output_base' + decoded' = output_base + decoded
    BY <1>1, CompactFacts DEF InState
  <1> QED
    BY <1>1, <1>2, <1>4, <1>5, PlaceFailed

\* Payload is copied or skipped within its block, or up to its end.
LEMMA PayloadPlace ==
  ASSUME IInv, PlaceInv, FedInv, CopyStored \/ SkipMetadata
  PROVE  PlaceInv'
  <1>1. /\ state \in {"Uncompressed", "Metadata"} /\ state # "Failed"
        /\ Passed(block) /\ ~Rejected(stream, max_output_size, block)
        /\ remaining <= Header.len
        /\ block \in Starts(stream) /\ TypeOK
        /\ At + 8 * remaining = PayloadEnd(stream, block)
        /\ UNCHANGED <<streamVars, block>>
    BY DEF CopyStored, SkipMetadata, InState, PlaceInv, IInv, ResumesInPlace,
       BlockInv, Header
  <1>2. PICK n \in Nat :
          /\ n <= Unread /\ n <= remaining
          /\ bit_pos' = bit_pos + 8 * n /\ remaining' = remaining - n
    <2>1. Unread \in Nat /\ remaining \in Nat
      BY UnreadNat DEF IInv, TypeOK
    <2>2. CASE CopyStored
      <3>1. /\ bit_pos' = bit_pos + 8 * StoredCount
            /\ remaining' = remaining - StoredCount
        BY <2>2 DEF CopyStored
      <3>2. StopAt - decoded \in Nat
        BY StopAtFacts DEF IInv, TypeOK
      <3>3. StoredCount \in Nat /\ StoredCount <= Unread /\ StoredCount <= remaining
        BY <2>1, <3>2 DEF StoredCount, Smaller
      <3> QED
        BY <3>1, <3>3
    <2>3. CASE SkipMetadata
      BY <2>1, <2>3 DEF SkipMetadata, Smaller
    <2> QED
      BY <2>2, <2>3
  <1>3. Header.len \in Nat /\ Header.end \in Nat /\ Header.ok
        /\ Header = stream.elem[block]
        /\ Header.kind \in {"uncompressed", "metadata"}
    BY <1>1, ElementFacts DEF Header, IInv, BlockInv
  <1>4. /\ remaining \in Nat /\ remaining' \in Nat /\ first' = first
        /\ bit_pos' <= 8 * held /\ At' = At + 8 * n /\ At \in Nat
    <2>1. first' = first /\ remaining \in Nat
      BY DEF CopyStored, SkipMetadata, IInv, TypeOK
    <2> QED
      BY <1>1, <1>2, <2>1, PayloadMove
  <1>5. CASE remaining' # 0
    <2>1. state' = state
      BY <1>5 DEF CopyStored, SkipMetadata, InState
    <2>2. remaining' <= stream.elem[block].len
      BY <1>1, <1>2, <1>3, <1>4
    <2> QED
      BY <1>1, <2>1, <2>2, PlaceStored
  <1>6. CASE remaining' = 0
    <2>1. At' = PayloadEnd(stream, block) /\ At' \in Nat
      BY <1>1, <1>2, <1>4, <1>6
    <2>2. HasBits(At')
      <3>1. /\ first \in Nat /\ held \in Nat /\ bit_pos' \in Nat
            /\ bit_pos' <= 8 * held
        BY <1>1, <1>2, <1>4, PayloadMove DEF IInv, TypeOK
      <3>2. At' = 8 * first + bit_pos'
        BY <1>4 DEF At
      <3>3. 8 * first + bit_pos' <= 8 * (first + held)
        <4>1. ASSUME NEW a \in Nat, NEW b \in Nat, NEW c \in Nat, c <= 8 * b
              PROVE  8 * a + c <= 8 * (a + b)
          BY <4>1
        <4> QED
          BY <3>1, <4>1
      <3> QED
        BY <3>2, <3>3 DEF HasBits
    <2>3. PayloadEnd(stream, block) <= 8 * stream.bytes
      BY <1>1, <2>1, <2>2, BitsInStream
    <2>4. CASE state' = "MetaBlockHeader"
      <3>1. ~FinalElement(stream, block)
        BY <1>1, <1>3, <1>6, <2>4 DEF FinalElement, SkipMetadata, CopyStored, InState, IInv, BlockInv
      <3>2. ~StopsAt(block)
        BY <1>1, <1>3, <2>3, <3>1, GoesOn DEF Rejected
      <3> QED
        BY <1>1, <2>1, <2>4, <3>2, PassedNext, PlaceAt
    <2>5. CASE state' = "Done"
      <3>1. /\ SkipMetadata /\ state = "Metadata" /\ Header.last
        BY <1>3, <1>6, <2>5 DEF SkipMetadata, CopyStored, InState
      <3>2. /\ FinalElement(stream, block) /\ Header.from = output_base + decoded
            /\ output_base' + decoded' = output_base + decoded
        BY <1>3, <3>1 DEF FinalElement, SkipMetadata, IInv, BlockInv, outputVars
      <3>3. /\ Goal = [verdict |-> "finished", output |-> Header.from]
            /\ StreamBytes(stream, max_output_size) = BytesOf(At')
        BY <1>1, <1>3, <2>1, <2>3, <3>2, GoalIsFinished
      <3> QED
        BY <1>1, <2>5, <3>2, <3>3, PlaceDone
    <2>6. state' \in {"MetaBlockHeader", "Done"}
      BY <1>6 DEF CopyStored, SkipMetadata, InState
    <2> QED
      BY <2>4, <2>5, <2>6
  <1> QED
    BY <1>5, <1>6

\* An element of the meta-block at hand is neither stored nor the last.
LEMMA BodyGoesOn ==
  ASSUME IInv, FedInv, state = "Compressed", NEW q \in Starts(stream),
         At <= q, q < Header.stop, HasBits(stream.elem[q].end),
         stream.elem[q].ok
  PROVE  /\ ~StopsAt(q)
         /\ PayloadEnd(stream, q) = stream.elem[q].end
  <1>1. /\ At \in Nat /\ block < At /\ block \in Nat
        /\ Header.stop \in Nat /\ HoldsBlock(stream, block)
        /\ Header = stream.elem[block]
    BY CompressedFacts
  <1>2. q \in Nat /\ stream.elem[q].end \in Nat
    BY ElementFacts DEF IInv
  <1>3. stream.elem[q].kind \in {"code"} \cup BodyKinds
    BY <1>1, <1>2 DEF HoldsBlock, InBlock
  <1>4. PayloadEnd(stream, q) = stream.elem[q].end
    BY <1>3 DEF PayloadEnd, BodyKinds
  <1>5. ~OverLimit(stream, max_output_size, q) /\ ~FinalElement(stream, q)
    BY <1>3 DEF OverLimit, FinalElement, BodyKinds
  <1>6. stream.elem[q].end <= 8 * stream.bytes
    BY <1>2, BitsInStream
  <1> QED
    BY <1>4, <1>5, <1>6, GoesOn DEF IInv

\* The body loop passes every element on its way.
LEMMA BodyPasses ==
  ASSUME IInv, PlaceInv, FedInv, NEW p \in Starts(stream), BodyReaches(p)
  PROVE  Passed(p)
  <1> SUFFICES ASSUME NEW q \in Starts(stream), q < p
               PROVE  ~StopsAt(q)
    BY DEF Passed
  <1>1. /\ state = "Compressed" /\ p \in Nat /\ At \in Nat /\ p < Header.stop
        /\ q \in Nat /\ Header.stop \in Nat
    BY BodyFacts, CompressedFacts, ElementFacts DEF IInv
  <1>2. CASE q < At
    BY <1>1, <1>2 DEF PlaceInv, Passed
  <1>3. CASE At <= q
    <2>1. ~(BodyStops(q) \/ BodyShort(q) \/ BodyRejects(q))
      BY <1>3 DEF BodyReaches
    <2>2. HasBits(stream.elem[q].end) /\ stream.elem[q].ok
      BY <2>1 DEF BodyShort, BodyRejects
    <2> QED
      BY <1>1, <1>3, <2>2, BodyGoesOn
  <1> QED
    BY <1>1, <1>2, <1>3

LEMMA CodePlace ==
  ASSUME IInv, PlaceInv, FedInv, ReadCode \/ RejectCode
  PROVE  PlaceInv'
  <1>1. /\ state = "Compressed" /\ HasBits(Here.end) /\ UNCHANGED streamVars
        /\ output_base' + decoded' = output_base + decoded
        /\ Passed(At) /\ TypeOK
    BY DEF ReadCode, RejectCode, InState, PlaceInv, IInv, outputVars
  <1>2. /\ At \in Starts(stream) /\ At \in Nat /\ Here = stream.elem[At]
        /\ At < Header.stop /\ Here.from = output_base + decoded
        /\ Here.end \in Nat
    BY <1>1, CompressedFacts, ElementFacts
  <1>3. CASE ReadCode
    <2>1. /\ Here.ok /\ state' = "Compressed" /\ first' = first
          /\ bit_pos' = Here.end - 8 * first
      BY <1>1, <1>3 DEF ReadCode, stateVars
    <2>2. ~StopsAt(At) /\ PayloadEnd(stream, At) = Here.end
      BY <1>1, <1>2, <2>1, BodyGoesOn
    <2>3. Passed(Here.end)
      BY <1>1, <1>2, <2>2, PassedNext
    <2>4. At' = Here.end
      BY <1>2, <2>1 DEF At, IInv, TypeOK
    <2> QED
      BY <1>1, <2>1, <2>3, <2>4, PlaceAt
  <1>4. CASE RejectCode
    <2>1. ~Here.ok /\ state' = "Failed"
      BY <1>4 DEF RejectCode, Fail
    <2>2. Here.end <= 8 * stream.bytes
      BY <1>1, <1>2, BitsInStream
    <2>3. Goal = [verdict |-> "error", output |-> Here.from]
      BY <1>1, <1>2, <2>1, <2>2, GoalIsError DEF Rejected
    <2> QED
      BY <1>1, <1>2, <2>1, <2>3, PlaceFailed
  <1> QED
    BY <1>3, <1>4

LEMMA BodyPlace ==
  ASSUME IInv, PlaceInv, FedInv, NEW p \in Starts(stream), Body(p)
  PROVE  PlaceInv'
  <1>1. /\ BodyReaches(p) /\ UNCHANGED <<streamVars, first, output_base>>
    BY DEF Body, BodyStop, BodyRunOut, BodyReject, BodyDone, StopForRoom, Return
  <1>2. /\ state = "Compressed" /\ p \in Nat /\ At \in Nat /\ At <= p
        /\ p < Header.stop /\ TypeOK /\ Passed(p)
        /\ output_base + InOutput(stream.elem[p].from) = stream.elem[p].from
        /\ 8 * first + Checkpoint(p) = p
    BY <1>1, BodyFacts, BodyPasses, CheckpointFacts DEF IInv
  <1>3. CASE BodyStop(p) \/ BodyRunOut(p)
    <2>1. bit_pos' = Checkpoint(p) /\ state' = "Compressed"
      BY <1>2, <1>3 DEF BodyStop, BodyRunOut, StopForRoom, Return, stateVars
    <2>2. At' = p
      BY <1>1, <1>2, <2>1 DEF At
    <2> QED
      BY <1>1, <1>2, <2>1, <2>2, PlaceAt
  <1>4. CASE BodyReject(p)
    <2>1. /\ BodyRejects(p) /\ state' = "Failed"
          /\ decoded' = InOutput(stream.elem[p].from)
      BY <1>4 DEF BodyReject, Fail
    <2>2. ~stream.elem[p].ok /\ HasBits(stream.elem[p].end)
      BY <1>1, <2>1, CopyHasHistory DEF BodyRejects, CopiesHaveHistory
    <2>3. stream.elem[p].end <= 8 * stream.bytes
      BY <1>2, <2>2, BitsInStream, ElementFacts
    <2>4. Goal = [verdict |-> "error", output |-> stream.elem[p].from]
      BY <1>2, <2>2, <2>3, GoalIsError DEF Rejected
    <2>5. output_base' + decoded' = stream.elem[p].from
      BY <1>1, <1>2, <2>1
    <2> QED
      BY <1>1, <2>1, <2>4, <2>5, PlaceFailed
  <1>5. CASE BodyDone(p)
    <2> DEFINE stop == Header.stop
    <2>1. /\ ~(BodyStops(p) \/ BodyShort(p) \/ BodyRejects(p))
          /\ stream.elem[p].end = stop
          /\ decoded' = InOutput(Header.from) + Header.len
          /\ bit_pos' = Checkpoint(stop)
          /\ state' = IF ~Header.last THEN "MetaBlockHeader"
                      ELSE IF stream.elem[stop].ok THEN "Done" ELSE "Failed"
      BY <1>5 DEF BodyDone
    <2>2. HasBits(stop) /\ stream.elem[p].ok
      BY <2>1 DEF BodyShort, BodyRejects
    <2>3. /\ stop \in Nat /\ AfterBlock(stream, block) /\ Header.from \in Nat
          /\ Header.len \in Nat /\ Header = stream.elem[block]
      BY <1>2, CompressedFacts
    <2>4. Passed(stop)
      <3>1. ~StopsAt(p) /\ PayloadEnd(stream, p) = stop
        BY <1>2, <2>1, <2>2, BodyGoesOn
      <3> QED
        BY <1>2, <3>1, PassedNext
    <2>5. At' = stop
      BY <1>1, <2>1, <2>3 DEF At, Checkpoint, IInv, TypeOK
    <2>6. output_base' + decoded' = Header.from + Header.len
      BY <1>1, <2>1, <2>3 DEF InOutput, IInv, TypeOK
    <2>7. CASE ~Header.last
      BY <1>1, <2>1, <2>4, <2>5, <2>7, PlaceAt
    <2>8. CASE Header.last
      <3>1. /\ stop \in Starts(stream) /\ stream.elem[stop].kind = "padding"
            /\ stream.elem[stop].from = Header.from + Header.len
        BY <2>3, <2>8 DEF AfterBlock
      <3>2. stream.elem[stop].end = 8 * BytesOf(stop)
        BY <1>2, <3>1, ElementFacts
      <3>3. /\ BytesOf(stop) \in Nat /\ BytesOf(8 * BytesOf(stop)) = BytesOf(stop)
            /\ stream.elem[stop].end <= 8 * stream.bytes
        <4>1. stop <= 8 * stream.bytes /\ stream.bytes \in Nat
          BY <1>2, <2>2, <2>3, BitsInStream, StreamFacts
        <4>2. ASSUME NEW b \in Nat, NEW n \in Nat, b <= 8 * n
              PROVE  /\ BytesOf(b) \in Nat /\ BytesOf(8 * BytesOf(b)) = BytesOf(b)
                     /\ 8 * BytesOf(b) <= 8 * n
          BY <4>2, SMT DEF BytesOf
        <4> QED
          BY <2>3, <3>2, <4>1, <4>2
      <3>4. CASE stream.elem[stop].ok
        <4>1. FinalElement(stream, stop) /\ PayloadEnd(stream, stop) = stream.elem[stop].end
          BY <3>1 DEF FinalElement, PayloadEnd
        <4>2. /\ Goal = [verdict |-> "finished", output |-> stream.elem[stop].from]
              /\ StreamBytes(stream, max_output_size) = BytesOf(stop)
          BY <1>2, <2>4, <3>1, <3>2, <3>3, <3>4, <4>1, GoalIsFinished
        <4> QED
          BY <1>1, <2>1, <2>5, <2>6, <2>8, <3>1, <3>4, <4>2, PlaceDone
      <3>5. CASE ~stream.elem[stop].ok
        <4>1. Goal = [verdict |-> "error", output |-> stream.elem[stop].from]
          BY <1>2, <2>4, <3>1, <3>3, <3>5, GoalIsError DEF Rejected
        <4> QED
          BY <1>1, <2>1, <2>6, <2>8, <3>1, <3>5, <4>1, PlaceFailed
      <3> QED
        BY <3>4, <3>5
    <2> QED
      BY <2>7, <2>8
  <1> QED
    BY <1>3, <1>4, <1>5 DEF Body

\* Calls and returns stay at their place, and so does a step that ran out.
LEMMA CallsStay ==
  ASSUME IInv, PlaceInv,
         \/ \E n \in Offers, r \in Rooms : Call(n, r)
         \/ ReturnOutputLeft \/ ReturnFinished \/ ReturnError \/ ReturnBeforeError
         \/ BeginStep \/ ShortOutputLeft \/ ShortNeedsInput \/ ShortTakePiece
         \/ StopStored \/ ShortStreamHeader \/ ShortHeader \/ ShortStored
         \/ ShortMetadata \/ ShortCode \/ UNCHANGED vars
  PROVE  PlaceInv'
  <1>1. /\ output_base \in Nat /\ decoded \in Nat /\ out_len \in Nat
        /\ state # "Compressed" => out_len = decoded
    BY DEF IInv, TypeOK, OutputInv
  <1>2. CASE \E n \in Offers, r \in Rooms : Call(n, r)
    <2>1. /\ UNCHANGED <<streamVars, outputVars, stateVars>>
          /\ first' = first + bit_pos \div 8
          /\ bit_pos' = bit_pos % 8
      BY <1>2 DEF Call
    <2>2. At' = At
      <3>1. first \in Nat /\ bit_pos \in Nat
        BY DEF IInv, TypeOK
      <3> QED
        BY <2>1, <3>1, BytesFacts DEF At
    <2> QED
      BY <2>1, <2>2, PlaceStays DEF outputVars, stateVars
  <1>3. CASE ReturnFinished
    <2>1. /\ UNCHANGED <<streamVars, stateVars>> /\ state = "Done"
          /\ first' = first /\ bit_pos' = bit_pos
          /\ IF out_len # 0
             THEN output_base' = output_base + out_len /\ decoded' = 0
             ELSE output_base' = output_base /\ decoded' = decoded
      BY <1>3 DEF ReturnFinished, Return
    <2> QED
      BY <1>1, <2>1, PlaceStays DEF At, stateVars
  <1>4. CASE ReturnOutputLeft \/ ReturnBeforeError \/ ShortOutputLeft
             \/ ShortNeedsInput \/ StopStored
    <2>1. UNCHANGED <<streamVars, stateVars, output_base, decoded, first, bit_pos>>
      BY <1>4 DEF ReturnOutputLeft, ReturnBeforeError, ShortOutputLeft,
         ShortNeedsInput, StopStored, StopForRoom, WriteThenReturn, Return
    <2> QED
      BY <2>1, PlaceStays DEF At, stateVars
  <1>5. CASE ReturnError \/ BeginStep \/ ShortTakePiece \/ ShortStreamHeader
             \/ ShortStored \/ ShortMetadata \/ ShortCode \/ UNCHANGED vars
    <2>1. UNCHANGED <<streamVars, stateVars, output_base, decoded, first, bit_pos>>
      BY <1>5 DEF ReturnError, BeginStep, ShortTakePiece, ShortStreamHeader,
         ShortStored, ShortMetadata, ShortCode, vars, outputVars, inputVars
    <2> QED
      BY <2>1, PlaceStays DEF At, stateVars
  <1>6. CASE ShortHeader
    <2>1. /\ UNCHANGED <<streamVars, stateVars, inputVars>>
          /\ output_base' + decoded' = output_base + decoded
      BY <1>6, CompactFacts DEF ShortHeader
    <2> QED
      BY <2>1, PlaceStays DEF At, stateVars, inputVars
  <1> QED
    BY <1>2, <1>3, <1>4, <1>5, <1>6

LEMMA PlaceKeeps ==
  ASSUME IInv, PlaceInv, FedInv, [Next]_vars
  PROVE  PlaceInv'
  BY CallsStay, WindowPlace, HeadersPlace, RejectHeaderPlace, PayloadPlace,
     CodePlace, BodyPlace DEF Next, Loop, Step

\* A call is offered what the caller still has, and consumes no more.
LEMMA FedKeeps ==
  ASSUME IInv, FedInv, [Next]_vars
  PROVE  FedInv'
  <1>1. fed \in Nat /\ input \in Nat /\ stream.bytes \in Nat
    BY StreamFacts DEF IInv, TypeOK
  <1>2. CASE \E n \in Offers, r \in Rooms : Call(n, r)
    BY <1>1, <1>2 DEF Call, Offers, FedInv, streamVars, callerVars
  <1>3. CASE Loop
    <2>1. stream' = stream
      BY <1>3, LoopConsumes DEF streamVars
    <2>2. \/ fed' = fed /\ input' = input
          \/ input' = 0 /\ \E c \in 0 .. input : fed' = fed + c
      BY <1>3, LoopConsumes
    <2> QED
      BY <1>1, <2>1, <2>2 DEF FedInv
  <1>4. CASE UNCHANGED vars
    BY <1>4 DEF FedInv, vars, streamVars, callVars, callerVars
  <1> QED
    BY <1>2, <1>3, <1>4 DEF Next

\* A call that writes counts what it wrote.
LEMMA DeliveredKeeps ==
  ASSUME IInv, DeliveredInv, [Next]_vars
  PROVE  DeliveredInv'
  <1>1. /\ delivered \in Nat /\ wrote \in Nat /\ written \in Nat
        /\ output_base \in Nat /\ decoded \in Nat /\ out_len \in Nat
        /\ room \in Nat /\ Writable \in Nat
        /\ pc \in {"idle", "top", "step", "short"}
        /\ state # "Compressed" => out_len = decoded
    BY StreamFacts, WritableFacts DEF IInv, TypeOK, OutputInv
  <1>2. CASE \E n \in Offers, r \in Rooms : Call(n, r)
    BY <1>1, <1>2 DEF Call, DeliveredInv, outputVars, callerVars
  <1>3. CASE ReturnOutputLeft \/ ReturnBeforeError \/ ShortOutputLeft
             \/ ShortNeedsInput
    <2>1. /\ written' = written + Writable /\ delivered' = delivered + (wrote + Writable)
          /\ output_base' = output_base /\ pc # "idle" /\ pc' = "idle"
      BY <1>3 DEF ReturnOutputLeft, ReturnBeforeError, ShortOutputLeft,
         ShortNeedsInput, WriteThenReturn, Return
    <2> QED
      BY <1>1, <2>1 DEF DeliveredInv
  <1>4. CASE ReturnFinished
    <2>1. /\ delivered' = delivered + (wrote + Writable)
          /\ pc # "idle" /\ pc' = "idle" /\ written + Writable = decoded
          /\ out_len = decoded
          /\ IF out_len # 0
             THEN output_base' = output_base + out_len /\ written' = 0
             ELSE output_base' = output_base /\ written' = written + Writable
      BY <1>1, <1>4 DEF ReturnFinished, Return
    <2> QED
      BY <1>1, <2>1 DEF DeliveredInv
  <1>5. CASE ReturnError
    BY <1>1, <1>5 DEF ReturnError, DeliveredInv, outputVars
  <1>6. CASE BeginStep \/ ShortTakePiece
    BY <1>1, <1>6 DEF BeginStep, ShortTakePiece, DeliveredInv, callerVars
  <1>7. CASE StopStored
    <2> DEFINE n == Smaller(decoded - written, room - wrote)
    <2>1. /\ written' = written + n /\ delivered' = delivered + (wrote + n)
          /\ output_base' = output_base /\ pc = "step" /\ pc' = "idle"
      BY <1>7 DEF StopStored, InState, StopForRoom, Return
    <2>2. n \in Int
      BY <1>1 DEF Smaller
    <2> HIDE DEF n
    <2> QED
      BY <1>1, <2>1, <2>2 DEF DeliveredInv
  <1>8. CASE ReadLastEmpty \/ ReadMetadataHeader \/ ReadUncompressedHeader
             \/ ReadCompressedHeader \/ RejectHeader \/ ShortHeader
    <2>1. InState("MetaBlockHeader") /\ Compact /\ delivered' = delivered
          /\ wrote' = wrote /\ pc' # "idle"
      BY <1>8 DEF ReadLastEmpty, ReadMetadataHeader, ReadUncompressedHeader,
         ReadCompressedHeader, RejectHeader, ShortHeader, ReadHeader,
         Continue, RunOut, Fail, callerVars
    <2>2. Dropped \in Nat
      BY <2>1, CompactFacts
    <2> QED
      BY <1>1, <2>1, <2>2 DEF DeliveredInv, Compact, InState
  <1>9. CASE ReadStreamHeader \/ RejectStreamHeader \/ ShortStreamHeader
             \/ CopyStored \/ ShortStored \/ SkipMetadata \/ ShortMetadata
             \/ ReadCode \/ RejectCode \/ ShortCode
    <2>1. UNCHANGED <<written, output_base, delivered, wrote>>
          /\ pc # "idle" /\ pc' # "idle"
      BY <1>9 DEF ReadStreamHeader, RejectStreamHeader, ShortStreamHeader,
         CopyStored, ShortStored, SkipMetadata, ShortMetadata, ReadCode,
         RejectCode, ShortCode, InState, Continue, RunOut, Fail, callerVars,
         outputVars
    <2> QED
      BY <2>1 DEF DeliveredInv
  <1>10. ASSUME NEW p \in Starts(stream), Body(p)
         PROVE  DeliveredInv'
    <2>1. BodyReaches(p) /\ pc = "step"
      BY <1>10 DEF Body, BodyStop, BodyRunOut, BodyReject, BodyDone,
         BodyReaches, InState
    <2>2. CASE BodyStop(p)
      <3>1. InOutput(stream.elem[p].from) \in Nat
        BY <2>1, BodyFacts
      <3>2. PICK n \in Int :
              /\ written' = written + n /\ delivered' = delivered + (wrote + n)
              /\ output_base' = output_base /\ pc' = "idle"
        BY <1>1, <2>2, <3>1 DEF BodyStop, StopForRoom, Return, Smaller
      <3> QED
        BY <1>1, <2>1, <3>2 DEF DeliveredInv
    <2>3. CASE BodyRunOut(p) \/ BodyReject(p) \/ BodyDone(p)
      <3>1. UNCHANGED <<written, output_base, delivered, wrote>> /\ pc' # "idle"
        BY <2>3 DEF BodyRunOut, BodyReject, BodyDone, Continue, RunOut, Fail,
           callerVars
      <3> QED
        BY <2>1, <3>1 DEF DeliveredInv
    <2> QED
      BY <1>10, <2>2, <2>3 DEF Body
  <1>11. CASE UNCHANGED vars
    BY <1>11 DEF vars, DeliveredInv, outputVars, callerVars
  <1> QED
    BY <1>2, <1>3, <1>4, <1>5, <1>6, <1>7, <1>8, <1>9, <1>10, <1>11
    DEF Next, Loop, Step

(***************************************************************************)
(* The contract.                                                           *)
(***************************************************************************)
\* A caller that was told how the stream ended gets no other answer.
LEMMA FinishedKeeps ==
  ASSUME IInv, FinishedInv, [Next]_vars
  PROVE  /\ FinishedInv'
         /\ status = "Finished" => status' = "Finished" /\ delivered' = delivered
  <1>1. CASE status = "Finished" /\ pc = "idle"
    <2>1. CASE \E n \in Offers, r \in Rooms : Call(n, r)
      BY <1>1, <2>1 DEF Call, FinishedInv, outputVars, stateVars, callerVars
    <2>2. CASE UNCHANGED vars
      BY <1>1, <2>2 DEF vars, FinishedInv, outputVars, stateVars, callerVars
    <2>3. ~Loop
      BY <1>1, LoopConsumes
    <2> QED
      BY <1>1, <2>1, <2>2, <2>3 DEF Next
  <1>2. CASE status = "Finished" /\ pc = "top"
    <2>1. /\ state = "Done" /\ written = decoded /\ wrote = 0 /\ Writable = 0
          /\ decoded \in Nat /\ out_len = decoded /\ delivered \in Nat
      BY <1>2, NothingLeft DEF FinishedInv, IInv, TypeOK, OutputInv
    <2>2. CASE ReturnFinished
      BY <2>1, <2>2 DEF ReturnFinished, Return, FinishedInv, stateVars
    <2>3. CASE UNCHANGED vars
      BY <1>2, <2>3 DEF vars, FinishedInv, outputVars, stateVars, callerVars
    <2>4. ~(\E n \in Offers, r \in Rooms : Call(n, r))
      BY <1>2 DEF Call
    <2>5. /\ ~ReturnOutputLeft /\ ~ReturnBeforeError /\ ~ReturnError /\ ~BeginStep
          /\ ~ShortOutputLeft /\ ~ShortNeedsInput /\ ~ShortTakePiece
      BY <1>2, <2>1 DEF ReturnOutputLeft, ReturnBeforeError, ReturnError,
         BeginStep, ShortOutputLeft, ShortNeedsInput, ShortTakePiece
    <2>6. ~Step
      BY <1>2 DEF Step, ReadStreamHeader, RejectStreamHeader,
         ShortStreamHeader, ReadLastEmpty, ReadMetadataHeader,
         ReadUncompressedHeader, ReadCompressedHeader, ReadHeader,
         RejectHeader, ShortHeader, CopyStored, StopStored, ShortStored,
         SkipMetadata, ShortMetadata, ReadCode, RejectCode, ShortCode, Body,
         BodyStop, BodyRunOut, BodyReject, BodyDone, BodyReaches, InState
    <2> QED
      BY <2>2, <2>3, <2>4, <2>5, <2>6 DEF Next, Loop
  <1>3. CASE status # "Finished"
    <2>1. CASE ReturnFinished
      <3>1. /\ written + Writable = decoded /\ state = "Done" /\ state' = state
            /\ status' = "Finished" /\ pc' = "idle"
            /\ IF out_len # 0
               THEN written' = 0 /\ decoded' = 0
               ELSE written' = written + Writable /\ decoded' = decoded
        BY <2>1 DEF ReturnFinished, Return, stateVars
      <3> QED
        BY <1>3, <3>1 DEF FinishedInv
    <2>2. CASE ~ReturnFinished
      <3>1. status' # "Finished"
        BY <1>3, <2>2 DEF Next, vars, Call, Loop, ReturnOutputLeft,
           ReturnError, ReturnBeforeError, BeginStep, ShortOutputLeft,
           ShortNeedsInput, WriteThenReturn, Return, StopForRoom,
           ShortTakePiece, Step, ReadStreamHeader, RejectStreamHeader,
           ShortStreamHeader, ReadLastEmpty, ReadMetadataHeader,
           ReadUncompressedHeader, ReadCompressedHeader, RejectHeader,
           ShortHeader, CopyStored, StopStored, ShortStored, SkipMetadata,
           ShortMetadata, ReadCode, RejectCode, ShortCode, Body, BodyStop,
           BodyRunOut, BodyReject, BodyDone, Continue, RunOut, Fail, callerVars
      <3> QED
        BY <1>3, <3>1 DEF FinishedInv
    <2> QED
      BY <2>1, <2>2
  <1> QED
    BY <1>1, <1>2, <1>3 DEF FinishedInv

\* What the refinement leans on.
AheadInv ==
  /\ output_base + decoded <= Goal.output
  /\ Goal.output \in Nat

DInv ==
  /\ IInv
  /\ PlaceInv
  /\ FedInv
  /\ DeliveredInv
  /\ FinishedInv
  /\ ErrorInv

LEMMA DInitially ==
  ASSUME Init
  PROVE  DInv
  <1>1. IInv
    BY InitInv
  <1>2. At = 0 /\ 0 \in Nat /\ Starts(stream) \subseteq Nat
    BY <1>1, StreamFacts DEF Init, At, IInv
  <1>3. Passed(At)
    BY <1>2 DEF Passed
  <1>4. PlaceInv
    BY <1>3 DEF Init, PlaceInv
  <1>5. stream.bytes \in Nat
    BY <1>1, StreamFacts DEF IInv
  <1>6. FedInv /\ DeliveredInv /\ FinishedInv /\ ErrorInv
    BY <1>5 DEF Init, FedInv, DeliveredInv, FinishedInv, ErrorInv
  <1> QED
    BY <1>1, <1>4, <1>6 DEF DInv

LEMMA DKeeps ==
  ASSUME DInv, [Next]_vars
  PROVE  DInv'
  BY NextKeeps, PlaceKeeps, FedKeeps, DeliveredKeeps, FinishedKeeps, ErrorKeeps
  DEF DInv

\* The returns of a call that runs on.
LEMMA RunningReturns ==
  ASSUME IInv, Loop, ~ReturnFinished, ~ReturnError
  PROVE  /\ UNCHANGED streamVars
         /\ \/ UNCHANGED <<delivered, status>>
            \/ /\ pc' = "idle" /\ status' \in {"NeedsInput", "NeedsOutput"}
               /\ \E w \in Nat : delivered' = delivered + w
  <1>1. UNCHANGED streamVars
    BY LoopConsumes
  <1>2. Writable \in Nat /\ wrote \in Nat /\ wrote <= room /\ written \in Nat
        /\ written <= decoded /\ decoded \in Nat /\ room \in Nat
    BY StreamFacts, WritableFacts DEF IInv, TypeOK, SlicesInRange
  <1>3. CASE ReturnOutputLeft \/ ReturnBeforeError \/ ShortOutputLeft
             \/ ShortNeedsInput
    <2>1. /\ status' \in {"NeedsInput", "NeedsOutput"} /\ pc' = "idle"
          /\ delivered' = delivered + (wrote + Writable)
      BY <1>3 DEF ReturnOutputLeft, ReturnBeforeError, ShortOutputLeft,
         ShortNeedsInput, WriteThenReturn, Return
    <2> QED
      BY <1>1, <1>2, <2>1
  <1>4. ASSUME NEW d \in Nat, decoded <= d, NEW b, StopForRoom(d, b)
        PROVE  /\ pc' = "idle" /\ status' \in {"NeedsInput", "NeedsOutput"}
               /\ \E w \in Nat : delivered' = delivered + w
    <2> DEFINE count == Smaller(d - written, room - wrote)
    <2>1. count \in Nat
      BY <1>2, <1>4 DEF Smaller
    <2>2. /\ status' = "NeedsOutput" /\ pc' = "idle"
          /\ delivered' = delivered + (wrote + count)
      BY <1>4 DEF StopForRoom, Return
    <2> HIDE DEF count
    <2> QED
      BY <1>2, <2>1, <2>2
  <1>5. CASE StopStored
    BY <1>1, <1>2, <1>4, <1>5 DEF StopStored
  <1>6. ASSUME NEW p \in Starts(stream), BodyStop(p)
        PROVE  /\ pc' = "idle" /\ status' \in {"NeedsInput", "NeedsOutput"}
               /\ \E w \in Nat : delivered' = delivered + w
    <2>1. BodyReaches(p)
          /\ StopForRoom(InOutput(stream.elem[p].from), Checkpoint(p))
      BY <1>6 DEF BodyStop
    <2> QED
      BY <1>4, <2>1, BodyFacts
  <1>7. CASE /\ ~(ReturnOutputLeft \/ ReturnBeforeError \/ ShortOutputLeft
                  \/ ShortNeedsInput)
             /\ ~StopStored /\ ~(\E p \in Starts(stream) : BodyStop(p))
    <2>1. UNCHANGED <<delivered, status>>
      BY <1>7 DEF Loop, BeginStep, ShortTakePiece, Step, ReadStreamHeader,
         RejectStreamHeader, ShortStreamHeader, ReadLastEmpty, ReadHeader,
         ReadMetadataHeader, ReadUncompressedHeader, ReadCompressedHeader,
         RejectHeader, ShortHeader, CopyStored, ShortStored, SkipMetadata,
         ShortMetadata, ReadCode, RejectCode, ShortCode, Body, BodyRunOut,
         BodyReject, BodyDone, Continue, RunOut, Fail, callerVars
    <2> QED
      BY <1>1, <2>1
  <1> QED
    BY <1>1, <1>3, <1>5, <1>6, <1>7

\* Every step delivers more of the goal's output, reports the verdict after
\* the last of it, or changes nothing the caller sees.
LEMMA ContractStep ==
  ASSUME DInv, DInv', AheadInv', [Next]_vars
  PROVE  [Contract!Next]_(Contract!contractVars)
  <1> USE DEF DInv
  <1>1. /\ delivered \in Nat /\ written \in Nat /\ decoded \in Nat
        /\ output_base \in Nat /\ wrote \in Nat /\ Writable \in Nat
        /\ status \in Statuses
    BY WritableFacts DEF IInv, TypeOK
  <1>2. ASSUME UNCHANGED streamVars
        PROVE  /\ Goal' = Goal
               /\ Goal \in {StreamDecode[s][l] : s \in Streams, l \in Limits}
    BY <1>2, GoalSame DEF IInv, TypeOK, Goal
  <1>3. CASE status \in {"Finished", "Error"}
    <2>1. status' = status /\ delivered' = delivered
      BY <1>3, FinishedKeeps, ErrorKeeps
    <2>2. UNCHANGED streamVars
      BY LoopConsumes DEF Next, Call, vars
    <2>3. Result' = Result /\ Goal' = Goal
      BY <2>1, <2>2, GoalSame DEF Result
    <2> QED
      BY <2>1, <2>3 DEF Contract!contractVars
  <1>4. CASE status \notin {"Finished", "Error"}
    <2>1. Result = "running"
      BY <1>4 DEF Result
    <2>2. CASE \/ \E n \in Offers, r \in Rooms : Call(n, r)
               \/ UNCHANGED vars
      <3>1. UNCHANGED <<streamVars, delivered, status>>
        BY <2>2 DEF Call, vars, callerVars
      <3> QED
        BY <3>1, GoalSame DEF Result, Contract!contractVars
    <2>3. CASE ReturnFinished
      <3>1. /\ state = "Done" /\ written + Writable = decoded /\ pc = "top"
            /\ delivered' = delivered + (wrote + Writable)
            /\ status' = "Finished" /\ UNCHANGED streamVars
        BY <2>3 DEF ReturnFinished, Return
      <3>2. Goal = [verdict |-> "finished", output |-> output_base + decoded]
        BY <3>1 DEF PlaceInv
      <3>3. delivered' = output_base + decoded /\ delivered <= output_base + decoded
        BY <1>1, <3>1 DEF DeliveredInv
      <3>4. Result' = "finished" /\ Goal' = Goal
        BY <3>1, GoalSame DEF Result
      <3> QED
        BY <2>1, <3>2, <3>3, <3>4 DEF Contract!Next, Contract!Settle
    <2>4. CASE ReturnError
      <3>1. /\ state = "Failed" /\ written + Writable = decoded /\ pc = "top"
            /\ wrote + Writable = 0 /\ delivered' = delivered
            /\ status' = "Error" /\ UNCHANGED streamVars
        BY <2>4 DEF ReturnError
      <3>2. Goal = [verdict |-> "error", output |-> output_base + decoded]
        BY <3>1 DEF PlaceInv
      <3>3. delivered = output_base + decoded
        BY <1>1, <3>1 DEF DeliveredInv
      <3>4. Result' = "error" /\ Goal' = Goal
        BY <3>1, GoalSame DEF Result
      <3> QED
        BY <1>1, <2>1, <3>1, <3>2, <3>3, <3>4 DEF Contract!Next, Contract!Settle
    <2>5. CASE Loop /\ ~ReturnFinished /\ ~ReturnError
      <3>1. UNCHANGED streamVars
            /\ \/ UNCHANGED <<delivered, status>>
               \/ /\ pc' = "idle" /\ status' \in {"NeedsInput", "NeedsOutput"}
                  /\ \E w \in Nat : delivered' = delivered + w
        BY <2>5, RunningReturns
      <3>2. Goal' = Goal
        BY <3>1, GoalSame
      <3>3. CASE UNCHANGED <<delivered, status>>
        BY <3>2, <3>3 DEF Result, Contract!contractVars
      <3>4. CASE /\ pc' = "idle" /\ status' \in {"NeedsInput", "NeedsOutput"}
                 /\ \E w \in Nat : delivered' = delivered + w
        <4>1. PICK w \in Nat : delivered' = delivered + w
          BY <3>4
        <4>2. Result' = "running"
          BY <3>4 DEF Result
        <4>3. /\ delivered' = output_base' + written' /\ written' <= decoded'
              /\ output_base' \in Nat /\ written' \in Nat /\ decoded' \in Nat
              /\ output_base' + decoded' <= Goal.output /\ Goal.output \in Nat
          <5>1. delivered' = output_base' + written'
            <6>1. delivered' + 0 = output_base' + written'
              BY <3>4 DEF DeliveredInv
            <6>2. delivered' \in Nat
              BY DEF IInv, TypeOK
            <6> QED
              BY <6>1, <6>2
          <5>2. /\ output_base' \in Nat /\ written' \in Nat /\ decoded' \in Nat
                /\ written' <= decoded'
            BY DEF IInv, TypeOK, SlicesInRange
          <5>3. output_base' + decoded' <= Goal.output /\ Goal.output \in Nat
            BY <3>2 DEF AheadInv
          <5> QED
            BY <5>1, <5>2, <5>3
        <4>4. delivered' <= Goal.output
          BY <4>3
        <4>5. CASE w = 0
          BY <1>1, <2>1, <3>2, <4>1, <4>2, <4>5 DEF Contract!contractVars
        <4>6. CASE w # 0
          <5>1. delivered' \in (delivered + 1) .. Goal.output
            BY <1>1, <4>1, <4>3, <4>4, <4>6
          <5> QED
            BY <2>1, <3>2, <4>2, <5>1 DEF Contract!Next, Contract!Deliver
        <4> QED
          BY <4>5, <4>6
      <3> QED
        BY <3>1, <3>3, <3>4
    <2> QED
      BY <2>2, <2>3, <2>4, <2>5 DEF Next
  <1> QED
    BY <1>3, <1>4

LEMMA DInvariant == Spec => []DInv
  <1>1. Init => DInv
    BY DInitially
  <1>2. DInv /\ [Next]_vars => DInv'
    BY DKeeps
  <1> QED
    BY <1>1, <1>2, PTL DEF Spec

\* A decoder that is done holds the stream's last byte and nothing past it.
LEMMA DoneHolds ==
  ASSUME IInv, HoldInv, PlaceInv, pc = "idle", state = "Done"
  PROVE  first + held = StreamBytes(stream, max_output_size)
  <1>1. /\ first \in Nat /\ held \in Nat /\ bit_pos \in Nat
        /\ BytesOf(bit_pos) <= held /\ BytesOf(bit_pos) \in Nat
    BY HeldBeforeFacts
  <1>2. held <= BytesOf(bit_pos)
    BY DEF HoldInv, Needed, HeldBefore, IInv, CallInv
  <1>3. BytesOf(At) = first + BytesOf(bit_pos)
    BY <1>1, BytesShift DEF At
  <1>4. StreamBytes(stream, max_output_size) = BytesOf(At)
    BY DEF PlaceInv
  <1> QED
    BY <1>1, <1>2, <1>3, <1>4

\* Once it is done, the decoder has consumed the stream and nothing else.
LEMMA DoneConsumed ==
  ASSUME IInv, HoldInv, PlaceInv, pc = "idle", state = "Done"
  PROVE  fed = StreamBytes(stream, max_output_size)
  <1>1. first + held = fed + offered /\ offered = 0 /\ fed \in Nat
    BY DEF IInv, HeldInv, CallInv, TypeOK
  <1> QED
    BY <1>1, DoneHolds

\* A verdict at the goal's output says what decoding all the input in one go
\* gives.
LEMMA VerdictOfWhole ==
  ASSUME IInv, HoldInv, PlaceInv, pc = "idle", NEW result, NEW output,
         result = "finished" => state = "Done" /\ output = output_base + decoded,
         result = "error" => state = "Failed" /\ output = output_base + decoded
  PROVE  AgreesWithOneShot(result, output)
  <1> DEFINE whole == InputDecode[stream][max_output_size]
  <1>1. TypeOK
    BY DEF IInv
  <1>2. whole = IF /\ Goal.verdict = "finished"
                   /\ StreamBytes(stream, max_output_size) < stream.bytes
                THEN [verdict |-> "error", output |-> Goal.output]
                ELSE Goal
    BY <1>1, InputDecodeIs
  <1> HIDE DEF whole
  <1>3. ASSUME result = "finished"
        PROVE  whole = [verdict |-> IF fed < stream.bytes THEN "error" ELSE "finished",
                        output |-> output]
    <2>1. /\ Goal = [verdict |-> "finished", output |-> output]
          /\ fed = StreamBytes(stream, max_output_size)
      BY <1>3, DoneConsumed DEF PlaceInv
    <2> QED
      BY <1>2, <2>1
  <1>4. ASSUME result = "error"
        PROVE  whole = [verdict |-> "error", output |-> output]
    <2>1. Goal = [verdict |-> "error", output |-> output]
      BY <1>4 DEF PlaceInv
    <2> QED
      BY <1>2, <2>1
  <1> QED
    BY <1>3, <1>4 DEF AgreesWithOneShot, whole

LEMMA ReturnedAgrees ==
  ASSUME IInv, HoldInv, DInv
  PROVE  VerdictAgrees
  <1> SUFFICES ASSUME pc = "idle"
               PROVE  AgreesWithOneShot(Result, delivered)
    BY DEF VerdictAgrees
  <1>1. delivered = output_base + written
    <2>1. delivered + 0 = output_base + written /\ delivered \in Nat
      BY DEF DInv, DeliveredInv, IInv, TypeOK
    <2> QED
      BY <2>1
  <1>2. Result = "finished" => state = "Done" /\ written = decoded
    BY DEF Result, DInv, FinishedInv
  <1>3. Result = "error" => state = "Failed" /\ written = decoded
    BY DEF Result, DInv, ErrorInv
  <1> QED
    BY <1>1, <1>2, <1>3, VerdictOfWhole DEF DInv

\* Decoding in pieces of any size, with any room, delivers exactly the output
\* that one-shot decoding of the stream does, and reports its verdict after the
\* last byte: PushDecoder implements DecodeContract.  One-shot decoding of all
\* the input says the same, except that it fails where bytes follow the
\* stream, which the push decoder then has not consumed.
THEOREM DecodesAsOneShot == Spec => OneShotDecode
  <1>1. Init => Contract!Init
    BY DEF Init, Contract!Init, Result, Goal
  <1>2. DInv => AheadInv
    BY NotAhead DEF DInv, AheadInv
  <1>3. DInv /\ DInv' /\ AheadInv' /\ [Next]_vars
          => [Contract!Next]_(Contract!contractVars)
    BY ContractStep
  <1>4. IInv /\ HoldInv /\ DInv => VerdictAgrees
    BY ReturnedAgrees
  <1> QED
    BY <1>1, <1>2, <1>3, <1>4, Inductive, HoldInvariant, DInvariant, PTL
    DEF Spec, OneShotDecode, Contract!Spec

(***************************************************************************)
(* The Read adapter.                                                       *)
(***************************************************************************)
(***************************************************************************)
(* The inductive invariant: a running call has the whole unread chunk as   *)
(* its input, so a decoder that asks for input has consumed all of it.     *)
(***************************************************************************)
ReadInv ==
  /\ rpc = "call" <=> pc # "idle"
  /\ rpc = "call" => input = input_len - input_pos
  /\ NeedsMore => input_pos = input_len
  /\ rpc \in {"call", "returned"} => room = buf /\ buf # 0
  /\ rpc = "unwrapped" => buffered = Buffered

SInv == StreamTypeOK /\ ChunkFollows /\ ReadInv

(***************************************************************************)
(* The adapter's calls are calls the decoder's caller may make.            *)
(***************************************************************************)
LEMMA ChunkFacts ==
  ASSUME IInv, SInv
  PROVE  /\ input_len \in Nat /\ input_pos \in Nat /\ input_pos <= input_len
         /\ input_end \in Nat /\ input_end <= stream.bytes
         /\ stream.bytes \in Nat /\ fed \in Nat
         /\ fed + (input_len - input_pos) = input_end
         /\ ChunkSize \in Nat \ {0}
         /\ got \in Nat /\ buffered \in Nat /\ buf \in 0 .. MaxRoom
  BY StreamFacts, StreamDecoderAssumption
     DEF SInv, StreamTypeOK, ChunkFollows, IInv, TypeOK, Rooms

LEMMA ReadCalls ==
  ASSUME IInv, SInv, NEW b \in Rooms \ {0}, Read(b)
  PROVE  /\ \E n \in Offers, r \in Rooms : Call(n, r)
         /\ SInv'
  <1> DEFINE n == input_len - input_pos
  <1>1. /\ Call(n, b) /\ rpc' = "call" /\ buf' = b
        /\ UNCHANGED <<readerVars, got, outcome, buffered>>
    BY DEF Read
  <1>2. n \in Offers
    BY ChunkFacts DEF Offers
  <1>3. /\ pc' = "top" /\ input' = n /\ room' = b
        /\ UNCHANGED <<streamVars, callerVars>>
    BY <1>1 DEF Call
  <1>4. StreamTypeOK'
    BY <1>1, <1>3 DEF SInv, StreamTypeOK, Rooms, Outcomes, readerVars, streamVars
  <1>5. ChunkFollows'
    BY <1>1, <1>3 DEF SInv, ChunkFollows, readerVars, callerVars
  <1>6. ReadInv'
    BY <1>1, <1>3 DEF ReadInv, NeedsMore, readerVars
  <1> QED
    BY <1>1, <1>2, <1>4, <1>5, <1>6 DEF SInv

LEMMA GoAroundCalls ==
  ASSUME IInv, SInv, NEW k \in Chunks, GoAround(k)
  PROVE  /\ \E n \in Offers, r \in Rooms : Call(n, r)
         /\ SInv'
  <1> DEFINE n == input_len' - input_pos'
  <1>1. /\ rpc = "returned" /\ Call(n, buf) /\ rpc' = "call" /\ buf' = buf
        /\ input_len' = IF NeedsMore THEN k ELSE input_len
        /\ input_pos' = IF NeedsMore THEN 0 ELSE input_pos
        /\ input_end' = input_end + k
        /\ UNCHANGED <<got, outcome, buffered>>
    BY DEF GoAround
  <1>2. /\ pc' = "top" /\ input' = n /\ room' = buf
        /\ UNCHANGED <<streamVars, callerVars>>
    BY <1>1 DEF Call
  <1>3. k \in Nat /\ input_end + k <= stream.bytes
        /\ (~NeedsMore => k = 0)
    BY ChunkFacts DEF Chunks, Smaller
  <1>4. NeedsMore => input_pos = input_len
    BY DEF SInv, ReadInv
  <1>5. /\ input_len' \in Nat /\ input_pos' \in 0 .. input_len'
        /\ fed' + (input_len' - input_pos') = input_end'
    <2>1. fed' = fed
      BY <1>2 DEF callerVars
    <2> QED
      BY <1>1, <1>3, <1>4, <2>1, ChunkFacts
  <1>6. n \in Offers /\ buf \in Rooms /\ buf # 0
    <2>1. n = IF NeedsMore THEN k ELSE input_len - input_pos
      BY <1>1, <1>3
    <2>2. n \in Offers
      BY <1>3, <2>1, ChunkFacts DEF Offers
    <2> QED
      BY <1>1, <2>2 DEF SInv, StreamTypeOK, ReadInv
  <1>7. StreamTypeOK'
    <2>1. input_end' \in 0 .. stream'.bytes
      BY <1>1, <1>2, <1>3, ChunkFacts DEF streamVars
    <2> QED
      BY <1>1, <1>5, <1>6, <2>1 DEF SInv, StreamTypeOK, Rooms
  <1>8. ChunkFollows'
    BY <1>5 DEF ChunkFollows
  <1>9. ReadInv'
    BY <1>1, <1>2, <1>6 DEF ReadInv, NeedsMore
  <1> QED
    BY <1>1, <1>6, <1>7, <1>8, <1>9 DEF SInv

LEMMA DecompressKeeps ==
  ASSUME IInv, SInv, Decompress
  PROVE  SInv'
  <1>1. /\ rpc = "call" /\ Loop
        /\ rpc' = IF pc' = "idle" THEN "returned" ELSE "call"
        /\ input_pos' = input_pos + (fed' - fed)
        /\ UNCHANGED <<input_end, input_len, buf, got, outcome, buffered>>
    BY DEF Decompress
  <1>2. /\ UNCHANGED streamVars /\ room' = room /\ pc # "idle"
        /\ \/ pc' # "idle" /\ fed' = fed /\ input' = input
           \/ pc' = "idle" /\ \E c \in 0 .. input :
                fed' = fed + c /\ (status' = "NeedsInput" => c = input)
    BY <1>1, LoopConsumes
  <1>3. input = input_len - input_pos /\ room = buf /\ buf # 0
        /\ input \in Nat
    BY <1>1 DEF SInv, ReadInv, IInv, TypeOK
  <1>4. PICK n \in 0 .. input :
          /\ fed' = fed + n
          /\ pc' # "idle" => n = 0 /\ input' = input
          /\ pc' = "idle" /\ status' = "NeedsInput" => n = input
    <2>1. CASE pc' # "idle"
      <3>1. 0 \in 0 .. input /\ fed' = fed + 0 /\ input' = input
        BY <1>2, <1>3, <2>1, ChunkFacts
      <3> QED
        BY <2>1, <3>1
    <2>2. CASE pc' = "idle"
      BY <1>2, <2>2
    <2> QED
      BY <2>1, <2>2
  <1>5. n \in Nat /\ n <= input_len - input_pos /\ input_pos' = input_pos + n
    BY <1>1, <1>3, <1>4, ChunkFacts
  <1>6. StreamTypeOK'
    <2>1. input_pos' \in 0 .. input_len' /\ input_len' \in Nat
      BY <1>1, <1>5, ChunkFacts
    <2>2. input_end' \in 0 .. stream'.bytes
      BY <1>1, <1>2 DEF SInv, StreamTypeOK, streamVars
    <2>3. buf' \in Rooms' /\ got' \in Nat /\ outcome' \in Outcomes
          /\ buffered' \in Nat
      BY <1>1 DEF SInv, StreamTypeOK, Rooms
    <2> QED
      BY <1>1, <2>1, <2>2, <2>3 DEF StreamTypeOK, Outcomes
  <1>7. ChunkFollows'
    <2>1. fed + n + (input_len - (input_pos + n)) = input_end
      BY <1>5, ChunkFacts
    <2> QED
      BY <1>1, <1>4, <1>5, <2>1 DEF ChunkFollows
  <1>8. ReadInv'
    <2>1. CASE pc' # "idle"
      <3>1. input' = input /\ rpc' = "call" /\ input_pos' = input_pos
        BY <1>1, <1>4, <1>5, <2>1, ChunkFacts
      <3> QED
        BY <1>1, <1>2, <1>3, <2>1, <3>1 DEF ReadInv, NeedsMore
    <2>2. CASE pc' = "idle"
      <3>1. rpc' = "returned"
        BY <1>1, <2>2
      <3>2. status' = "NeedsInput" => input_pos' = input_len'
        BY <1>1, <1>3, <1>4, <1>5, <2>2, ChunkFacts
      <3> QED
        BY <1>1, <1>2, <1>3, <2>2, <3>1, <3>2 DEF ReadInv, NeedsMore
    <2> QED
      BY <2>1, <2>2
  <1> QED
    BY <1>6, <1>7, <1>8 DEF SInv

(***************************************************************************)
(* The rest leaves the decoder alone.                                      *)
(***************************************************************************)
\* A read that returns with the chunk as it is.
LEMMA ReturnsKeepChunk ==
  ASSUME IInv, SInv, ReadInvalid \/ ReadBytes \/ ReadEof
  PROVE  SInv' /\ UNCHANGED vars
  <1>1. PICK o \in Outcomes, n \in {0, wrote} : ReadReturns(o, n)
    BY DEF ReadInvalid, ReadBytes, ReadEof, Outcomes
  <1>2. rpc = "returned" /\ UNCHANGED readerVars
    BY DEF ReadInvalid, ReadBytes, ReadEof
  <1>3. /\ rpc' = "idle" /\ outcome' = o /\ got' = got + n
        /\ UNCHANGED <<vars, buf, buffered>>
    BY <1>1 DEF ReadReturns
  <1>4. UNCHANGED <<stream, fed, pc>> /\ pc = "idle" /\ n \in Nat
    BY <1>2, <1>3 DEF vars, streamVars, callerVars, SInv, ReadInv, IInv, TypeOK
  <1>5. StreamTypeOK'
    <2>1. got' \in Nat
      BY <1>3, <1>4, ChunkFacts
    <2> QED
      BY <1>2, <1>3, <1>4, <2>1 DEF SInv, StreamTypeOK, Rooms, readerVars, Outcomes
  <1>6. ChunkFollows'
    BY <1>2, <1>4 DEF SInv, ChunkFollows, readerVars
  <1>7. ReadInv'
    BY <1>3, <1>4 DEF ReadInv, NeedsMore
  <1> QED
    BY <1>3, <1>5, <1>6, <1>7 DEF SInv

\* A read that returns for what the wrapped reader said: its chunk is spent.
LEMMA NothingReadKeeps ==
  ASSUME IInv, SInv, ReadNoMore \/ ReadFails
  PROVE  SInv' /\ UNCHANGED vars
  <1>1. PICK o \in Outcomes : ReadReturns(o, 0)
    BY DEF ReadNoMore, ReadFails, Outcomes
  <1>2. NeedsMore /\ input_len' = 0 /\ input_pos' = 0 /\ input_end' = input_end
    BY DEF ReadNoMore, ReadFails
  <1>3. /\ rpc' = "idle" /\ outcome' = o /\ got' = got + 0
        /\ UNCHANGED <<vars, buf, buffered>>
    BY <1>1 DEF ReadReturns
  <1>4. UNCHANGED <<stream, fed, pc>> /\ pc = "idle" /\ input_pos = input_len
    BY <1>2, <1>3 DEF vars, streamVars, callerVars, SInv, ReadInv, NeedsMore
  <1>5. StreamTypeOK'
    <2>1. got' \in Nat
      BY <1>3, ChunkFacts
    <2>2. 0 \in 0 .. 0
      OBVIOUS
    <2> QED
      BY <1>2, <1>3, <1>4, <2>1, <2>2 DEF SInv, StreamTypeOK, Rooms, Outcomes
  <1>6. ChunkFollows'
    <2>1. fed + (0 - 0) = input_end
      BY <1>4, ChunkFacts
    <2> QED
      BY <1>2, <1>4, <2>1 DEF ChunkFollows
  <1>7. ReadInv'
    BY <1>3, <1>4 DEF ReadInv, NeedsMore
  <1> QED
    BY <1>3, <1>5, <1>6, <1>7 DEF SInv

LEMMA BufferedNat ==
  ASSUME IInv, SInv
  PROVE  /\ PendingInput \in Nat /\ Buffered \in Nat
         /\ bit_pos \div 8 \in Nat
  <1>1. bit_pos \div 8 \in Nat /\ 8 * (bit_pos \div 8) <= bit_pos
    BY BytesFacts DEF IInv, TypeOK
  <1>2. PendingInput \in Nat
    BY <1>1 DEF PendingInput, IInv, TypeOK, SlicesInRange
  <1> QED
    BY <1>1, <1>2, ChunkFacts DEF Buffered

LEMMA IntoInnerKeeps ==
  ASSUME IInv, SInv, IntoInner
  PROVE  SInv' /\ UNCHANGED vars
  <1>1. /\ rpc = "idle" /\ rpc' = "unwrapped" /\ buffered' = Buffered
        /\ UNCHANGED <<vars, buf, readerVars, got, outcome>>
    BY DEF IntoInner
  <1>2. UNCHANGED <<stream, fed, pc, held, bit_pos, state, written, decoded>>
    BY <1>1 DEF vars, streamVars, callerVars, inputVars, outputVars, stateVars
  <1>3. Buffered' = Buffered
    BY <1>1, <1>2 DEF Buffered, Finished, PendingInput, readerVars
  <1>4. StreamTypeOK'
    BY <1>1, <1>2, BufferedNat DEF SInv, StreamTypeOK, Rooms, readerVars, Outcomes
  <1>5. ChunkFollows' /\ ReadInv'
    BY <1>1, <1>2, <1>3 DEF SInv, ChunkFollows, ReadInv, NeedsMore, readerVars
  <1> QED
    BY <1>1, <1>4, <1>5 DEF SInv

LEMMA StreamStutters ==
  ASSUME IInv, SInv, UNCHANGED allVars
  PROVE  SInv' /\ UNCHANGED vars
  <1>1. UNCHANGED <<vars, rpc, buf, readerVars, got, outcome, buffered>>
    BY DEF allVars, readVars
  <1>2. UNCHANGED <<stream, fed, pc, held, bit_pos, state, written, decoded,
                    input, room, wrote, status>>
    BY <1>1 DEF vars, streamVars, callerVars, inputVars, outputVars,
       stateVars, callVars
  <1>3. StreamTypeOK'
    BY <1>1, <1>2 DEF SInv, StreamTypeOK, Rooms, readerVars, Outcomes
  <1>4. ChunkFollows' /\ ReadInv'
    BY <1>1, <1>2 DEF SInv, ChunkFollows, ReadInv, NeedsMore, Buffered,
       Finished, PendingInput, readerVars
  <1> QED
    BY <1>1, <1>3, <1>4 DEF SInv

(***************************************************************************)
(* The adapter implements a decoder's caller, and what follows.            *)
(***************************************************************************)
LEMMA StreamStep ==
  ASSUME IInv, SInv, [StreamNext]_allVars
  PROVE  IInv' /\ SInv' /\ [Next]_vars
  <1>1. SInv' /\ [Next]_vars
    <2>1. ASSUME NEW b \in Rooms \ {0}, Read(b)
          PROVE  SInv' /\ [Next]_vars
      BY <2>1, ReadCalls DEF Next
    <2>2. ASSUME NEW k \in Chunks, GoAround(k)
          PROVE  SInv' /\ [Next]_vars
      BY <2>2, GoAroundCalls DEF Next
    <2>3. CASE Decompress
      BY <2>3, DecompressKeeps DEF Decompress, Next
    <2>4. CASE ReadInvalid \/ ReadBytes \/ ReadEof
      BY <2>4, ReturnsKeepChunk
    <2>5. CASE ReadNoMore \/ ReadFails
      BY <2>5, NothingReadKeeps
    <2>6. CASE IntoInner
      BY <2>6, IntoInnerKeeps
    <2>7. CASE UNCHANGED allVars
      BY <2>7, StreamStutters
    <2> QED
      BY <2>1, <2>2, <2>3, <2>4, <2>5, <2>6, <2>7 DEF StreamNext, ReadLoop
  <1> QED
    BY <1>1, NextKeeps

LEMMA StreamInitInv ==
  ASSUME StreamInit
  PROVE  Init /\ IInv /\ SInv
  <1>1. Init /\ IInv
    BY InitInv DEF StreamInit
  <1>2. stream.bytes \in Nat /\ MaxRoom \in Nat
    BY <1>1, StreamFacts DEF IInv
  <1>3. StreamTypeOK
    BY <1>2 DEF StreamInit, StreamTypeOK, Rooms, Outcomes
  <1>4. ChunkFollows /\ ReadInv
    BY DEF StreamInit, Init, ChunkFollows, ReadInv, NeedsMore
  <1> QED
    BY <1>1, <1>3, <1>4 DEF SInv

\* Every behaviour of the adapter is a behaviour of its PushDecoder, and the
\* adapter's invariant holds.
THEOREM StreamImplementsPush == StreamSpec => Spec /\ []SInv
  <1>1. StreamInit => Init /\ IInv /\ SInv
    BY StreamInitInv
  <1>2. IInv /\ SInv /\ [StreamNext]_allVars => IInv' /\ SInv' /\ [Next]_vars
    BY StreamStep
  <1> QED
    BY <1>1, <1>2, PTL DEF StreamSpec, Spec

\* Nothing the wrapped reader gave is dropped, skipped or offered twice.
THEOREM ChunksFollow == StreamSpec => []ChunkFollows
  <1>1. SInv => ChunkFollows
    BY DEF SInv
  <1> QED
    BY <1>1, StreamImplementsPush, PTL

\* Unwrapping an unfinished decoder that reported no error gives back all
\* input from its checkpoint on, once.
THEOREM UnwrapKeepsInput == StreamSpec => []UnwrapLosesNothing
  <1>1. IInv /\ SInv /\ InputConserved => UnwrapLosesNothing
    <2> SUFFICES ASSUME IInv, SInv, InputConserved, rpc = "unwrapped",
                        ~Finished, status # "Error"
                 PROVE  FromCheckpoint
      BY DEF UnwrapLosesNothing
    <2>1. buffered = PendingInput + (input_len - input_pos)
      BY DEF SInv, ReadInv, Buffered
    <2>2. first + held = fed /\ first \in Nat /\ held \in Nat
      BY ChunkFacts DEF InputConserved, SInv, ReadInv, IInv, CallInv, TypeOK
    <2> QED
      BY <2>1, <2>2, ChunkFacts, BufferedNat
         DEF FromCheckpoint, UnreadFrom, PendingInput
  <1> QED
    BY <1>1, StreamImplementsPush, Inductive, ConservesInput, PTL

\* A `read` with room never goes around its loop for nothing.
THEOREM ReadNeverSpins == StreamSpec => []NeverSpins
  <1>1. SInv /\ NeedsOutputUsedRoom => NeverSpins
    BY DEF SInv, ReadInv, NeedsOutputUsedRoom, NeverSpins
  <1> QED
    BY <1>1, StreamImplementsPush, RoomIsUsed, PTL

(***************************************************************************)
(* What into_inner gives back of a stream that is finished.                *)
(***************************************************************************)
\* Unwrapped after the stream's end, the reader comes with exactly the input
\* that follows the stream, whatever pieces it was read in.
THEOREM UnwrapKeepsTrailing == StreamSpec => []TrailingInputSurvives
  <1>1. IInv /\ SInv /\ HoldInv /\ DInv => TrailingInputSurvives
    <2> SUFFICES ASSUME IInv, SInv, HoldInv, PlaceInv, rpc = "unwrapped",
                        state = "Done", written = decoded
                 PROVE  UnreadFrom = StreamBytes(stream, max_output_size)
      BY DEF TrailingInputSurvives, Finished, DInv
    <2>1. pc = "idle" /\ buffered = input_len - input_pos
      BY DEF SInv, ReadInv, Buffered, Finished, IInv, TypeOK
    <2>2. first + held = fed
      BY <2>1, ChunkFacts DEF IInv, HeldInv, CallInv, TypeOK
    <2>3. UnreadFrom = fed
      BY <2>1, ChunkFacts DEF UnreadFrom
    <2> QED
      BY <2>1, <2>2, <2>3, DoneHolds
  <1> QED
    BY <1>1, StreamImplementsPush, Inductive, HoldInvariant, DInvariant, PTL

(***************************************************************************)
(* Reading delivers what decoding the stream in one go does.               *)
(***************************************************************************)
\* What the decoder delivered the caller of `read` has, but for what the
\* call that just returned wrote.
GotInv ==
  /\ got + (IF rpc = "returned" THEN wrote ELSE 0) = delivered
  /\ rpc = "returned" /\ status = "Error" => wrote = 0

\* The end of file and the error were the decoder's, and nothing follows.
OutcomeInv ==
  /\ outcome = "eof" => status = "Finished" /\ got = delivered
  /\ outcome = "invalid" => status = "Error" /\ got = delivered

RInv == GotInv /\ OutcomeInv

\* A turn of the decoder's loop delivers when it returns.
LEMMA LoopDelivers ==
  ASSUME IInv, Loop
  PROVE  \/ pc' # "idle" /\ delivered' = delivered
         \/ /\ pc' = "idle" /\ delivered' = delivered + wrote'
            /\ status' = "Error" => wrote' = 0
  <1>1. /\ delivered \in Nat /\ wrote \in Nat /\ Writable \in Nat
    BY WritableFacts DEF IInv, TypeOK
  <1>2. CASE ReturnOutputLeft \/ ReturnBeforeError \/ ShortOutputLeft
             \/ ShortNeedsInput \/ ReturnFinished \/ StopStored
    BY <1>2 DEF ReturnOutputLeft, ReturnBeforeError, ShortOutputLeft,
       ShortNeedsInput, ReturnFinished, StopStored, StopForRoom,
       WriteThenReturn, Return
  <1>3. CASE ReturnError
    BY <1>1, <1>3 DEF ReturnError
  <1>4. CASE \E p \in Starts(stream) : BodyStop(p)
    BY <1>4 DEF BodyStop, StopForRoom, Return
  <1>5. CASE /\ ~(ReturnOutputLeft \/ ReturnBeforeError \/ ShortOutputLeft
                  \/ ShortNeedsInput \/ ReturnFinished)
             /\ ~StopStored /\ ~ReturnError
             /\ ~(\E p \in Starts(stream) : BodyStop(p))
    BY <1>5 DEF Loop, BeginStep, ShortTakePiece, Step, ReadStreamHeader,
       RejectStreamHeader, ShortStreamHeader, ReadLastEmpty, ReadHeader,
       ReadMetadataHeader, ReadUncompressedHeader, ReadCompressedHeader,
       RejectHeader, ShortHeader, CopyStored, ShortStored, SkipMetadata,
       ShortMetadata, ReadCode, RejectCode, ShortCode, Body, BodyRunOut,
       BodyReject, BodyDone, BodyReaches, InState, Continue, RunOut, Fail,
       callVars, callerVars
  <1> QED
    BY <1>2, <1>3, <1>4, <1>5

\* The decoder's verdict is its last word.
LEMMA VerdictStays ==
  ASSUME IInv, FinishedInv, ErrorInv, [Next]_vars, status \in {"Finished", "Error"}
  PROVE  status' = status /\ delivered' = delivered
  BY FinishedKeeps, ErrorKeeps

LEMMA ReadKeeps ==
  ASSUME IInv, IInv', SInv, SInv', RInv, DInv, [StreamNext]_allVars, [Next]_vars
  PROVE  RInv'
  <1>1. /\ got \in Nat /\ wrote \in Nat /\ delivered \in Nat /\ wrote' \in Nat
    BY ChunkFacts DEF IInv, TypeOK
  <1>2. CASE \/ \E b \in Rooms \ {0} : Read(b)
             \/ \E k \in Chunks : GoAround(k)
    <2>1. /\ rpc = "idle" \/ (rpc = "returned" /\ wrote = 0)
          /\ rpc' = "call" /\ got' = got /\ outcome' = outcome
          /\ delivered' = delivered /\ status' = status
      BY <1>2 DEF Read, GoAround, Call, callerVars
    <2> QED
      BY <1>1, <2>1 DEF RInv, GotInv, OutcomeInv
  <1>3. CASE Decompress
    <2>1. /\ rpc = "call" /\ Loop
          /\ rpc' = IF pc' = "idle" THEN "returned" ELSE "call"
          /\ got' = got /\ outcome' = outcome
      BY <1>3 DEF Decompress
    <2>2. GotInv'
      BY <1>1, <2>1, LoopDelivers DEF RInv, GotInv
    <2>3. OutcomeInv'
      BY <2>1, VerdictStays DEF RInv, OutcomeInv, DInv
    <2> QED
      BY <2>2, <2>3 DEF RInv
  <1>4. CASE ReadInvalid \/ ReadBytes \/ ReadEof \/ ReadNoMore \/ ReadFails
    <2>1. PICK o \in Outcomes, n \in {wrote} : ReadReturns(o, n)
      BY <1>4 DEF ReadInvalid, ReadBytes, ReadEof, ReadNoMore, ReadFails,
         NeedsMore, Outcomes, RInv, GotInv
    <2>2. /\ rpc = "returned" /\ rpc' = "idle" /\ got' = got + wrote
          /\ UNCHANGED vars
          /\ outcome' = "eof" => status = "Finished"
          /\ outcome' = "invalid" => status = "Error"
      BY <1>4, <2>1 DEF ReadReturns, ReadInvalid, ReadBytes, ReadEof, ReadNoMore,
         ReadFails, NeedsMore
    <2>3. delivered' = delivered /\ status' = status /\ got' = delivered
      BY <1>1, <2>2 DEF vars, callerVars, RInv, GotInv
    <2> QED
      BY <1>1, <2>2, <2>3 DEF RInv, GotInv, OutcomeInv
  <1>5. CASE IntoInner \/ UNCHANGED allVars
    <2>1. /\ UNCHANGED <<got, outcome, delivered, status, wrote>>
          /\ rpc' = rpc \/ (rpc = "idle" /\ rpc' = "unwrapped")
      BY <1>5 DEF IntoInner, allVars, readVars, vars, callerVars
    <2> QED
      BY <1>1, <2>1 DEF RInv, GotInv, OutcomeInv
  <1> QED
    BY <1>2, <1>3, <1>4, <1>5 DEF StreamNext, ReadLoop

\* Every step of the adapter gives more of the goal's output, reports the
\* verdict after the last of it, or changes nothing the caller of `read` sees.
LEMMA ReadContractStep ==
  ASSUME IInv, SInv, RInv, DInv, AheadInv, [StreamNext]_allVars, [Next]_vars
  PROVE  [ReadContract!Next]_(ReadContract!contractVars)
  <1>1. /\ got \in Nat /\ wrote \in Nat /\ delivered \in Nat
        /\ output_base \in Nat /\ written \in Nat /\ decoded \in Nat
    BY ChunkFacts DEF IInv, TypeOK
  <1>2. UNCHANGED streamVars
    BY LoopConsumes DEF Next, Call, vars
  <1>3. Goal' = Goal
    BY <1>2, GoalSame
  <1>4. CASE rpc = "returned" /\ (ReadInvalid \/ ReadBytes \/ ReadEof)
    <2>1. got + wrote = delivered
      BY <1>4 DEF RInv, GotInv
    <2>2. CASE ReadBytes
      <3>1. /\ got' = got + wrote /\ wrote # 0 /\ outcome' = "bytes"
        BY <2>2 DEF ReadBytes, ReadReturns
      <3>2. ReadResult = "running" /\ ReadResult' = "running"
        BY <1>1, <2>1, <3>1 DEF ReadResult, RInv, OutcomeInv
      <3>3. delivered <= Goal.output /\ Goal.output \in Nat
        <4>1. delivered = output_base + written
          BY <1>1, <1>4 DEF DInv, DeliveredInv, SInv, ReadInv, IInv, TypeOK
        <4>2. written <= decoded /\ output_base + decoded <= Goal.output
              /\ Goal.output \in Nat
          BY DEF IInv, SlicesInRange, AheadInv
        <4> QED
          BY <1>1, <4>1, <4>2
      <3>4. got' \in (got + 1) .. Goal.output
        BY <1>1, <2>1, <3>1, <3>3
      <3> QED
        BY <1>3, <3>2, <3>4 DEF ReadContract!Next, ReadContract!Deliver
    <2>3. CASE ReadEof
      <3>1. /\ got' = got + 0 /\ wrote = 0 /\ outcome' = "eof"
            /\ status = "Finished"
        BY <2>3 DEF ReadEof, ReadReturns
      <3>2. state = "Done" /\ written = decoded /\ pc = "idle"
        BY <1>4, <3>1 DEF DInv, FinishedInv, SInv, ReadInv
      <3>3. Goal = [verdict |-> "finished", output |-> output_base + decoded]
        BY <3>2 DEF DInv, PlaceInv
      <3>4. got' = Goal.output /\ got' = got
        BY <1>1, <2>1, <3>1, <3>2, <3>3 DEF DInv, DeliveredInv
      <3>5. ReadResult' = "finished" /\ ReadResult \in {"running", "finished"}
        BY <3>1 DEF ReadResult, RInv, OutcomeInv
      <3>6. CASE ReadResult = "running"
        BY <1>1, <1>3, <3>3, <3>4, <3>5, <3>6
        DEF ReadContract!Next, ReadContract!Settle
      <3>7. CASE ReadResult = "finished"
        BY <1>3, <3>4, <3>5, <3>7 DEF ReadContract!contractVars
      <3> QED
        BY <3>5, <3>6, <3>7
    <2>4. CASE ReadInvalid
      <3>1. /\ got' = got + 0 /\ wrote = 0 /\ outcome' = "invalid"
            /\ status = "Error"
        BY <1>4, <2>4 DEF ReadInvalid, ReadReturns, RInv, GotInv
      <3>2. state = "Failed" /\ written = decoded /\ pc = "idle"
        BY <1>4, <3>1 DEF DInv, ErrorInv, SInv, ReadInv
      <3>3. Goal = [verdict |-> "error", output |-> output_base + decoded]
        BY <3>2 DEF DInv, PlaceInv
      <3>4. got' = Goal.output /\ got' = got
        BY <1>1, <2>1, <3>1, <3>2, <3>3 DEF DInv, DeliveredInv
      <3>5. ReadResult' = "error" /\ ReadResult \in {"running", "error"}
        BY <3>1 DEF ReadResult, RInv, OutcomeInv
      <3>6. CASE ReadResult = "running"
        BY <1>1, <1>3, <3>3, <3>4, <3>5, <3>6
        DEF ReadContract!Next, ReadContract!Settle
      <3>7. CASE ReadResult = "error"
        BY <1>3, <3>4, <3>5, <3>7 DEF ReadContract!contractVars
      <3> QED
        BY <3>5, <3>6, <3>7
    <2> QED
      BY <1>4, <2>2, <2>3, <2>4
  <1>5. CASE ReadNoMore \/ ReadFails
    <2>1. /\ status = "NeedsInput" /\ got' = got + 0
          /\ outcome' \in {"truncated", "ioError"}
      BY <1>5 DEF ReadNoMore, ReadFails, NeedsMore, ReadReturns
    <2>2. ReadResult = "running" /\ ReadResult' = "running"
      BY <2>1 DEF ReadResult, RInv, OutcomeInv
    <2> QED
      BY <1>1, <1>3, <2>1, <2>2 DEF ReadContract!contractVars
  <1>6. CASE ~(ReadInvalid \/ ReadBytes \/ ReadEof \/ ReadNoMore \/ ReadFails)
    <2>1. UNCHANGED <<got, outcome>>
      BY <1>6 DEF StreamNext, ReadLoop, Read, Decompress, GoAround, IntoInner,
         allVars, readVars
    <2> QED
      BY <1>3, <2>1 DEF ReadResult, ReadContract!contractVars
  <1> QED
    BY <1>4, <1>5, <1>6 DEF ReadInvalid, ReadBytes, ReadEof

LEMMA ReadReturnedAgrees ==
  ASSUME IInv, HoldInv, RInv, DInv
  PROVE  ReadVerdictAgrees
  <1> SUFFICES ASSUME pc = "idle"
               PROVE  AgreesWithOneShot(ReadResult, got)
    BY DEF ReadVerdictAgrees
  <1>1. delivered = output_base + written
    <2>1. delivered + 0 = output_base + written /\ delivered \in Nat
      BY DEF DInv, DeliveredInv, IInv, TypeOK
    <2> QED
      BY <2>1
  <1>2. ReadResult = "finished" => state = "Done" /\ written = decoded /\ got = delivered
    BY DEF ReadResult, RInv, OutcomeInv, DInv, FinishedInv
  <1>3. ReadResult = "error" => state = "Failed" /\ written = decoded /\ got = delivered
    BY DEF ReadResult, RInv, OutcomeInv, DInv, ErrorInv
  <1> QED
    BY <1>1, <1>2, <1>3, VerdictOfWhole DEF DInv

\* Reading to the end gives exactly the output of a one-shot decode of the
\* stream, and end of file or "invalid data" comes after its last byte, with
\* its verdict.  One-shot decoding of all the input says the same, except that
\* it fails where bytes follow the stream; into_inner gives those back
\* (UnwrapKeepsTrailing).
THEOREM ReadsAsOneShot == StreamSpec => OneShotRead
  <1>1. StreamInit => ReadContract!Init /\ RInv
    BY DEF StreamInit, Init, ReadContract!Init, ReadResult, Goal, RInv, GotInv,
       OutcomeInv
  <1>2. (IInv /\ IInv' /\ SInv /\ SInv' /\ RInv /\ DInv
           /\ [StreamNext]_allVars /\ [Next]_vars)
        => RInv'
    BY ReadKeeps
  <1>3. DInv => AheadInv
    BY NotAhead DEF DInv, AheadInv
  <1>4. (IInv /\ SInv /\ RInv /\ DInv /\ AheadInv
           /\ [StreamNext]_allVars /\ [Next]_vars)
        => [ReadContract!Next]_(ReadContract!contractVars)
    BY ReadContractStep
  <1>5. IInv /\ HoldInv /\ SInv /\ RInv /\ DInv => ReadVerdictAgrees
    BY ReadReturnedAgrees
  <1> QED
    BY <1>1, <1>2, <1>3, <1>4, <1>5, StreamImplementsPush, Inductive,
       HoldInvariant, DInvariant, PTL
    DEF StreamSpec, Spec, OneShotRead, ReadContract!Spec
=============================================================================
