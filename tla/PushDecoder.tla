---------------------------- MODULE PushDecoder ----------------------------
(***************************************************************************)
(* burli_decode::PushDecoder (crates/decode/src/push.rs): a decoder that   *)
(* takes its input and its output room in pieces of any size.              *)
(*                                                                         *)
(* One `decompress` call is a Call, then turns of its loop, then a return: *)
(* pc = "top" writes output and looks at the state, pc = "step" runs one   *)
(* step, pc = "short" handles a step that ran out of input.  The caller    *)
(* keeps the input the decoder did not take and offers it again.           *)
(*                                                                         *)
(* Bytes are counted, not stored.  `first` is the stream position of the   *)
(* first byte of `encoded`; the element at the decoder's bit position is   *)
(* the one the stream has at 8 * first + bit_pos, so a decoder that        *)
(* resumes at the wrong bit finds no element there.  A body step of a      *)
(* compressed meta-block goes from checkpoint to checkpoint: MetaBlock.tla *)
(* has the loop inside.                                                    *)
(***************************************************************************)
EXTENDS DecodeStream

CONSTANTS
  Streams,      (* the streams a decoder may be given                      *)
  Limits,       (* values of max_output_size                               *)
  MaxRoom,      (* largest output slice of a call                          *)
  InputPiece,   (* INPUT_PIECE                                             *)
  Slack,        (* OUTPUT_SLACK                                            *)
  ZeroAhead     (* ZERO_AHEAD                                              *)

ASSUME PushDecoderAssumption ==
  /\ \A s \in Streams : WellFormed(s)
  /\ Limits \subseteq Nat
  /\ MaxRoom \in Nat
  /\ InputPiece \in Nat \ {0}
  /\ Slack \in Nat
  /\ ZeroAhead \in Nat

VARIABLES
  stream,           (* the input, fixed at the start                       *)
  max_output_size,
  \* PushDecoder
  first,            (* stream position of encoded[0]                       *)
  held,             (* encoded.len()                                       *)
  bit_pos,
  window,           (* window size of window_bits, 0 before the header     *)
  out_len,          (* output.len()                                        *)
  output_base,
  written,
  decoded,
  state,
  remaining,        (* State::Uncompressed and State::Metadata             *)
  block,            (* start of the current block's header                 *)
  \* locals of the running call
  pc,
  input,            (* input.len()                                         *)
  room,             (* output.len() of the caller's slice                  *)
  taken,
  offered,
  wrote,            (* `written` of the call                               *)
  \* the caller
  fed,              (* input the decoder said it consumed                  *)
  delivered,        (* output it said it wrote                             *)
  status            (* what the last call returned                         *)

streamVars == <<stream, max_output_size>>
inputVars == <<first, held, bit_pos>>
outputVars == <<out_len, output_base, written, decoded>>
stateVars == <<window, state, remaining, block>>
callVars == <<input, room, taken, offered>>
callerVars == <<fed, delivered, status>>
vars == <<streamVars, inputVars, outputVars, stateVars, callVars, callerVars,
          pc, wrote>>

NotTaken == -1

States == {"StreamHeader", "MetaBlockHeader", "Uncompressed", "Metadata",
           "Compressed", "Done", "Failed"}

Statuses == {"None", "NeedsInput", "NeedsOutput", "Finished", "Error"}

(***************************************************************************)
(* Where the decoder reads, and what it reads there.                       *)
(***************************************************************************)
At == 8 * first + bit_pos
Here == stream.elem[At]
HasBits(end) == end <= 8 * (first + held)

(***************************************************************************)
(* The call and its returns.                                               *)
(***************************************************************************)
Init ==
  /\ stream \in Streams
  /\ max_output_size \in Limits
  /\ first = 0 /\ held = 0 /\ bit_pos = 0
  /\ window = 0
  /\ out_len = 0 /\ output_base = 0 /\ written = 0 /\ decoded = 0
  /\ state = "StreamHeader"
  /\ remaining = 0
  /\ block = 0
  /\ pc = "idle"
  /\ input = 0 /\ room = 0 /\ taken = NotTaken /\ offered = 0 /\ wrote = 0
  /\ fed = 0 /\ delivered = 0 /\ status = "None"

\* The caller offers the next n bytes it still has, and r bytes of room.  The
\* call first drops the input before the last checkpoint.
Call(n, r) ==
  /\ pc = "idle"
  /\ first' = first + bit_pos \div 8
  /\ held' = held - bit_pos \div 8
  /\ bit_pos' = bit_pos % 8
  /\ input' = n /\ room' = r /\ taken' = NotTaken /\ offered' = 0 /\ wrote' = 0
  /\ pc' = "top"
  /\ UNCHANGED <<streamVars, outputVars, stateVars, callerVars>>

\* write_output: what of the decoded output the caller's slice still takes.
Writable == Smaller(decoded - written, room - wrote)

\* progress: unless the decoder needs all of the input, what the call took
\* past the byte of its checkpoint b goes back to the caller.
TakesAll_Never(s) == FALSE \* mutant: a step that ran out hands all back

TakesAll(s) == s = "NeedsInput"

Kept_Floored(b) == Smaller(Larger(b \div 8, taken), held) \* mutant: drops the byte b is in
Kept_Everything(b) == held \* mutant: hands nothing back

Kept(b) == Smaller(Larger(BytesOf(b), taken), held)

\* mutant: counts what was held before the call again
Consumed_Again(s, b) ==
  IF taken = NotTaken THEN 0 ELSE IF TakesAll(s) THEN input ELSE Kept(b)

Consumed(s, b) ==
  IF taken = NotTaken THEN 0
  ELSE IF TakesAll(s) THEN input
  ELSE Kept(b) - taken

\* Return with status s and the call's written count w, at checkpoint b.
Return(s, w, b) ==
  /\ held' = IF taken = NotTaken \/ TakesAll(s) THEN held ELSE Kept(b)
  /\ fed' = fed + Consumed(s, b)
  /\ delivered' = delivered + w
  /\ status' = s
  /\ pc' = "idle"
  /\ input' = 0 /\ offered' = 0 /\ taken' = NotTaken
  /\ room' = room /\ wrote' = w
  /\ bit_pos' = b
  /\ UNCHANGED first

WriteThenReturn(s) ==
  /\ written' = written + Writable
  /\ Return(s, wrote + Writable, bit_pos)

\* Top of the loop: output is left that the slice does not take.
ReturnOutputLeft ==
  /\ pc = "top"
  /\ written + Writable < decoded
  /\ WriteThenReturn("NeedsOutput")
  /\ UNCHANGED <<streamVars, stateVars, out_len, output_base, decoded>>

\* State::Done with all output written: release_output, then return.
ReturnFinished ==
  /\ pc = "top"
  /\ written + Writable = decoded
  /\ state = "Done"
  /\ IF out_len # 0
     THEN /\ output_base' = output_base + out_len
          /\ out_len' = 0 /\ written' = 0 /\ decoded' = 0
     ELSE /\ written' = written + Writable
          /\ UNCHANGED <<out_len, output_base, decoded>>
  /\ Return("Finished", wrote + Writable, bit_pos)
  /\ UNCHANGED <<streamVars, stateVars>>

\* State::Failed: the error, or first the output up to it.  The error leaves
\* by `return Err`, past `progress`.
ReturnError ==
  /\ pc = "top"
  /\ written + Writable = decoded
  /\ state = "Failed"
  /\ wrote + Writable = 0
  /\ status' = "Error"
  /\ pc' = "idle"
  /\ input' = 0 /\ offered' = 0 /\ taken' = NotTaken
  /\ UNCHANGED <<streamVars, inputVars, outputVars, stateVars,
                 room, wrote, fed, delivered>>

ReturnBeforeError ==
  /\ pc = "top"
  /\ written + Writable = decoded
  /\ state = "Failed"
  /\ wrote + Writable # 0
  /\ WriteThenReturn("NeedsOutput")
  /\ UNCHANGED <<streamVars, stateVars, out_len, output_base, decoded>>

\* Otherwise a step runs, with the room that is left.
BeginStep ==
  /\ pc = "top"
  /\ written + Writable = decoded
  /\ state \notin {"Done", "Failed"}
  /\ written' = written + Writable
  /\ wrote' = wrote + Writable
  /\ pc' = "step"
  /\ UNCHANGED <<streamVars, inputVars, stateVars, callVars, callerVars,
                 out_len, output_base, decoded>>

(***************************************************************************)
(* A step that ran out of input.  It may have decoded output up to its     *)
(* checkpoint, which is written first.                                     *)
(***************************************************************************)
ShortOutputLeft ==
  /\ pc = "short"
  /\ written + Writable < decoded
  /\ WriteThenReturn("NeedsOutput")
  /\ UNCHANGED <<streamVars, stateVars, out_len, output_base, decoded>>

ShortNeedsInput ==
  /\ pc = "short"
  /\ written + Writable = decoded
  /\ offered = input
  /\ WriteThenReturn("NeedsInput")
  /\ UNCHANGED <<streamVars, stateVars, out_len, output_base, decoded>>

ShortTakePiece ==
  /\ pc = "short"
  /\ written + Writable = decoded
  /\ offered < input
  /\ written' = written + Writable
  /\ wrote' = wrote + Writable
  /\ LET piece == Smaller(input - offered, InputPiece) IN
     /\ held' = held + piece
     /\ offered' = offered + piece
  /\ taken' = IF taken = NotTaken THEN held ELSE taken
  /\ pc' = "top"
  /\ UNCHANGED <<streamVars, stateVars, callerVars, first, bit_pos, input,
                 room, out_len, output_base, decoded>>

(***************************************************************************)
(* How a step ends.                                                        *)
(***************************************************************************)
Continue == pc' = "top" /\ UNCHANGED <<callVars, callerVars, wrote>>

RunOut == pc' = "short" /\ UNCHANGED <<callVars, callerVars, wrote>>

\* Any other error: the output past `decoded` goes, the error stays.  d is
\* the decoded end, l the length of the output before.
Fail(d, l) ==
  /\ out_len' = Smaller(l, d)
  /\ state' = "Failed"
  /\ Continue

\* step returned true: write what the slice takes of the output up to d, and
\* return from checkpoint b.
StopForRoom(d, b) ==
  LET count == Smaller(d - written, room - wrote) IN
  /\ decoded' = d
  /\ written' = written + count
  /\ Return("NeedsOutput", wrote + count, b)

\* The output position the step stops at.
StopAt == decoded + (room - wrote)

(***************************************************************************)
(* State::StreamHeader                                                     *)
(***************************************************************************)
InState(s) == pc = "step" /\ state = s

ReadStreamHeader ==
  /\ InState("StreamHeader")
  /\ HasBits(Here.end)
  /\ Here.ok
  /\ window' = stream.window
  /\ bit_pos' = Here.end - 8 * first
  /\ state' = "MetaBlockHeader"
  /\ Continue
  /\ UNCHANGED <<streamVars, outputVars, first, held, remaining, block>>

RejectStreamHeader ==
  /\ InState("StreamHeader")
  /\ HasBits(Here.end)
  /\ ~Here.ok
  /\ Fail(decoded, out_len)
  /\ UNCHANGED <<streamVars, inputVars, output_base, written, decoded,
                 window, remaining, block>>

ShortStreamHeader ==
  /\ InState("StreamHeader")
  /\ ~HasBits(Here.end)
  /\ RunOut
  /\ UNCHANGED <<streamVars, inputVars, outputVars, stateVars>>

(***************************************************************************)
(* State::MetaBlockHeader.  Every attempt to read a header, also one that  *)
(* runs out of input, first drops history (compact_output).                *)
(***************************************************************************)
\* mutant: the window one byte short
Dropped_IntoWindow ==
  LET drop == Smaller(Monus(decoded, window - 1), written) IN
  IF drop < out_len - drop THEN 0 ELSE drop

\* mutant: drops only when the rest is the longer part
Dropped_WhenShort ==
  LET drop == Smaller(Monus(decoded, window), written) IN
  IF drop >= out_len - drop THEN 0 ELSE drop

Dropped ==
  LET drop == Smaller(Monus(decoded, window), written) IN
  IF drop < out_len - drop THEN 0 ELSE drop

Compact ==
  /\ output_base' = output_base + Dropped
  /\ written' = written - Dropped
  /\ decoded' = decoded - Dropped

\* The header at hand has kind k and the reader accepts it.
ReadHeader(k) ==
  /\ InState("MetaBlockHeader")
  /\ HasBits(Here.end)
  /\ Here.kind = k
  /\ Here.ok
  /\ Compact

PastLimit_InBuffer == out_len + Here.len > max_output_size \* mutant: forgets the dropped output

PastLimit == out_len + Here.len + output_base > max_output_size

ReadLastEmpty ==
  /\ ReadHeader("lastEmpty")
  /\ state' = "Done"
  /\ bit_pos' = Here.end - 8 * first
  /\ out_len' = out_len - Dropped
  /\ Continue
  /\ UNCHANGED <<streamVars, first, held, window, remaining, block>>

ReadMetadataHeader ==
  /\ ReadHeader("metadata")
  /\ state' = "Metadata"
  /\ remaining' = Here.len
  /\ block' = At
  /\ bit_pos' = Here.end - 8 * first
  /\ out_len' = out_len - Dropped
  /\ Continue
  /\ UNCHANGED <<streamVars, first, held, window>>

ReadUncompressedHeader ==
  /\ ReadHeader("uncompressed")
  /\ ~PastLimit
  /\ state' = "Uncompressed"
  /\ remaining' = Here.len
  /\ block' = At
  /\ bit_pos' = Here.end - 8 * first
  /\ out_len' = out_len - Dropped
  /\ Continue
  /\ UNCHANGED <<streamVars, first, held, window>>

ReadCompressedHeader ==
  /\ ReadHeader("compressed")
  /\ ~PastLimit
  /\ state' = "Compressed"
  /\ block' = At
  /\ bit_pos' = Here.end - 8 * first
  /\ out_len' = out_len - Dropped
  /\ Continue
  /\ UNCHANGED <<streamVars, first, held, window, remaining>>

\* A malformed header, or a meta-block past the output limit.
RejectHeader ==
  /\ InState("MetaBlockHeader")
  /\ HasBits(Here.end)
  /\ \/ ~Here.ok
     \/ Here.kind \in {"uncompressed", "compressed"} /\ PastLimit
  /\ Compact
  /\ Fail(decoded - Dropped, out_len - Dropped)
  /\ UNCHANGED <<streamVars, inputVars, window, remaining, block>>

ShortHeader ==
  /\ InState("MetaBlockHeader")
  /\ ~HasBits(Here.end)
  /\ Compact
  /\ out_len' = out_len - Dropped
  /\ RunOut
  /\ UNCHANGED <<streamVars, inputVars, stateVars>>

(***************************************************************************)
(* State::Uncompressed                                                     *)
(***************************************************************************)
\* Bytes of `encoded` from the checkpoint on.
Unread == held - bit_pos \div 8

StoredCount == Smaller(Smaller(Unread, remaining), StopAt - decoded)

CopyStored ==
  /\ InState("Uncompressed")
  /\ decoded # StopAt
  /\ StoredCount # 0
  /\ out_len' = out_len + StoredCount
  /\ bit_pos' = bit_pos + 8 * StoredCount
  /\ decoded' = decoded + StoredCount
  /\ remaining' = remaining - StoredCount
  /\ state' = IF remaining' = 0 THEN "MetaBlockHeader" ELSE state
  /\ Continue
  /\ UNCHANGED <<streamVars, first, held, output_base, written, window, block>>

StopStored ==
  /\ InState("Uncompressed")
  /\ decoded = StopAt
  /\ StopForRoom(decoded, bit_pos)
  /\ UNCHANGED <<streamVars, stateVars, out_len, output_base>>

ShortStored ==
  /\ InState("Uncompressed")
  /\ decoded # StopAt
  /\ StoredCount = 0
  /\ RunOut
  /\ UNCHANGED <<streamVars, inputVars, outputVars, stateVars>>

(***************************************************************************)
(* State::Metadata                                                         *)
(***************************************************************************)
SkipMetadata ==
  /\ InState("Metadata")
  /\ LET count == Smaller(Unread, remaining) IN
     /\ remaining # 0 => count # 0
     /\ bit_pos' = bit_pos + 8 * count
     /\ remaining' = remaining - count
  /\ state' = IF remaining' # 0 THEN state
              ELSE IF stream.elem[block].last THEN "Done"
              ELSE "MetaBlockHeader"
  /\ Continue
  /\ UNCHANGED <<streamVars, outputVars, first, held, window, block>>

ShortMetadata ==
  /\ InState("Metadata")
  /\ remaining # 0
  /\ Unread = 0
  /\ RunOut
  /\ UNCHANGED <<streamVars, inputVars, outputVars, stateVars>>

(***************************************************************************)
(* State::Compressed: the header and the prefix codes, one per step.       *)
(***************************************************************************)
ReadCode ==
  /\ InState("Compressed")
  /\ Here.kind = "code"
  /\ HasBits(Here.end)
  /\ Here.ok
  /\ bit_pos' = Here.end - 8 * first
  /\ Continue
  /\ UNCHANGED <<streamVars, outputVars, stateVars, first, held>>

RejectCode ==
  /\ InState("Compressed")
  /\ Here.kind = "code"
  /\ HasBits(Here.end)
  /\ ~Here.ok
  /\ Fail(decoded, out_len)
  /\ UNCHANGED <<streamVars, inputVars, output_base, written, decoded,
                 window, remaining, block>>

ShortCode ==
  /\ InState("Compressed")
  /\ Here.kind = "code"
  /\ ~HasBits(Here.end)
  /\ RunOut
  /\ UNCHANGED <<streamVars, inputVars, outputVars, stateVars>>

(***************************************************************************)
(* State::Compressed: the command loop, from a checkpoint to where it      *)
(* ends, stops for room, runs out of input or fails.                       *)
(***************************************************************************)
Header == stream.elem[block]

\* Position in `output` of stream output position g.
InOutput(g) == g - output_base

\* copy_from_distance: a copy reads `output` when the distance lies in it
\* and in the window, and fails when it lies in the window only.
CopyFails(e) ==
  LET pos == InOutput(e.from) IN
  /\ e.dist > Smaller(pos, window)
  /\ e.dist <= Smaller(window, output_base + pos)

BodyStops(p) ==
  /\ stream.elem[p].kind = "command"
  /\ InOutput(stream.elem[p].from) >= StopAt
BodyShort(p) == ~BodyStops(p) /\ ~HasBits(stream.elem[p].end)
BodyRejects(p) ==
  /\ ~BodyStops(p)
  /\ HasBits(stream.elem[p].end)
  /\ ~stream.elem[p].ok \/ CopyFails(stream.elem[p])

Checkpoint_Unmoved(p) == bit_pos \* mutant: keeps the previous bit position

\* Bit position in `encoded` of a checkpoint at p.
Checkpoint(p) == p - 8 * first

\* The loop reaches p: the next element is in its body, and nothing halts
\* it from here up to p.
BodyReaches(p) ==
  /\ InState("Compressed")
  /\ Here.kind \in BodyKinds
  /\ At <= p
  /\ p < Header.stop
  /\ \A q \in Starts(stream) :
       At <= q /\ q < p => ~(BodyStops(q) \/ BodyShort(q) \/ BodyRejects(q))

\* Lengths grow_room may leave `output` with, on the way to p: room for the
\* command p lies in, zeroed up to ZERO_AHEAD further, never past the
\* meta-block and its slack.
Grown(p) ==
  LET space == InOutput(Header.from) + Header.len + Slack
      reach == InOutput(stream.elem[p].reach) + Slack
  IN  Larger(out_len, Smaller(reach, space))
        .. Larger(out_len, Smaller(reach + ZeroAhead, space))

BodyStop(p) ==
  /\ BodyReaches(p)
  /\ BodyStops(p)
  /\ out_len' \in Grown(p)
  /\ StopForRoom(InOutput(stream.elem[p].from), Checkpoint(p))
  /\ UNCHANGED <<streamVars, stateVars, output_base>>

BodyRunOut(p) ==
  /\ BodyReaches(p)
  /\ BodyShort(p)
  /\ out_len' \in Grown(p)
  /\ decoded' = InOutput(stream.elem[p].from)
  /\ bit_pos' = Checkpoint(p)
  /\ RunOut
  /\ UNCHANGED <<streamVars, stateVars, first, held, output_base, written>>

\* The decoded end is where the loop failed; the checkpoint stays at the last
\* one taken, which depends on how much input was left (STEP_BITS).
BodyReject(p) ==
  /\ BodyReaches(p)
  /\ BodyRejects(p)
  /\ LET d == InOutput(stream.elem[p].from) IN
     /\ decoded' = d
     /\ \E l \in Grown(p) : Fail(d, l)
  /\ \E c \in Starts(stream) : At <= c /\ c <= p /\ bit_pos' = Checkpoint(c)
  /\ UNCHANGED <<streamVars, first, held, output_base, written, window,
                 remaining, block>>

\* The meta-block ends after element p: truncate to it and go on, or check
\* the padding after the last one.
BodyDone(p) ==
  /\ BodyReaches(p)
  /\ ~(BodyStops(p) \/ BodyShort(p) \/ BodyRejects(p))
  /\ stream.elem[p].end = Header.stop
  /\ LET needed == InOutput(Header.from) + Header.len IN
     /\ decoded' = needed
     /\ out_len' = needed
  /\ bit_pos' = Checkpoint(Header.stop)
  /\ state' = IF ~Header.last THEN "MetaBlockHeader"
              ELSE IF stream.elem[Header.stop].ok THEN "Done"
              ELSE "Failed"
  /\ Continue
  /\ UNCHANGED <<streamVars, first, held, output_base, written, window,
                 remaining, block>>

(***************************************************************************)
(* The specification.                                                      *)
(***************************************************************************)
Body(p) == BodyStop(p) \/ BodyRunOut(p) \/ BodyReject(p) \/ BodyDone(p)

Step ==
  \/ ReadStreamHeader \/ RejectStreamHeader \/ ShortStreamHeader
  \/ ReadLastEmpty \/ ReadMetadataHeader \/ ReadUncompressedHeader
  \/ ReadCompressedHeader \/ RejectHeader \/ ShortHeader
  \/ CopyStored \/ StopStored \/ ShortStored
  \/ SkipMetadata \/ ShortMetadata
  \/ ReadCode \/ RejectCode \/ ShortCode
  \/ \E p \in Starts(stream) : Body(p)

Loop ==
  \/ ReturnOutputLeft \/ ReturnFinished \/ ReturnError \/ ReturnBeforeError
  \/ BeginStep \/ Step
  \/ ShortOutputLeft \/ ShortNeedsInput \/ ShortTakePiece

Offers == 0 .. (stream.bytes - fed)
Rooms == 0 .. MaxRoom

Next ==
  \/ \E n \in Offers, r \in Rooms : Call(n, r)
  \/ Loop

Spec == Init /\ [][Next]_vars

(***************************************************************************)
(* The decoder runs a call to its end.  A caller that wants the output     *)
(* keeps calling with room, and with input while it has any.               *)
(***************************************************************************)
UsefulCall ==
  \E n \in Offers, r \in Rooms :
    /\ r > 0
    /\ n > 0 \/ fed = stream.bytes
    /\ Call(n, r)

Fairness == WF_vars(Loop) /\ SF_vars(UsefulCall)

FairSpec == Spec /\ Fairness

(***************************************************************************)
(* Properties.                                                             *)
(***************************************************************************)
\* The fields and locals hold values of their types.
TypeOK ==
  /\ stream \in Streams /\ max_output_size \in Limits
  /\ first \in Nat /\ held \in Nat /\ bit_pos \in Nat
  /\ window \in {0, stream.window}
  /\ out_len \in Nat /\ output_base \in Nat /\ written \in Nat /\ decoded \in Nat
  /\ state \in States
  /\ remaining \in Nat
  /\ block \in Nat
  /\ pc \in {"idle", "top", "step", "short"}
  /\ input \in Nat /\ room \in 0 .. MaxRoom
  /\ taken \in Nat \cup {NotTaken}
  /\ offered \in Nat /\ wrote \in Nat
  /\ fed \in Nat /\ delivered \in Nat
  /\ status \in Statuses

\* No slice index of the call is out of range, so it never panics: drain(..)
\* and pending_input index `encoded` by the checkpoint, write_output indexes
\* `output` by `written` and `decoded` and the caller's slice by `wrote`, and
\* compaction leaves both in the output that stays.
SlicesInRange ==
  /\ bit_pos <= 8 * held
  /\ written <= decoded
  /\ decoded <= out_len
  /\ wrote <= room
  /\ offered <= input

\* Every input byte goes in once: what the decoder holds is exactly what
\* lies between its first byte and what it has told the caller it consumed,
\* plus what this call took.  The call that returns an error reports nothing
\* of what it took.
InputConserved == status # "Error" => first + held = fed + offered

\* What a call took beyond what the running step needs is handed back: an
\* idle decoder holds either nothing past its checkpoint's byte or less than
\* the element it is at.
HoldsOnlyTheStep ==
  (pc = "idle" /\ state \notin {"Failed", "Done"}) =>
    \/ held = BytesOf(bit_pos)
    \/ At \in Starts(stream) /\ ~HasBits(Here.end)

\* Steps resume at the bit where the element their state reads begins, and
\* at the output position it has in the stream.
ResumesInPlace ==
  /\ state = "StreamHeader" => At = 0
  /\ state = "MetaBlockHeader" => HeaderAt(stream, At, output_base + decoded)
  /\ state \in {"Uncompressed", "Metadata"} =>
       /\ At % 8 = 0
       /\ At + 8 * remaining = PayloadEnd(stream, block)
  /\ state = "Compressed" =>
       InBlock(stream, block, At, {"code"} \cup BodyKinds, output_base + decoded)

\* The history a copy may reach is still there: compaction never drops a
\* byte within the window, so no legal copy fails as "invalid Brotli
\* backward distance" (copy_from_far).
HistoryCoversWindow ==
  state \in {"MetaBlockHeader", "Uncompressed", "Metadata", "Compressed"} =>
    output_base = 0 \/ decoded >= window

\* "It keeps the decoded history that later copies may reach, plus output not
\* yet written": before a meta-block less than twice the window, then the
\* meta-block at hand and its slack.
HistoryBounded ==
  out_len < 2 * stream.window + stream.elem[block].len + Slack

\* A call that asks for output room used what it had: the caller's loop of
\* calls with room never spins on NeedsOutput.
NeedsOutputUsedRoom ==
  (pc = "idle" /\ status = "NeedsOutput") => wrote > 0 \/ room = 0

\* "The decoder then returns the same error again": once a call returned the
\* error every later call does, and writes nothing.
ErrorIsFinal ==
  [][status = "Error" => status' = "Error" /\ delivered' = delivered]_vars

Result ==
  CASE status = "Finished" -> "finished"
    [] status = "Error" -> "error"
    [] OTHER -> "running"

\* The one-shot decode of each stream by itself, and of all its input.
StreamDecode == [s \in Streams |-> [l \in Limits |-> Decoded(s, l)]]
InputDecode == [s \in Streams |-> [l \in Limits |-> OneShot(s, l)]]

Goal == StreamDecode[stream][max_output_size]

Contract == INSTANCE DecodeContract
  WITH Goals <- {StreamDecode[s][l] : s \in Streams, l \in Limits},
       goal <- Goal,
       result <- Result

\* What a verdict says of the one-shot decode of all the input: it fails when
\* this does, and also when this finished before all input was consumed:
\* `decompress` rejects the bytes that follow a stream (stored.rs:352), the
\* push decoder leaves them to its caller.
AgreesWithOneShot(result, output) ==
  LET whole == InputDecode[stream][max_output_size] IN
  /\ result = "finished" =>
       whole = [verdict |-> IF fed < stream.bytes THEN "error" ELSE "finished",
                output |-> output]
  /\ result = "error" => whole = [verdict |-> "error", output |-> output]

VerdictAgrees == pc = "idle" => AgreesWithOneShot(Result, delivered)

\* Decoding in pieces delivers what decoding the stream in one go does, and
\* ends as it does; input that ends early is no verdict, the caller may have
\* more.  Bytes after the stream are the one difference: one-shot decoding
\* fails for them, and then the push decoder has not consumed them.
OneShotDecode ==
  /\ Contract!Spec
  /\ [][VerdictAgrees']_(Contract!contractVars)

\* A caller that keeps calling gets all of it, and the verdict.
Settles ==
  <>(/\ delivered = Goal.output
     /\ Goal.verdict # "starved" => Result = Goal.verdict)
=============================================================================
