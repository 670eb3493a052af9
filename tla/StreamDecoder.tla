--------------------------- MODULE StreamDecoder ---------------------------
(***************************************************************************)
(* burli_decode::StreamDecoder (crates/decode/src/streaming.rs): the       *)
(* std::io::Read adapter.  It owns a PushDecoder, fills a chunk from the   *)
(* wrapped reader when the decoder has taken all of the last one, and can  *)
(* be unwrapped again.                                                     *)
(*                                                                         *)
(* A `read` call is Read, then turns of its loop: rpc = "call" while       *)
(* `decompress` runs (PushDecoder's own steps), "returned" once it has     *)
(* returned.  The wrapped reader may fail, and may have nothing to give    *)
(* for a while: both are reported, and the caller may read again.          *)
(***************************************************************************)
EXTENDS PushDecoder

CONSTANT ChunkSize      (* READ_CHUNK_SIZE *)

ASSUME StreamDecoderAssumption == ChunkSize \in Nat \ {0}

VARIABLES
  rpc,          (* where the running `read` call is                        *)
  buf,          (* buf.len() of the call                                   *)
  input_end,    (* stream position of the end of StreamDecoder::input      *)
  input_len,    (* StreamDecoder::input.len()                              *)
  input_pos,
  got,          (* output the caller got from `read`                       *)
  outcome,      (* what the last `read` returned                           *)
  buffered      (* bytes into_inner gave back with the reader              *)

readerVars == <<input_end, input_len, input_pos>>
readVars == <<rpc, buf, readerVars, got, outcome, buffered>>
allVars == <<vars, readVars>>

Outcomes == {"none", "bytes", "eof", "invalid", "truncated", "ioError"}

StreamInit ==
  /\ Init
  /\ rpc = "idle" /\ buf = 0
  /\ input_end = 0 /\ input_len = 0 /\ input_pos = 0
  /\ got = 0 /\ outcome = "none"
  /\ buffered = 0

(***************************************************************************)
(* The decoder within the loop.                                            *)
(***************************************************************************)
\* A `read` with room; one without returns 0 and does nothing.
Read(b) ==
  /\ rpc = "idle"
  /\ Call(input_len - input_pos, b)
  /\ rpc' = "call"
  /\ buf' = b
  /\ UNCHANGED <<readerVars, got, outcome, buffered>>

\* mutant: the chunk position does not move
Decompress_Again ==
  /\ rpc = "call"
  /\ Loop
  /\ rpc' = IF pc' = "idle" THEN "returned" ELSE "call"
  /\ UNCHANGED <<readerVars, buf, got, outcome, buffered>>

\* One turn inside `decompress`; its return advances input_pos by what it
\* consumed, which an error has no say in.
Decompress ==
  /\ rpc = "call"
  /\ Loop
  /\ rpc' = IF pc' = "idle" THEN "returned" ELSE "call"
  /\ input_pos' = input_pos + (fed' - fed)
  /\ UNCHANGED <<input_end, input_len, buf, got, outcome, buffered>>

\* The read returns o, with n bytes.
ReadReturns(o, n) ==
  /\ rpc' = "idle"
  /\ outcome' = o
  /\ got' = got + n
  /\ UNCHANGED <<vars, buf, buffered>>

ReadInvalid ==
  /\ rpc = "returned"
  /\ status = "Error"
  /\ ReadReturns("invalid", 0)
  /\ UNCHANGED readerVars

ReadBytes ==
  /\ rpc = "returned"
  /\ status # "Error"
  /\ wrote # 0
  /\ ReadReturns("bytes", wrote)
  /\ UNCHANGED readerVars

ReadEof ==
  /\ rpc = "returned"
  /\ wrote = 0
  /\ status = "Finished"
  /\ ReadReturns("eof", 0)
  /\ UNCHANGED readerVars

(***************************************************************************)
(* Without output the loop goes around: with the chunk as it is, or once   *)
(* read_more_input has replaced it by k bytes of the wrapped reader.       *)
(***************************************************************************)
NeedsMore == rpc = "returned" /\ wrote = 0 /\ status = "NeedsInput"

Chunks ==
  IF NeedsMore THEN 1 .. Smaller(ChunkSize, stream.bytes - input_end) ELSE {0}

GoAround(k) ==
  /\ rpc = "returned"
  /\ wrote = 0
  /\ status \in {"NeedsOutput", "NeedsInput"}
  /\ input_len' = IF NeedsMore THEN k ELSE input_len
  /\ input_pos' = IF NeedsMore THEN 0 ELSE input_pos
  /\ input_end' = input_end + k
  /\ Call(input_len' - input_pos', buf)
  /\ rpc' = "call"
  /\ UNCHANGED <<buf, got, outcome, buffered>>

\* mutant: a stream that is cut short ends the output
ReadNoMore_Eof ==
  /\ NeedsMore
  /\ input_len' = 0 /\ input_pos' = 0
  /\ ReadReturns("eof", 0)
  /\ UNCHANGED input_end

\* It has none: "unexpected end of Brotli input".
ReadNoMore ==
  /\ NeedsMore
  /\ input_len' = 0 /\ input_pos' = 0
  /\ ReadReturns("truncated", 0)
  /\ UNCHANGED input_end

\* It fails.
ReadFails ==
  /\ NeedsMore
  /\ input_len' = 0 /\ input_pos' = 0
  /\ ReadReturns("ioError", 0)
  /\ UNCHANGED input_end

(***************************************************************************)
(* into_inner: what comes with the reader is the unread chunk, and before  *)
(* it what the decoder has taken past its checkpoint, unless the stream is *)
(* finished.                                                               *)
(***************************************************************************)
Finished == state = "Done" /\ written = decoded

PendingInput == held - bit_pos \div 8

Buffered_ChunkOnly == input_len - input_pos \* mutant: forgets the decoder's

Buffered_Pending == PendingInput + (input_len - input_pos) \* mutant: also of a finished stream

Buffered == IF Finished THEN input_len - input_pos
            ELSE PendingInput + (input_len - input_pos)

IntoInner ==
  /\ rpc = "idle"
  /\ buffered' = Buffered
  /\ rpc' = "unwrapped"
  /\ UNCHANGED <<vars, buf, readerVars, got, outcome>>

(***************************************************************************)
(* The specification.                                                      *)
(***************************************************************************)
ReadLoop ==
  \/ Decompress
  \/ ReadInvalid \/ ReadBytes \/ ReadEof

StreamNext ==
  \/ \E b \in Rooms \ {0} : Read(b)
  \/ ReadLoop
  \/ \E k \in Chunks : GoAround(k)
  \/ ReadNoMore
  \/ ReadFails
  \/ IntoInner

StreamSpec == StreamInit /\ [][StreamNext]_allVars

\* The loop runs on; the wrapped reader answers, and not always with an
\* error or with nothing while it has bytes; the caller reads on.
StreamFairness ==
  /\ WF_allVars(ReadLoop)
  /\ WF_allVars(ReadNoMore)
  /\ SF_allVars(\E k \in Chunks : GoAround(k))
  /\ WF_allVars(\E b \in Rooms \ {0} : Read(b))

FairStreamSpec == StreamSpec /\ StreamFairness

(***************************************************************************)
(* Properties.                                                             *)
(***************************************************************************)
\* The adapter's own fields hold values of their types.
StreamTypeOK ==
  /\ rpc \in {"idle", "call", "returned", "unwrapped"}
  /\ buf \in Rooms
  /\ input_end \in 0 .. stream.bytes
  /\ input_len \in Nat /\ input_pos \in 0 .. input_len
  /\ got \in Nat
  /\ outcome \in Outcomes
  /\ buffered \in Nat

\* The decoder is offered the bytes that follow what it consumed: nothing of
\* the wrapped reader is dropped, skipped or offered twice, whatever reads
\* fail in between.
ChunkFollows == fed + (input_len - input_pos) = input_end

\* Where the caller's reconstruction of the unread input begins: what
\* into_inner returned comes before the wrapped reader's next byte.
UnreadFrom == input_end - buffered

\* "This prevents trailing input from disappearing": of a finished stream
\* the caller gets back all that follows it and nothing of it.
TrailingInputSurvives ==
  (rpc = "unwrapped" /\ Finished) =>
    UnreadFrom = StreamBytes(stream, max_output_size)

\* Unwrapped before it finished, the decoder gives back the input from the
\* byte its checkpoint is in, once.
FromCheckpoint == UnreadFrom = first + bit_pos \div 8

UnwrapLosesNothing ==
  (rpc = "unwrapped" /\ ~Finished /\ status # "Error") => FromCheckpoint

\* The same after an error: "The buffered bytes precede the wrapped reader's
\* future bytes.  Consume them first when reconstructing the unread input".
BufferedPrecedesReader ==
  (rpc = "unwrapped" /\ ~Finished) => FromCheckpoint

\* A `read` never goes around its loop without output or input: it would
\* spin, with the caller's room unused.
NeverSpins == (rpc = "returned" /\ status = "NeedsOutput") => wrote # 0

ReadResult ==
  CASE outcome = "eof" -> "finished"
    [] outcome = "invalid" -> "error"
    [] OTHER -> "running"

ReadContract == INSTANCE DecodeContract
  WITH Goals <- {StreamDecode[s][l] : s \in Streams, l \in Limits},
       goal <- Goal,
       delivered <- got,
       result <- ReadResult

ReadVerdictAgrees == pc = "idle" => AgreesWithOneShot(ReadResult, got)

\* Reads deliver what decoding the stream in one go does, and end of file or
\* an error only after it.  Where bytes follow the stream reads end in end of
\* file and one-shot decoding of all the input fails ("final blocks preserve
\* following data", streaming.rs:210): the decoder has not consumed them.
OneShotRead ==
  /\ ReadContract!Spec
  /\ [][ReadVerdictAgrees']_(ReadContract!contractVars)

\* A caller that reads on gets all of it, and the verdict, unless it
\* unwraps the reader.
ReadSettles ==
  <>(\/ rpc = "unwrapped"
     \/ /\ got = Goal.output
        /\ Goal.verdict # "starved" => ReadResult = Goal.verdict)
=============================================================================
