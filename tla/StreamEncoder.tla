--------------------------- MODULE StreamEncoder ---------------------------
(***************************************************************************)
(* burli_encode::StreamEncoder (crates/encode/src/streaming.rs): the       *)
(* std::io::Write adapter.  It buffers up to a block of input, encodes it  *)
(* as one chunk into a BitWriter, and moves the writer's full bytes to the *)
(* sink through pending_output, which survives a sink that fails.          *)
(*                                                                         *)
(* A call is Write, Flush or Finish, then its stages.  While io is "held"  *)
(* the running write_full_bytes (or write_final_bytes) drains what earlier *)
(* calls left in pending_output, while it is "new" what it took from the   *)
(* writer since.                                                           *)
(*                                                                         *)
(* Bits and bytes are counted.  The encoding of a chunk takes any of       *)
(* ChunkBits bits, more than a byte; encoding does not fail for options    *)
(* the constructor accepts.  A sink that reports Interrupted is asked      *)
(* again, which changes nothing.                                           *)
(***************************************************************************)
EXTENDS Integers, FiniteSets

CONSTANTS
  BlockSize,    (* block_size                                              *)
  HeaderBits,   (* lengths write_window_bits has                           *)
  ChunkBits,    (* encoded lengths of a chunk                              *)
  MaxInput      (* bound: input of a behaviour                             *)

ASSUME StreamEncoderAssumption ==
  /\ BlockSize \in Nat \ {0}
  /\ HeaderBits \subseteq Nat
  /\ ChunkBits \subseteq Nat \ 0 .. 8
  /\ MaxInput \in Nat

VARIABLES
  \* StreamEncoder
  buffered,         (* buffered.len()                                      *)
  input_pos,
  bit_len,          (* writer.bit_len: its bytes and the bits after them   *)
  pending_len,      (* pending_output.len()                                *)
  pending_pos,
  \* the running call
  op,               (* "idle", the call, or how the encoder was consumed   *)
  offered,          (* length of the slice it was given                    *)
  stage,            (* what it did last besides draining                   *)
  io,
  \* the sink and the caller
  sink,             (* bytes the sink has taken                            *)
  accepted,         (* input that writes said they took                    *)
  reply,            (* what the last call returned                         *)
  \* history
  total,            (* bits encoded so far                                 *)
  ends              (* where each chunk's encoding and input end           *)

encoderVars == <<buffered, input_pos, bit_len, pending_len, pending_pos>>
callVars == <<op, offered, stage, io>>
callerVars == <<accepted, reply>>
historyVars == <<total, ends>>
vars == <<encoderVars, callVars, sink, callerVars, historyVars>>

Smaller(a, b) == IF a <= b THEN a ELSE b
BytesOf(bits) == (bits + 7) \div 8
AlignUp(bits) == 8 * BytesOf(bits)

Calls == {"write", "flush", "finish"}

\* finish(self) and into_inner(self) consume the encoder, whatever comes of it.
Consumed == {"finished", "lost", "unwrapped"}

Init ==
  /\ \E b \in HeaderBits : bit_len = b /\ total = b
  /\ buffered = 0 /\ input_pos = 0
  /\ pending_len = 0 /\ pending_pos = 0
  /\ op = "idle" /\ offered = 0 /\ stage = "none" /\ io = "none"
  /\ sink = 0
  /\ accepted = 0 /\ reply = "none"
  /\ ends = {}

(***************************************************************************)
(* The calls begin.                                                        *)
(***************************************************************************)
Begin(call, n, first) ==
  /\ op = "idle"
  /\ op' = call
  /\ offered' = n
  /\ stage' = "start"
  /\ io' = first
  /\ UNCHANGED <<encoderVars, sink, callerVars, historyVars>>

\* A slice of n bytes; an empty one returns 0.
Write(n) == accepted + n <= MaxInput /\ Begin("write", n, "held")

Flush == Begin("flush", 0, "held")

Finish == Begin("finish", 0, "none")

IntoInner ==
  /\ op = "idle"
  /\ op' = "unwrapped"
  /\ UNCHANGED <<encoderVars, offered, stage, io, sink, callerVars, historyVars>>

Return(o, r) ==
  /\ op' = o
  /\ reply' = r
  /\ offered' = 0 /\ stage' = "none" /\ io' = "none"

(***************************************************************************)
(* write_pending_output, write_full_bytes and write_final_bytes.           *)
(***************************************************************************)
Draining == io # "none" /\ pending_pos < pending_len

SinkTakes(k) ==
  /\ Draining
  /\ k <= pending_len - pending_pos
  /\ pending_pos' = pending_pos + k
  /\ sink' = sink + k
  /\ UNCHANGED <<buffered, input_pos, bit_len, pending_len, callVars, callerVars,
                 historyVars>>

\* mutant: what the sink did not take is dropped with the error
SinkFails_Clears ==
  /\ Draining
  /\ pending_len' = 0 /\ pending_pos' = 0
  /\ Return(IF op = "finish" THEN "lost" ELSE "idle", "failed")
  /\ UNCHANGED <<buffered, input_pos, bit_len, sink, accepted, historyVars>>

\* An error, or a sink that takes nothing: the call returns it.
SinkFails ==
  /\ Draining
  /\ Return(IF op = "finish" THEN "lost" ELSE "idle", "failed")
  /\ UNCHANGED <<encoderVars, sink, accepted, historyVars>>

Drained(phase) == io = phase /\ pending_pos = pending_len

TakeFullBytes_NoBits == 0 \* mutant: forgets the bits of the last byte

\* Bits left in the writer by take_full_bytes.
TakeFullBytes == bit_len % 8

TakeFull ==
  /\ Drained("held")
  /\ stage # "end"
  /\ pending_len' = bit_len \div 8
  /\ pending_pos' = 0
  /\ bit_len' = TakeFullBytes
  /\ io' = "new"
  /\ UNCHANGED <<buffered, input_pos, op, offered, stage, sink, callerVars,
                 historyVars>>

\* into_bytes pads the last byte.
TakeFinal ==
  /\ Drained("held")
  /\ stage = "end"
  /\ pending_len' = BytesOf(bit_len)
  /\ pending_pos' = 0
  /\ bit_len' = 0
  /\ total' = total + (AlignUp(bit_len) - bit_len)
  /\ io' = "new"
  /\ UNCHANGED <<buffered, input_pos, op, offered, stage, sink, callerVars, ends>>

Sent ==
  /\ Drained("new")
  /\ pending_len' = 0 /\ pending_pos' = 0
  /\ io' = "none"
  /\ UNCHANGED <<buffered, input_pos, bit_len, op, offered, stage, sink,
                 callerVars, historyVars>>

(***************************************************************************)
(* What the calls do between.  Each puts bits into the writer and goes on  *)
(* to drain it, or returns.                                                *)
(***************************************************************************)
At(call, s) == op = call /\ stage = s /\ io = "none"

Put(bits, s) ==
  /\ bit_len' = bit_len + bits
  /\ total' = total + bits
  /\ stage' = s
  /\ io' = "held"
  /\ UNCHANGED <<pending_len, pending_pos, op, offered, sink, callerVars>>

\* write_buffered_chunk has something to do: for a write only a full block.
ChunkDue == buffered # 0 /\ (op = "write" => buffered = BlockSize)

\* mutant: the chunk stays buffered
WriteChunk_Again(b) ==
  /\ op \in Calls /\ At(op, "start")
  /\ ChunkDue
  /\ Put(b, "chunk")
  /\ input_pos' = input_pos + buffered
  /\ ends' = ends \cup {[bits |-> total + b, input |-> input_pos + buffered]}
  /\ UNCHANGED buffered

WriteChunk(b) ==
  /\ op \in Calls /\ At(op, "start")
  /\ ChunkDue
  /\ Put(b, "chunk")
  /\ buffered' = 0
  /\ input_pos' = input_pos + buffered
  /\ ends' = ends \cup {[bits |-> total + b, input |-> input_pos + buffered]}

ChunkDone(call) == At(call, "chunk") \/ (At(call, "start") /\ ~ChunkDue)

Accept ==
  /\ ChunkDone("write")
  /\ LET count == Smaller(offered, BlockSize - buffered) IN
     /\ buffered' = buffered + count
     /\ accepted' = accepted + count
  /\ Return("idle", "accepted")
  /\ UNCHANGED <<input_pos, bit_len, pending_len, pending_pos, sink, historyVars>>

\* Bits of write_empty_metadata_meta_block: six, then to the next byte.
MetadataBits == AlignUp(bit_len + 6) - bit_len

Align ==
  /\ ChunkDone("flush")
  /\ bit_len % 8 # 0
  /\ Put(MetadataBits, "aligned")
  /\ UNCHANGED <<buffered, input_pos, ends>>

\* mutant: does not wait for the alignment
FlushSink_Unaligned(r) ==
  /\ ChunkDone("flush") \/ At("flush", "aligned")
  /\ Return("idle", r)
  /\ UNCHANGED <<encoderVars, sink, accepted, historyVars>>

\* inner.flush(), and what it returns.
FlushSink(r) ==
  /\ \/ At("flush", "aligned")
     \/ ChunkDone("flush") /\ bit_len % 8 = 0
  /\ Return("idle", r)
  /\ UNCHANGED <<encoderVars, sink, accepted, historyVars>>

\* write_last_empty_meta_block.
End ==
  /\ ChunkDone("finish")
  /\ Put(2, "end")
  /\ UNCHANGED <<buffered, input_pos, ends>>

Finished ==
  /\ At("finish", "end")
  /\ Return("finished", "finished")
  /\ UNCHANGED <<encoderVars, sink, accepted, historyVars>>

(***************************************************************************)
(* The specification.                                                      *)
(***************************************************************************)
Unsent == 1 .. (pending_len - pending_pos)

\* The encoder's own steps.
Encode ==
  \/ TakeFull \/ TakeFinal \/ Sent
  \/ \E b \in ChunkBits : WriteChunk(b)
  \/ Accept \/ Align \/ End \/ Finished

Sink ==
  \/ \E k \in Unsent : SinkTakes(k)
  \/ SinkFails
  \/ FlushSink("flushed")
  \/ FlushSink("failed")

Next ==
  \/ \E n \in 1 .. MaxInput : Write(n)
  \/ Flush \/ Finish \/ IntoInner
  \/ Encode \/ Sink

Spec == Init /\ [][Next]_vars

(***************************************************************************)
(* The encoder's calls run on, a sink answers, and one that is asked again *)
(* and again takes bytes and flushes at some point; the caller that wants  *)
(* its input through flushes again.                                        *)
(***************************************************************************)
Fairness ==
  /\ WF_vars(Encode)
  /\ WF_vars(Sink)
  /\ SF_vars(\E k \in Unsent : SinkTakes(k))
  /\ SF_vars(FlushSink("flushed"))
  /\ SF_vars(Flush)

FairSpec == Spec /\ Fairness

(***************************************************************************)
(* Properties.                                                             *)
(***************************************************************************)
ChunkEnd == [bits : Nat, input : Nat]

\* The fields and locals hold values of their types.
TypeOK ==
  /\ buffered \in 0 .. BlockSize
  /\ input_pos \in Nat
  /\ bit_len \in Nat
  /\ pending_len \in Nat /\ pending_pos \in 0 .. pending_len
  /\ op \in {"idle"} \cup Calls \cup Consumed
  /\ offered \in Nat
  /\ stage \in {"none", "start", "chunk", "aligned", "end"}
  /\ io \in {"none", "held", "new"}
  /\ sink \in Nat /\ accepted \in Nat
  /\ reply \in {"none", "accepted", "flushed", "finished", "failed"}
  /\ total \in Nat
  /\ ends \in SUBSET ChunkEnd

\* Every byte of the stream is in one place: the sink, pending output or the
\* writer, in this order.  None is lost or sent twice, wherever the sink
\* stopped and whichever call goes on.
StreamConserved ==
  8 * (sink + pending_len - pending_pos) + bit_len = total

\* Input a write said it took is encoded or buffered, once.
InputConserved == input_pos + buffered = accepted

\* "A metadata block aligns the stream": at most one after a chunk, however
\* often flush is called or retried, so that flushing again adds nothing.
LastEnd ==
  CHOOSE b \in {e.bits : e \in ends} \cup {0} : \A e \in ends : e.bits <= b

OneAlignment ==
  (ends # {} /\ op \in {"idle", "write", "flush"}) => total <= LastEnd + 6 + 7

\* What a decoder gets out of the sink: the input of the chunks whose encoding
\* it has to the last bit.
DecodableFrom(chunks, bytes) ==
  CHOOSE i \in {e.input : e \in chunks} \cup {0} :
    /\ i = 0 \/ \E e \in chunks : e.input = i /\ e.bits <= 8 * bytes
    /\ \A e \in chunks : e.bits <= 8 * bytes => e.input <= i

Decodable == DecodableFrom(ends, sink)

\* "Call flush to make pending input decodable", "an error always leaves the
\* caller's current slice unconsumed", and a finished stream holds it all.
Contract == INSTANCE EncodeContract WITH decodable <- Decodable

DecodableOnFlush == Contract!Spec

\* A caller that flushes until the sink lets it gets all of its input through.
Delivers == []<>(op \in Consumed \/ Decodable = accepted)
=============================================================================
