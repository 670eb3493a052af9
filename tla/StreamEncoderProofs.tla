------------------------ MODULE StreamEncoderProofs ------------------------
(***************************************************************************)
(* TLAPS proofs about StreamEncoder, for every block size, header and      *)
(* chunk length and every way the sink takes or refuses bytes.             *)
(*                                                                         *)
(* That a flush makes the input decodable needs more than the ledgers of   *)
(* bytes and input: EInv adds what the running call has already done (its  *)
(* chunk encoded, pending output drained, less than a byte in the writer)  *)
(* and where the chunks' encodings end.                                    *)
(***************************************************************************)
EXTENDS StreamEncoder, TLAPS, FiniteSetTheorems, WellFoundedInduction

(***************************************************************************)
(* The inductive invariant.                                                *)
(***************************************************************************)
\* Each call goes through its own stages, and has no chunk left after one.
CallInv ==
  /\ op \notin Calls => stage = "none" /\ io = "none"
  /\ op = "write" => stage \in {"start", "chunk"} /\ offered > 0
  /\ op = "flush" => stage \in {"start", "chunk", "aligned"}
  /\ op = "finish" => stage \in {"start", "chunk", "end"}
  /\ stage \in {"chunk", "aligned", "end"} => buffered = 0
  /\ reply = "finished" => op = "finished"

\* What a call has drained: only a finish that has just begun may find output
\* of an earlier call.
DrainInv ==
  /\ io = "new" => bit_len < 8
  /\ (op \in Calls /\ io = "none" /\ (op = "finish" => stage # "start")) =>
       pending_len = 0 /\ bit_len < 8
  /\ stage = "aligned" => bit_len % 8 = 0
  /\ (stage = "end" /\ io # "held") => bit_len = 0

\* The chunks cover the encoded input and lie within the stream.
EndsInv ==
  /\ \A e \in ends : e.bits <= total /\ e.input <= input_pos
  /\ input_pos = 0 \/ \E e \in ends : e.input = input_pos

\* The stream ends with its last chunk, or with one alignment after it.
TailInv ==
  (ends # {} /\ op \in {"idle", "write", "flush"}) =>
    \E last \in ends :
      /\ \A e \in ends : e.bits <= last.bits
      /\ \/ total = last.bits
         \/ bit_len % 8 = 0 /\ total <= last.bits + 13

EInv ==
  /\ TypeOK
  /\ StreamConserved
  /\ InputConserved
  /\ CallInv
  /\ DrainInv
  /\ EndsInv
  /\ TailInv

(***************************************************************************)
(* Arithmetic and sets.                                                    *)
(***************************************************************************)
\* Whole bytes, the bits after them, and the next byte boundary.
LEMMA BytesFacts ==
  ASSUME NEW b \in Nat
  PROVE  /\ b \div 8 \in Nat /\ b % 8 \in 0 .. 7
         /\ b = 8 * (b \div 8) + (b % 8)
         /\ BytesOf(b) \in Nat
         /\ AlignUp(b) \in Nat /\ AlignUp(b) = 8 * BytesOf(b)
         /\ b <= AlignUp(b) /\ AlignUp(b) <= b + 7
         /\ AlignUp(b) % 8 = 0
         /\ (b % 8) % 8 = b % 8
  BY SMT DEF BytesOf, AlignUp

\* A metadata block takes six to thirteen bits and ends at a byte boundary.
LEMMA MetadataFacts ==
  ASSUME bit_len \in Nat
  PROVE  /\ MetadataBits \in 6 .. 13
         /\ (bit_len + MetadataBits) % 8 = 0
  <1>1. /\ AlignUp(bit_len + 6) \in Nat
        /\ bit_len + 6 <= AlignUp(bit_len + 6)
        /\ AlignUp(bit_len + 6) <= bit_len + 13
        /\ AlignUp(bit_len + 6) % 8 = 0
    BY BytesFacts
  <1> QED
    BY <1>1 DEF MetadataBits

\* A bounded set of naturals has a largest member.
LEMMA BoundedSetHasLargest ==
  ASSUME NEW S \in SUBSET Nat, S # {}, NEW n \in Nat, \A x \in S : x <= n
  PROVE  \E x \in S : \A y \in S : y <= x
  <1> DEFINE Above(x) == {y \in S : y > x}
             Aboves == {Above(x) : x \in S}
  <1>1. Aboves \subseteq FiniteSubsetsOf(S)
    <2>1. \A x \in S : IsFiniteSet(Above(x))
      <3>1. IsFiniteSet(S)
        BY FS_BoundedSetOfNaturals
      <3> QED
        BY <3>1, FS_Subset
    <2> QED
      BY <2>1 DEF FiniteSubsetsOf
  <1>2. \E A \in Aboves :
          \A B \in Aboves : ~ (<<B, A>> \in StrictSubsetOrdering(S))
    <2>1. Aboves # {}
      OBVIOUS
    <2> HIDE DEF Aboves
    <2> QED
      BY <1>1, <2>1, FS_StrictSubsetOrderingWellFounded, WFMin
  <1>3. PICK x \in S :
          \A y \in S : ~ (<<Above(y), Above(x)>> \in StrictSubsetOrdering(S))
    BY <1>2
  <1>4. ASSUME NEW y \in S, ~ (y <= x)
        PROVE  FALSE
    <2>a. S \subseteq Nat /\ y \in Nat /\ x \in Nat /\ x < y
      BY <1>4
    <2>1. Above(y) \subseteq Above(x) /\ y \in Above(x) /\ y \notin Above(y)
      <3>1. y \in Above(x) /\ y \notin Above(y)
        BY <1>4, <2>a
      <3>2. \A z \in Above(y) : z \in Above(x)
        BY <2>a
      <3> QED
        BY <3>1, <3>2
    <2>2. <<Above(y), Above(x)>> \in StrictSubsetOrdering(S)
      BY <2>1 DEF StrictSubsetOrdering
    <2> QED
      BY <1>3, <2>2
  <1> QED
    BY <1>4

(***************************************************************************)
(* Every step keeps the invariant.                                         *)
(***************************************************************************)
THEOREM Initially == Init => EInv
  <1> SUFFICES ASSUME Init PROVE EInv
    OBVIOUS
  <1>1. bit_len \in Nat /\ total = bit_len
    BY StreamEncoderAssumption DEF Init
  <1> QED
    BY <1>1, StreamEncoderAssumption
    DEF Init, EInv, TypeOK, StreamConserved, InputConserved, CallInv, DrainInv,
        EndsInv, TailInv, Calls, Consumed, ChunkEnd

THEOREM Inductive == EInv /\ [Next]_vars => EInv'
  <1> SUFFICES ASSUME EInv, [Next]_vars PROVE EInv'
    OBVIOUS
  <1> USE DEF EInv, encoderVars, callVars, callerVars, historyVars, vars
  <1>1. ASSUME NEW n \in 1 .. MaxInput, Write(n)
        PROVE  EInv'
    <2>1. TypeOK'
      BY <1>1, StreamEncoderAssumption
      DEF Write, Begin, TypeOK, CallInv, Calls, Consumed, ChunkEnd
    <2>2. StreamConserved' /\ InputConserved'
      BY <1>1, StreamEncoderAssumption
      DEF Write, Begin, TypeOK, StreamConserved, InputConserved
    <2>3. CallInv' /\ DrainInv'
      BY <1>1
      DEF Write, Begin, TypeOK, CallInv, DrainInv, Calls
    <2>4. EndsInv' /\ TailInv'
      BY <1>1
      DEF Write, Begin, TypeOK, EndsInv, TailInv, CallInv, Calls, ChunkEnd
    <2> QED
      BY <2>1, <2>2, <2>3, <2>4
  <1>2. ASSUME Flush
        PROVE  EInv'
    <2>1. TypeOK'
      BY <1>2, StreamEncoderAssumption
      DEF Flush, Begin, TypeOK, CallInv, Calls, Consumed, ChunkEnd
    <2>2. StreamConserved' /\ InputConserved'
      BY <1>2, StreamEncoderAssumption
      DEF Flush, Begin, TypeOK, StreamConserved, InputConserved
    <2>3. CallInv' /\ DrainInv'
      BY <1>2
      DEF Flush, Begin, TypeOK, CallInv, DrainInv, Calls
    <2>4. EndsInv' /\ TailInv'
      BY <1>2
      DEF Flush, Begin, TypeOK, EndsInv, TailInv, CallInv, Calls, ChunkEnd
    <2> QED
      BY <2>1, <2>2, <2>3, <2>4
  <1>3. ASSUME Finish
        PROVE  EInv'
    <2>1. TypeOK'
      BY <1>3, StreamEncoderAssumption
      DEF Finish, Begin, TypeOK, CallInv, Calls, Consumed, ChunkEnd
    <2>2. StreamConserved' /\ InputConserved'
      BY <1>3, StreamEncoderAssumption
      DEF Finish, Begin, TypeOK, StreamConserved, InputConserved
    <2>3. CallInv' /\ DrainInv'
      BY <1>3
      DEF Finish, Begin, TypeOK, CallInv, DrainInv, Calls
    <2>4. EndsInv' /\ TailInv'
      BY <1>3
      DEF Finish, Begin, TypeOK, EndsInv, TailInv, CallInv, Calls, ChunkEnd
    <2> QED
      BY <2>1, <2>2, <2>3, <2>4
  <1>4. ASSUME IntoInner
        PROVE  EInv'
    <2>1. TypeOK'
      BY <1>4, StreamEncoderAssumption
      DEF IntoInner, TypeOK, CallInv, Calls, Consumed, ChunkEnd
    <2>2. StreamConserved' /\ InputConserved'
      BY <1>4, StreamEncoderAssumption
      DEF IntoInner, TypeOK, StreamConserved, InputConserved
    <2>3. CallInv' /\ DrainInv'
      BY <1>4
      DEF IntoInner, TypeOK, CallInv, DrainInv, Calls
    <2>4. EndsInv' /\ TailInv'
      BY <1>4
      DEF IntoInner, TypeOK, EndsInv, TailInv, CallInv, Calls, ChunkEnd
    <2> QED
      BY <2>1, <2>2, <2>3, <2>4
  <1>5. ASSUME NEW k \in Unsent, SinkTakes(k)
        PROVE  EInv'
    <2>1. TypeOK'
      BY <1>5, StreamEncoderAssumption
      DEF SinkTakes, Unsent, Draining, TypeOK, CallInv, Calls, Consumed,
          ChunkEnd
    <2>2. StreamConserved' /\ InputConserved'
      BY <1>5, StreamEncoderAssumption
      DEF SinkTakes, Unsent, Draining, TypeOK, StreamConserved, InputConserved
    <2>3. CallInv' /\ DrainInv'
      BY <1>5
      DEF SinkTakes, Unsent, Draining, TypeOK, CallInv, DrainInv, Calls
    <2>4. EndsInv' /\ TailInv'
      BY <1>5
      DEF SinkTakes, Unsent, Draining, TypeOK, EndsInv, TailInv, CallInv,
          Calls, ChunkEnd
    <2> QED
      BY <2>1, <2>2, <2>3, <2>4
  <1>6. ASSUME SinkFails
        PROVE  EInv'
    <2>1. TypeOK'
      BY <1>6, StreamEncoderAssumption
      DEF SinkFails, Return, Draining, TypeOK, CallInv, Calls, Consumed,
          ChunkEnd
    <2>2. StreamConserved' /\ InputConserved'
      BY <1>6, StreamEncoderAssumption
      DEF SinkFails, Return, Draining, TypeOK, StreamConserved, InputConserved
    <2>3. CallInv' /\ DrainInv'
      BY <1>6
      DEF SinkFails, Return, Draining, TypeOK, CallInv, DrainInv, Calls
    <2>4. EndsInv' /\ TailInv'
      BY <1>6
      DEF SinkFails, Return, Draining, TypeOK, EndsInv, TailInv, CallInv,
          Calls, ChunkEnd
    <2> QED
      BY <2>1, <2>2, <2>3, <2>4
  <1>7. ASSUME TakeFull
        PROVE  EInv'
    <2>a. /\ bit_len \div 8 \in Nat /\ bit_len % 8 \in 0 .. 7
          /\ bit_len = 8 * (bit_len \div 8) + (bit_len % 8)
          /\ (bit_len % 8) % 8 = bit_len % 8
      BY BytesFacts DEF EInv, TypeOK
    <2>1. TypeOK'
      BY <1>7, <2>a, StreamEncoderAssumption
      DEF TakeFull, TakeFullBytes, Drained, TypeOK, CallInv, Calls, Consumed,
          ChunkEnd
    <2>2. StreamConserved' /\ InputConserved'
      BY <1>7, <2>a, StreamEncoderAssumption
      DEF TakeFull, TakeFullBytes, Drained, TypeOK, StreamConserved,
          InputConserved
    <2>3. CallInv' /\ DrainInv'
      BY <1>7, <2>a
      DEF TakeFull, TakeFullBytes, Drained, TypeOK, CallInv, DrainInv, Calls
    <2>4. EndsInv' /\ TailInv'
      BY <1>7, <2>a
      DEF TakeFull, TakeFullBytes, Drained, TypeOK, EndsInv, TailInv, CallInv,
          Calls, ChunkEnd
    <2> QED
      BY <2>1, <2>2, <2>3, <2>4
  <1>8. ASSUME TakeFinal
        PROVE  EInv'
    <2>a. /\ BytesOf(bit_len) \in Nat
          /\ AlignUp(bit_len) = 8 * BytesOf(bit_len)
          /\ bit_len <= AlignUp(bit_len)
      BY BytesFacts DEF EInv, TypeOK
    <2>1. TypeOK'
      BY <1>8, <2>a, StreamEncoderAssumption
      DEF TakeFinal, Drained, TypeOK, CallInv, Calls, Consumed, ChunkEnd
    <2>2. StreamConserved' /\ InputConserved'
      BY <1>8, <2>a, StreamEncoderAssumption
      DEF TakeFinal, Drained, TypeOK, StreamConserved, InputConserved
    <2>3. CallInv' /\ DrainInv'
      BY <1>8, <2>a
      DEF TakeFinal, Drained, TypeOK, CallInv, DrainInv, Calls
    <2>4. EndsInv' /\ TailInv'
      BY <1>8, <2>a
      DEF TakeFinal, Drained, TypeOK, EndsInv, TailInv, CallInv, Calls,
          ChunkEnd
    <2> QED
      BY <2>1, <2>2, <2>3, <2>4
  <1>9. ASSUME Sent
        PROVE  EInv'
    <2>1. TypeOK'
      BY <1>9, StreamEncoderAssumption
      DEF Sent, Drained, TypeOK, CallInv, Calls, Consumed, ChunkEnd
    <2>2. StreamConserved' /\ InputConserved'
      BY <1>9, StreamEncoderAssumption
      DEF Sent, Drained, TypeOK, StreamConserved, InputConserved
    <2>3. CallInv' /\ DrainInv'
      BY <1>9
      DEF Sent, Drained, TypeOK, CallInv, DrainInv, Calls
    <2>4. EndsInv' /\ TailInv'
      BY <1>9
      DEF Sent, Drained, TypeOK, EndsInv, TailInv, CallInv, Calls, ChunkEnd
    <2> QED
      BY <2>1, <2>2, <2>3, <2>4
  <1>10. ASSUME NEW b \in ChunkBits, WriteChunk(b)
        PROVE  EInv'
    <2>a. b \in Nat /\ b > 8
      BY StreamEncoderAssumption
    <2>1. TypeOK'
      BY <1>10, <2>a, StreamEncoderAssumption
      DEF WriteChunk, Put, At, ChunkDue, TypeOK, CallInv, Calls, Consumed,
          ChunkEnd
    <2>2. StreamConserved' /\ InputConserved'
      BY <1>10, <2>a, StreamEncoderAssumption
      DEF WriteChunk, Put, At, ChunkDue, TypeOK, StreamConserved,
          InputConserved
    <2>3. CallInv' /\ DrainInv'
      BY <1>10, <2>a
      DEF WriteChunk, Put, At, ChunkDue, TypeOK, CallInv, DrainInv, Calls
    <2> DEFINE new == [bits |-> total + b, input |-> input_pos + buffered]
    <2>4. ends' = ends \cup {new} /\ total' = total + b
          /\ input_pos' = input_pos + buffered
      BY <1>10 DEF WriteChunk, Put
    <2>5. EndsInv'
      <3>1. \A e \in ends : e.bits <= total' /\ e.input <= input_pos'
        <4>1. total <= total' /\ input_pos <= input_pos'
          BY <2>a, <2>4 DEF TypeOK
        <4> QED
          BY <2>a, <2>4, <4>1 DEF TypeOK, EndsInv, ChunkEnd
      <3>2. new.bits = total' /\ new.input = input_pos' /\ new \in ends'
        BY <2>4
      <3>3. total' \in Nat /\ input_pos' \in Nat
        BY <2>1 DEF TypeOK
      <3>4. ends' = ends \cup {new}
        BY <2>4
      <3> HIDE DEF new
      <3> QED
        BY <3>1, <3>2, <3>3, <3>4 DEF EndsInv
    <2>6. TailInv'
      <3>1. \A e \in ends' : e.bits <= new.bits
        BY <2>a, <2>4 DEF TypeOK, EndsInv, ChunkEnd
      <3>2. new \in ends' /\ total' = new.bits
        BY <2>4
      <3> QED
        BY <3>1, <3>2 DEF TailInv
    <2> QED
      BY <2>1, <2>2, <2>3, <2>5, <2>6
  <1>11. ASSUME Accept
        PROVE  EInv'
    <2>1. TypeOK'
      BY <1>11, StreamEncoderAssumption
      DEF Accept, Return, Smaller, ChunkDone, At, ChunkDue, TypeOK, CallInv,
          Calls, Consumed, ChunkEnd
    <2>2. StreamConserved' /\ InputConserved'
      BY <1>11, StreamEncoderAssumption
      DEF Accept, Return, Smaller, ChunkDone, At, ChunkDue, TypeOK,
          StreamConserved, InputConserved
    <2>3. CallInv' /\ DrainInv'
      BY <1>11
      DEF Accept, Return, Smaller, ChunkDone, At, ChunkDue, TypeOK, CallInv,
          DrainInv, Calls
    <2>4. EndsInv' /\ TailInv'
      BY <1>11
      DEF Accept, Return, Smaller, ChunkDone, At, ChunkDue, TypeOK, EndsInv,
          TailInv, CallInv, Calls, ChunkEnd
    <2> QED
      BY <2>1, <2>2, <2>3, <2>4
  <1>12. ASSUME Align
        PROVE  EInv'
    <2>a. MetadataBits \in 6 .. 13 /\ (bit_len + MetadataBits) % 8 = 0
      BY MetadataFacts DEF EInv, TypeOK
    <2>1. TypeOK'
      BY <1>12, <2>a, StreamEncoderAssumption
      DEF Align, Put, ChunkDone, At, ChunkDue, TypeOK, CallInv, Calls,
          Consumed, ChunkEnd
    <2>2. StreamConserved' /\ InputConserved'
      BY <1>12, <2>a, StreamEncoderAssumption
      DEF Align, Put, ChunkDone, At, ChunkDue, TypeOK, StreamConserved,
          InputConserved
    <2>3. CallInv' /\ DrainInv'
      BY <1>12, <2>a
      DEF Align, Put, ChunkDone, At, ChunkDue, TypeOK, CallInv, DrainInv, Calls
    <2>4. EndsInv' /\ TailInv'
      BY <1>12, <2>a
      DEF Align, Put, ChunkDone, At, ChunkDue, TypeOK, EndsInv, TailInv,
          CallInv, Calls, ChunkEnd
    <2> QED
      BY <2>1, <2>2, <2>3, <2>4
  <1>13. ASSUME NEW r \in {"flushed", "failed"}, FlushSink(r)
        PROVE  EInv'
    <2>1. TypeOK'
      BY <1>13, StreamEncoderAssumption
      DEF FlushSink, Return, ChunkDone, At, ChunkDue, TypeOK, CallInv, Calls,
          Consumed, ChunkEnd
    <2>2. StreamConserved' /\ InputConserved'
      BY <1>13, StreamEncoderAssumption
      DEF FlushSink, Return, ChunkDone, At, ChunkDue, TypeOK, StreamConserved,
          InputConserved
    <2>3. CallInv' /\ DrainInv'
      BY <1>13
      DEF FlushSink, Return, ChunkDone, At, ChunkDue, TypeOK, CallInv,
          DrainInv, Calls
    <2>4. EndsInv' /\ TailInv'
      BY <1>13
      DEF FlushSink, Return, ChunkDone, At, ChunkDue, TypeOK, EndsInv, TailInv,
          CallInv, Calls, ChunkEnd
    <2> QED
      BY <2>1, <2>2, <2>3, <2>4
  <1>14. ASSUME End
        PROVE  EInv'
    <2>1. TypeOK'
      BY <1>14, StreamEncoderAssumption
      DEF End, Put, ChunkDone, At, ChunkDue, TypeOK, CallInv, Calls, Consumed,
          ChunkEnd
    <2>2. StreamConserved' /\ InputConserved'
      BY <1>14, StreamEncoderAssumption
      DEF End, Put, ChunkDone, At, ChunkDue, TypeOK, StreamConserved,
          InputConserved
    <2>3. CallInv' /\ DrainInv'
      BY <1>14
      DEF End, Put, ChunkDone, At, ChunkDue, TypeOK, CallInv, DrainInv, Calls
    <2>4. EndsInv' /\ TailInv'
      BY <1>14
      DEF End, Put, ChunkDone, At, ChunkDue, TypeOK, EndsInv, TailInv, CallInv,
          Calls, ChunkEnd
    <2> QED
      BY <2>1, <2>2, <2>3, <2>4
  <1>15. ASSUME Finished
        PROVE  EInv'
    <2>1. TypeOK'
      BY <1>15, StreamEncoderAssumption
      DEF Finished, Return, At, TypeOK, CallInv, Calls, Consumed, ChunkEnd
    <2>2. StreamConserved' /\ InputConserved'
      BY <1>15, StreamEncoderAssumption
      DEF Finished, Return, At, TypeOK, StreamConserved, InputConserved
    <2>3. CallInv' /\ DrainInv'
      BY <1>15
      DEF Finished, Return, At, TypeOK, CallInv, DrainInv, Calls
    <2>4. EndsInv' /\ TailInv'
      BY <1>15
      DEF Finished, Return, At, TypeOK, EndsInv, TailInv, CallInv, Calls,
          ChunkEnd
    <2> QED
      BY <2>1, <2>2, <2>3, <2>4
  <1>16. CASE UNCHANGED vars
    BY <1>16 DEF TypeOK, StreamConserved, InputConserved,
      CallInv, DrainInv, EndsInv, TailInv, ChunkEnd
  <1> QED
    BY <1>1, <1>2, <1>3, <1>4, <1>5, <1>6, <1>7, <1>8, <1>9, <1>10, <1>11, <1>12,
       <1>13, <1>14, <1>15, <1>16
    DEF Next, Encode, Sink

THEOREM Invariant == Spec => []EInv
  BY Initially, Inductive, PTL DEF Spec

(***************************************************************************)
(* Theorems.                                                               *)
(***************************************************************************)
\* The fields and locals keep their types; no more than a block is buffered.
THEOREM TypeCorrect == Spec => []TypeOK
  BY Invariant, PTL DEF EInv

\* No byte of the stream is lost or sent twice.
THEOREM ConservesStream == Spec => []StreamConserved
  BY Invariant, PTL DEF EInv

\* No accepted input is lost or encoded twice.
THEOREM ConservesInput == Spec => []InputConserved
  BY Invariant, PTL DEF EInv

\* However often flush is called or retried, the stream gets one alignment.
THEOREM AlignsOnce == Spec => []OneAlignment
  <1>1. EInv => OneAlignment
    <2> SUFFICES ASSUME EInv, ends # {}, op \in {"idle", "write", "flush"}
                 PROVE  total <= LastEnd + 6 + 7
      BY DEF OneAlignment
    <2>1. PICK last \in ends :
            /\ \A e \in ends : e.bits <= last.bits
            /\ total <= last.bits + 13
      BY DEF EInv, TailInv, TypeOK, ChunkEnd
    <2>2. /\ LastEnd \in {e.bits : e \in ends} \cup {0}
          /\ \A e \in ends : e.bits <= LastEnd
      <3>1. \E b \in {e.bits : e \in ends} \cup {0} : \A e \in ends : e.bits <= b
        BY <2>1
      <3> QED
        BY <3>1 DEF LastEnd
    <2>3. total \in Nat /\ last.bits \in Nat /\ LastEnd \in Nat
      BY <2>2 DEF EInv, TypeOK, ChunkEnd
    <2>4. last.bits <= LastEnd
      BY <2>2
    <2> QED
      BY <2>1, <2>3, <2>4
  <1> QED
    BY <1>1, Invariant, PTL

(***************************************************************************)
(* The encoder implements its contract.                                    *)
(***************************************************************************)
\* DecodableFrom is the input of the last chunk that lies within the bytes.
LEMMA DecodableIsLast ==
  ASSUME NEW chunks \in SUBSET ChunkEnd, NEW bytes \in Nat,
         NEW n \in Nat, \A e \in chunks : e.input <= n
  PROVE  LET d == DecodableFrom(chunks, bytes) IN
         /\ d \in 0 .. n
         /\ d = 0 \/ \E e \in chunks : e.input = d /\ e.bits <= 8 * bytes
         /\ \A e \in chunks : e.bits <= 8 * bytes => e.input <= d
  <1> DEFINE Inputs == {e.input : e \in {f \in chunks : f.bits <= 8 * bytes}}
             IsLast(i) == /\ i = 0 \/ \E e \in chunks :
                                          e.input = i /\ e.bits <= 8 * bytes
                          /\ \A e \in chunks : e.bits <= 8 * bytes => e.input <= i
             d == DecodableFrom(chunks, bytes)
  <1>1. \E i \in {e.input : e \in chunks} \cup {0} : IsLast(i)
    <2>1. CASE Inputs = {}
      BY <2>1
    <2>2. CASE Inputs # {}
      <3>1. Inputs \in SUBSET Nat /\ \A x \in Inputs : x <= n
        BY DEF ChunkEnd
      <3>2. PICK x \in Inputs : \A y \in Inputs : y <= x
        <4> HIDE DEF Inputs
        <4> QED
          BY <2>2, <3>1, BoundedSetHasLargest
      <3> QED
        BY <3>2
    <2> QED
      BY <2>1, <2>2
  <1>2. d \in {e.input : e \in chunks} \cup {0} /\ IsLast(d)
    BY <1>1 DEF DecodableFrom
  <1>3. d \in 0 .. n
    BY <1>2 DEF ChunkEnd
  <1> QED
    BY <1>2, <1>3

\* What the sink can be decoded to is input that was accepted.
DecodableInv ==
  /\ Decodable \in 0 .. accepted
  /\ \/ Decodable = 0
     \/ \E e \in ends : e.input = Decodable /\ e.bits <= 8 * sink
  /\ \A e \in ends : e.bits <= 8 * sink => e.input <= Decodable

LEMMA DecodableFacts == EInv => DecodableInv
  <1> SUFFICES ASSUME EInv PROVE DecodableInv
    OBVIOUS
  <1>1. /\ input_pos \in Nat /\ buffered \in Nat /\ sink \in Nat
        /\ ends \in SUBSET ChunkEnd /\ accepted = input_pos + buffered
        /\ \A e \in ends : e.input <= input_pos
    BY StreamEncoderAssumption
    DEF EInv, TypeOK, InputConserved, EndsInv
  <1>2. /\ Decodable \in 0 .. input_pos
        /\ \/ Decodable = 0
           \/ \E e \in ends : e.input = Decodable /\ e.bits <= 8 * sink
        /\ \A e \in ends : e.bits <= 8 * sink => e.input <= Decodable
    BY <1>1, DecodableIsLast DEF Decodable
  <1> QED
    BY <1>1, <1>2 DEF DecodableInv

\* With nothing buffered, pending or in the writer, all input is decodable.
LEMMA AllDecodable ==
  ASSUME EInv, buffered = 0, pending_len = 0, bit_len = 0
  PROVE  Decodable = accepted
  <1>1. /\ input_pos \in Nat /\ accepted = input_pos /\ total = 8 * sink
        /\ \A e \in ends : e.bits <= 8 * sink /\ e.input <= input_pos
        /\ input_pos = 0 \/ \E e \in ends : e.input = input_pos
    BY DEF EInv, TypeOK, StreamConserved, InputConserved, EndsInv
  <1>2. Decodable \in 0 .. accepted
        /\ \A e \in ends : e.bits <= 8 * sink => e.input <= Decodable
    BY DecodableFacts DEF DecodableInv
  <1> QED
    BY <1>1, <1>2

\* Each step of the encoder is one of the contract's, or changes nothing a
\* caller or the reader of the sink sees.
THEOREM StepImplements ==
  /\ EInv /\ EInv'
  /\ DecodableInv /\ DecodableInv'
  /\ [Next]_vars
  => [Contract!Next]_(Contract!contractVars)
  <1> SUFFICES ASSUME EInv, EInv', DecodableInv, DecodableInv', [Next]_vars
               PROVE  [Contract!Next]_(Contract!contractVars)
    OBVIOUS
  <1> DEFINE Same == /\ accepted' = accepted /\ reply' = reply
                     /\ Decodable' = Decodable
  <1>1. Same => UNCHANGED Contract!contractVars
    BY DEF Contract!contractVars
  <1>2. op # "finished" => Contract!Open
    BY DEF EInv, CallInv, Contract!Open
  <1>3. (sink' = sink /\ ends' = ends) => Decodable' = Decodable
    BY DEF Decodable
  <1>4. CASE \/ \E n \in 1 .. MaxInput : Write(n)
             \/ Flush \/ Finish \/ IntoInner
             \/ TakeFull \/ TakeFinal \/ Sent \/ Align \/ End
             \/ UNCHANGED vars
    <2>1. Same
      BY <1>3, <1>4
      DEF Write, Flush, Finish, IntoInner, Begin, TakeFull, TakeFinal, Sent,
          Align, End, Put, encoderVars, callVars, callerVars, historyVars, vars
    <2> QED
      BY <1>1, <2>1
  <1>5. ASSUME NEW b \in ChunkBits, WriteChunk(b)
        PROVE  [Contract!Next]_(Contract!contractVars)
    <2> DEFINE new == [bits |-> total + b, input |-> input_pos + buffered]
    <2>1. /\ ends' = ends \cup {new} /\ sink' = sink
          /\ accepted' = accepted /\ reply' = reply
      BY <1>5 DEF WriteChunk, Put, callerVars
    <2>2. ~ (new.bits <= 8 * sink)
      <3>1. b \in Nat /\ b > 8
        BY StreamEncoderAssumption
      <3>2. 8 * sink <= total /\ sink \in Nat /\ total \in Nat
        BY DEF EInv, TypeOK, StreamConserved
      <3> QED
        BY <3>1, <3>2
    <2> HIDE DEF new
    <2>3. \A e : (e \in ends' /\ e.bits <= 8 * sink')
                   <=> (e \in ends /\ e.bits <= 8 * sink)
      BY <2>1, <2>2
    <2>4. /\ Decodable \in 0 .. accepted
          /\ \/ Decodable = 0
             \/ \E e \in ends : e.input = Decodable /\ e.bits <= 8 * sink
          /\ \A e \in ends : e.bits <= 8 * sink => e.input <= Decodable
      BY DEF DecodableInv
    <2>5. /\ Decodable' \in 0 .. accepted'
          /\ \/ Decodable' = 0
             \/ \E e \in ends' : e.input = Decodable' /\ e.bits <= 8 * sink'
          /\ \A e \in ends' : e.bits <= 8 * sink' => e.input <= Decodable'
      BY DEF DecodableInv
    <2>6. Decodable' <= Decodable
      BY <2>3, <2>4, <2>5
    <2>7. Decodable <= Decodable'
      BY <2>3, <2>4, <2>5
    <2>8. Same
      BY <2>1, <2>4, <2>5, <2>6, <2>7
    <2> QED
      BY <1>1, <2>8
  <1>6. ASSUME NEW k \in Unsent, SinkTakes(k)
        PROVE  [Contract!Next]_(Contract!contractVars)
    <2>1. /\ ends' = ends /\ sink' = sink + k /\ sink \in Nat /\ k \in Nat
          /\ accepted' = accepted /\ reply' = reply
          /\ op \in Calls
      BY <1>6
      DEF SinkTakes, Draining, Unsent, callerVars, historyVars, EInv, TypeOK,
          CallInv
    <2>2. /\ Decodable \in 0 .. accepted /\ Decodable' \in 0 .. accepted'
          /\ \/ Decodable = 0
             \/ \E e \in ends : e.input = Decodable /\ e.bits <= 8 * sink
          /\ \A e \in ends' : e.bits <= 8 * sink' => e.input <= Decodable'
      BY DEF DecodableInv
    <2>3. \A e \in ends : e.bits <= 8 * sink => e.bits <= 8 * sink'
      BY <2>1 DEF EInv, TypeOK, ChunkEnd
    <2>4. Decodable <= Decodable'
      BY <2>1, <2>2, <2>3
    <2>5. CASE Decodable' = Decodable
      BY <1>1, <2>1, <2>5
    <2>6. CASE Decodable' # Decodable
      <3>1. accepted' \in Nat
        BY DEF EInv, TypeOK
      <3>2. Decodable' \in (Decodable + 1) .. accepted
        BY <2>1, <2>2, <2>4, <2>6, <3>1
      <3>3. Contract!Reveal
        BY <1>2, <2>1, <3>2 DEF Contract!Reveal, Calls
      <3> QED
        BY <3>3 DEF Contract!Next
    <2> QED
      BY <2>5, <2>6
  <1>7. CASE SinkFails \/ FlushSink("failed")
    <2>1. /\ Decodable' = Decodable /\ accepted' = accepted
          /\ reply' = "failed" /\ op # "finished"
      BY <1>3, <1>7
      DEF SinkFails, FlushSink, Draining, ChunkDone, At, Return, historyVars,
          EInv, CallInv, Calls
    <2> QED
      BY <1>2, <2>1 DEF Contract!Fail, Contract!Next
  <1>8. CASE Accept
    <2>1. /\ Decodable' = Decodable /\ reply' = "accepted" /\ op # "finished"
          /\ accepted' = accepted + Smaller(offered, BlockSize - buffered)
      BY <1>3, <1>8 DEF Accept, Return, ChunkDone, At, historyVars
    <2>2. /\ offered > 0 /\ offered \in Nat /\ buffered < BlockSize
          /\ buffered \in Nat /\ BlockSize \in Nat /\ accepted \in Nat
      BY <1>8, StreamEncoderAssumption
      DEF Accept, ChunkDone, ChunkDue, At, EInv, TypeOK, CallInv
    <2>3. accepted' > accepted
      BY <2>1, <2>2 DEF Smaller
    <2> QED
      BY <1>2, <2>1, <2>3 DEF Contract!Accept, Contract!Next
  <1>9. CASE FlushSink("flushed")
    <2>1. /\ Decodable' = Decodable /\ accepted' = accepted
          /\ reply' = "flushed" /\ op = "flush"
      BY <1>3, <1>9 DEF FlushSink, ChunkDone, At, Return, historyVars
    <2>2. buffered = 0 /\ pending_len = 0 /\ bit_len = 0
      <3>1. buffered = 0 /\ pending_len = 0 /\ bit_len < 8 /\ bit_len % 8 = 0
        BY <1>9
        DEF FlushSink, ChunkDone, ChunkDue, At, EInv, TypeOK, CallInv,
            DrainInv,
            Calls
      <3> QED
        BY <3>1 DEF EInv, TypeOK
    <2>3. Decodable = accepted
      BY <2>2, AllDecodable
    <2> QED
      BY <1>2, <2>1, <2>3 DEF Contract!Complete, Contract!Next
  <1>10. CASE Finished
    <2>1. /\ Decodable' = Decodable /\ accepted' = accepted
          /\ reply' = "finished" /\ op = "finish"
      BY <1>3, <1>10 DEF Finished, At, Return, historyVars
    <2>2. buffered = 0 /\ pending_len = 0 /\ bit_len = 0
      BY <1>10 DEF Finished, At, EInv, CallInv, DrainInv, Calls
    <2>3. Decodable = accepted
      BY <2>2, AllDecodable
    <2> QED
      BY <1>2, <2>1, <2>3 DEF Contract!Complete, Contract!Next
  <1> QED
    BY <1>4, <1>5, <1>6, <1>7, <1>8, <1>9, <1>10 DEF Next, Encode, Sink

\* The sink can always be decoded to a prefix of the accepted input, to all of
\* it after a flush or finish that succeeded, and a call that fails has
\* accepted nothing.
THEOREM ImplementsContract == Spec => DecodableOnFlush
  <1>1. Init => Contract!Init
    <2> SUFFICES ASSUME Init PROVE Contract!Init
      OBVIOUS
    <2>1. Decodable = accepted /\ accepted = 0
      <3>1. EInv /\ accepted = 0
        BY Initially DEF Init
      <3> QED
        BY <3>1, DecodableFacts DEF DecodableInv
    <2> QED
      BY <2>1 DEF Init, Contract!Init
  <1> QED
    BY <1>1, Invariant, DecodableFacts, StepImplements, PTL
    DEF Spec, DecodableOnFlush, Contract!Spec

=============================================================================
