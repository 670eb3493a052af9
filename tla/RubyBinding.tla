----------------------------- MODULE RubyBinding -----------------------------
(***************************************************************************)
(* The Ruby binding (bindings/ruby/ext/burli_native): Ruby threads that    *)
(* call one Compressor or one Decompressor, and the module functions.      *)
(*                                                                         *)
(* A Ruby thread runs only while it holds the GVL and gives it up between  *)
(* calls, or inside one that releases it.  An object is behind a mutex.  A *)
(* call on little input tries the mutex with the GVL and, when it is held, *)
(* waits without it; any other call releases the GVL first.  An interrupt  *)
(* that waits for the thread makes the release fail: the work then runs    *)
(* with the GVL.  The bytes a call works on are those of a String that     *)
(* other threads may change while the GVL is free, unless it is locked.    *)
(*                                                                         *)
(* A compressed stream is a sequence of elements: "lit" decodes to one     *)
(* byte, "copy" to three, "end" ends the stream, "bad" is malformed.       *)
(***************************************************************************)
EXTENDS Integers, Sequences, FiniteSets

CONSTANTS
  Threads,
  Strings,
  Chunks,          (* what a String may hold                               *)
  Limits,          (* values of output_buffer_limit                        *)
  FirstRoom,       (* FIRST_OUTPUT_ROOM                                    *)
  GvlThreshold,    (* GVL_THRESHOLD                                        *)
  MaxCalls,        (* bound: calls of all threads                          *)
  MaxAccepted,     (* bound: elements or bytes an object takes             *)
  None

\* What a byte of compressed input says; a Compressor's input uses the same.
Elements == {"lit", "copy", "end", "bad"}

ASSUME RubyAssumption ==
  /\ None \notin Threads \cup Strings
  /\ \A bytes \in Chunks : bytes \in Seq(Elements)
  /\ Limits \subseteq Nat \ {0}
  /\ FirstRoom \in Nat \ {0}
  /\ MaxCalls \in Nat /\ MaxAccepted \in Nat /\ GvlThreshold \in Nat

VARIABLES
  object,     (* "Decompressor" or "Compressor", what the threads share    *)
  gvl,        (* the thread that holds the GVL                             *)
  owner,      (* the thread that holds the object's mutex                  *)
  poisoned,   (* a call panicked with the mutex                            *)
  state,      (* DecoderState                                              *)
  finished,   (* Compressor: the encoder is None                           *)
  text,       (* contents of the Strings                                   *)
  locked,     (* the thread that locked a String                           *)
  pc,
  call,       (* the running call of a thread                              *)
  input,      (* InputBytes: "borrowed", or "owned" with the copy          *)
  calls,
  \* what the callers see, in the order the object was used
  accepted,   (* input of calls that raised nothing                        *)
  returned    (* output; of a Compressor, the input it decodes to          *)

objectVars == <<poisoned, state, finished, accepted, returned>>
stringVars == <<text, locked>>
vars == <<object, gvl, owner, objectVars, stringVars, pc, call, input, calls>>

Lesser(a, b) == IF a < b THEN a ELSE b
Greater(a, b) == IF a > b THEN a ELSE b

(***************************************************************************)
(* PushDecoder, as PushDecoder.tla shows it to its caller: it takes input  *)
(* until its output no longer fits, and reports an error once the output   *)
(* before it is written.                                                   *)
(***************************************************************************)
Produces(e) ==
  CASE e = "lit" -> <<"l">> [] e = "copy" -> <<"c", "o", "p">> [] OTHER -> <<>>

\* What the first n elements decode to.
Outputs(s) ==
  LET out[n \in 0 .. Len(s)] == IF n = 0 THEN <<>> ELSE out[n - 1] \o Produces(s[n])
  IN  out

Output(s) == Outputs(s)[Len(s)]

\* The stream ended, or broke, with the last element.
Last(s, e) == s # <<>> /\ s[Len(s)] = e
Closed(s) == Last(s, "end") \/ Last(s, "bad")

Decompress(d, data, room) ==
  LET Seen(n) == d.seen \o SubSeq(data, 1, n)
      Left(n) == Len(Output(Seen(n))) - d.given
      Stops(n) == n = Len(data) \/ Left(n) > room \/ Closed(Seen(n))
      consumed == CHOOSE n \in 0 .. Len(data) :
                    Stops(n) /\ \A m \in 0 .. n - 1 : ~Stops(m)
      wrote == Lesser(Left(consumed), room)
      bad == Last(Seen(consumed), "bad")
  IN  [seen |-> Seen(consumed), given |-> d.given + wrote, consumed |-> consumed,
       written |-> SubSeq(Output(Seen(consumed)), d.given + 1, d.given + wrote),
       status |-> IF Left(consumed) > room THEN "NeedsOutput"
                  ELSE IF bad THEN IF wrote > 0 THEN "NeedsOutput" ELSE "Error"
                  ELSE IF Last(Seen(consumed), "end") THEN "Finished"
                  ELSE "NeedsInput"]

IsFinished(d) == Last(d.seen, "end") /\ d.given = Len(Output(d.seen))

(***************************************************************************)
(* Decompressor.                                                           *)
(***************************************************************************)
NewState ==
  [seen |-> <<>>, given |-> 0, tail |-> <<>>, pending |-> FALSE,
   unused |-> <<>>, failed |-> FALSE]

\* decode: room doubles with the output, up to limit.
Turn(r, limit) ==
  LET start == Len(r.output)
      room == Lesser(limit - start, Greater(start, FirstRoom))
      p == Decompress(r.d, r.rest, room)
  IN  [d |-> [r.d EXCEPT !.seen = p.seen, !.given = p.given],
       output |-> r.output \o p.written,
       rest |-> SubSeq(r.rest, p.consumed + 1, Len(r.rest)), status |-> p.status]

GoesOn(r, limit) == r.status = "NeedsOutput" /\ Len(r.output) # limit

\* Every turn of the loop but the last writes, so limit turns are enough.
DecodeInto(d, data, limit) ==
  LET turn[n \in 0 .. limit] ==
        IF n = 0
        THEN [d |-> d, output |-> <<>>, rest |-> data, status |-> "NeedsOutput"]
        ELSE LET r == turn[n - 1]
             IN  IF GoesOn(r, limit) THEN Turn(r, limit) ELSE r
  IN  turn[limit]

Raises(s) == [state |-> s, output |-> <<>>, ok |-> FALSE]

\* mutant: output the decoder holds does not count, only input
Process_TailOnly(s, data, limit) ==
  IF s.failed THEN Raises(s)
  ELSE IF IsFinished(s) THEN
    IF data = <<>> THEN [state |-> s, output |-> <<>>, ok |-> TRUE] ELSE Raises(s)
  ELSE IF s.tail # <<>> /\ data # <<>> THEN Raises(s)
  ELSE
    LET r == DecodeInto(s, IF s.tail = <<>> THEN data ELSE s.tail, limit)
        after == [r.d EXCEPT !.tail = IF r.status = "NeedsOutput" THEN r.rest ELSE <<>>,
                             !.unused = IF r.status = "Finished" THEN r.rest ELSE @,
                             !.pending = r.status = "NeedsOutput" /\ r.rest # <<>>]
    IN  IF r.status = "Error" THEN Raises([r.d EXCEPT !.tail = <<>>, !.failed = TRUE])
        ELSE [state |-> after, output |-> r.output, ok |-> TRUE]

Process(s, data, limit) ==
  IF s.failed THEN Raises(s)
  ELSE IF IsFinished(s) THEN
    IF data = <<>> THEN [state |-> s, output |-> <<>>, ok |-> TRUE] ELSE Raises(s)
  ELSE IF (s.pending \/ s.tail # <<>>) /\ data # <<>> THEN Raises(s)
  ELSE
    LET r == DecodeInto(s, IF s.tail = <<>> THEN data ELSE s.tail, limit)
        after == [r.d EXCEPT !.tail = IF r.status = "NeedsOutput" THEN r.rest ELSE <<>>,
                             !.unused = IF r.status = "Finished" THEN r.rest ELSE @,
                             !.pending = r.status = "NeedsOutput"]
    IN  IF r.status = "Error" THEN Raises([r.d EXCEPT !.tail = <<>>, !.failed = TRUE])
        ELSE [state |-> after, output |-> r.output, ok |-> TRUE]

CanAcceptMoreData(s) == ~IsFinished(s) /\ s.tail = <<>> /\ ~s.pending

(***************************************************************************)
(* The threads in Ruby code.  There they hold the GVL in turns, from one   *)
(* step to the next: between steps it is free.                             *)
(***************************************************************************)
NoCall == [op |-> "none", string |-> None, limit |-> 0, want |-> <<>>]
Borrowed == [kind |-> "borrowed", bytes |-> <<>>]

Init ==
  /\ object \in {"Decompressor", "Compressor"}
  /\ gvl = None /\ owner = None /\ poisoned = FALSE
  /\ state = NewState
  /\ finished = FALSE
  /\ text = [s \in Strings |-> <<>>]
  /\ locked = [s \in Strings |-> None]
  /\ pc = [t \in Threads |-> "ruby"]
  /\ call = [t \in Threads |-> NoCall]
  /\ input = [t \in Threads |-> Borrowed]
  /\ calls = 0
  /\ accepted = <<>> /\ returned = <<>>

\* A locked String raises instead.
Change(t, s) ==
  /\ pc[t] = "ruby" /\ gvl = None
  /\ locked[s] = None
  /\ \E bytes \in Chunks : text' = [text EXCEPT ![s] = bytes]
  /\ UNCHANGED <<object, gvl, owner, objectVars, locked, pc, call, input, calls>>

\* A call begins with the GVL; next is where it goes on.
Begin(t, op, s, limit, next) ==
  /\ pc[t] = "ruby" /\ gvl = None
  /\ calls < MaxCalls
  /\ calls' = calls + 1
  /\ gvl' = t
  /\ call' = [call EXCEPT ![t] =
       [op |-> op, string |-> s, limit |-> limit,
        want |-> IF s = None THEN <<>> ELSE text[s]]]
  /\ input' = [input EXCEPT ![t] =
       IF s = None THEN [kind |-> "owned", bytes |-> <<>>] ELSE Borrowed]
  /\ pc' = [pc EXCEPT ![t] = next]
  /\ UNCHANGED <<object, owner, objectVars, stringVars>>

Route(release) == IF release THEN "release" ELSE "try"

\* Decompressor#process.
BeginDecompress(t) ==
  /\ object = "Decompressor"
  /\ \E s \in Strings, limit \in Limits :
       /\ Len(accepted) + Len(text[s]) <= MaxAccepted
       /\ Begin(t, "decompress", s, limit,
                Route(Len(text[s]) + limit >= GvlThreshold))

\* finished?, can_accept_more_data, unused_data, of either object.
BeginRead(t) == Begin(t, "read", None, 0, Route(FALSE))

\* Compressor#process, #flush and #finish.
BeginCompress(t) ==
  /\ object = "Compressor"
  /\ \/ \E s \in Strings :
          /\ Len(accepted) + Len(text[s]) <= MaxAccepted
          /\ Begin(t, "compress", s, 0, Route(Len(text[s]) >= GvlThreshold))
     \/ \E op \in {"flush", "finish"} : Begin(t, op, None, 0, Route(TRUE))

\* Burli.deflate and Burli.inflate: no object, and no mutex.
BeginModule(t) ==
  \E s \in Strings :
    \/ Begin(t, "inflate", s, 0, "release")
    \/ Begin(t, "deflate", s, 0,
             IF Len(text[s]) >= GvlThreshold THEN "release" ELSE "run")

HasMutex(t) == call[t].op \notin {"inflate", "deflate"}

(***************************************************************************)
(* with_mutex and without_gvl.                                             *)
(***************************************************************************)
TryLock(t) ==
  /\ pc[t] = "try"
  /\ \/ poisoned /\ owner = None /\ pc' = [pc EXCEPT ![t] = "return"] /\ UNCHANGED owner
     \/ ~poisoned /\ owner = None /\ owner' = t /\ pc' = [pc EXCEPT ![t] = "run"]
     \/ owner # None /\ pc' = [pc EXCEPT ![t] = "release"] /\ UNCHANGED owner
  /\ UNCHANGED <<object, gvl, objectVars, stringVars, call, input, calls>>

\* mutant: waits with the String as it is
LockInput_Never(t) == UNCHANGED <<locked, input>>

\* InputBytes::lock: lock the String, or copy its bytes when it cannot be.  A
\* frozen String needs neither: it is one that no thread changes.
LockInput(t) ==
  LET s == call[t].string IN
  IF s = None THEN UNCHANGED <<locked, input>>
  ELSE IF locked[s] = None
  THEN locked' = [locked EXCEPT ![s] = t] /\ UNCHANGED input
  ELSE /\ input' = [input EXCEPT ![t] = [kind |-> "owned", bytes |-> text[s]]]
       /\ UNCHANGED locked

\* With an interrupt pending the thread goes on with the GVL.
ReleaseGvl(t) ==
  /\ pc[t] = "release"
  /\ LockInput(t)
  /\ gvl' \in {None, t}
  /\ pc' = [pc EXCEPT ![t] = IF HasMutex(t) THEN "wait" ELSE "run"]
  /\ UNCHANGED <<object, owner, objectVars, text, call, calls>>

Lock(t) ==
  /\ pc[t] = "wait"
  /\ owner = None
  /\ IF poisoned
     THEN pc' = [pc EXCEPT ![t] = "regain"] /\ UNCHANGED owner
     ELSE owner' = t /\ pc' = [pc EXCEPT ![t] = "run"]
  /\ UNCHANGED <<object, gvl, objectVars, stringVars, call, input, calls>>

(***************************************************************************)
(* The work.  The guard ends with it, before the thread takes the GVL back.*)
(***************************************************************************)
Bytes(t) == IF input[t].kind = "owned" THEN input[t].bytes ELSE text[call[t].string]

GuardScope_Call == "call" \* mutant: with_mutex returns with the guard

GuardScope == "work"

DropGuard(t, scope) ==
  owner' = IF owner = t /\ scope = GuardScope THEN None ELSE owner

EndWork(t) ==
  /\ pc[t] = "run"
  /\ DropGuard(t, "work")
  /\ pc' = [pc EXCEPT ![t] = "regain"]
  /\ UNCHANGED <<object, gvl, stringVars, call, input, calls>>

RunDecompress(t) ==
  /\ call[t].op = "decompress"
  /\ EndWork(t)
  /\ LET r == Process(state, Bytes(t), call[t].limit) IN
     /\ state' = r.state
     /\ accepted' = IF r.ok THEN accepted \o Bytes(t) ELSE accepted
     /\ returned' = returned \o r.output
  /\ UNCHANGED <<poisoned, finished>>

\* What write_all puts out depends on the blocks it fills.
RunCompress(t) ==
  /\ call[t].op = "compress"
  /\ EndWork(t)
  /\ IF finished THEN UNCHANGED <<accepted, returned>>
     ELSE /\ accepted' = accepted \o Bytes(t)
          /\ \E n \in Len(returned) .. Len(accepted') :
               returned' = SubSeq(accepted', 1, n)
  /\ UNCHANGED <<poisoned, state, finished>>

RunFlush(t) ==
  /\ call[t].op = "flush"
  /\ EndWork(t)
  /\ returned' = IF finished THEN returned ELSE accepted
  /\ UNCHANGED <<poisoned, state, finished, accepted>>

\* A second finish returns nothing.
RunFinish(t) ==
  /\ call[t].op = "finish"
  /\ EndWork(t)
  /\ finished' = TRUE
  /\ returned' = IF finished THEN returned ELSE accepted
  /\ UNCHANGED <<poisoned, state, accepted>>

RunOther(t) ==
  /\ call[t].op \in {"read", "inflate", "deflate"}
  /\ EndWork(t)
  /\ UNCHANGED objectVars

\* The codec panics, and poisons the mutex: held input or an encoder that was
\* taken out is lost.
Panic(t) ==
  /\ call[t].op \in {"decompress", "compress", "flush", "finish"}
  /\ ~finished
  /\ EndWork(t)
  /\ poisoned' = TRUE
  /\ state' = IF call[t].op = "decompress" THEN [state EXCEPT !.tail = <<>>] ELSE state
  /\ finished' = (call[t].op = "finish")
  /\ UNCHANGED <<accepted, returned>>

RegainGvl(t) ==
  /\ pc[t] = "regain"
  /\ gvl \in {None, t}
  /\ gvl' = t
  /\ pc' = [pc EXCEPT ![t] = "return"]
  /\ UNCHANGED <<object, owner, objectVars, stringVars, call, input, calls>>

\* InputBytes is dropped, and the method returns or raises.
Return(t) ==
  /\ pc[t] = "return" /\ gvl = t
  /\ gvl' = None
  /\ DropGuard(t, "call")
  /\ locked' = [s \in Strings |-> IF locked[s] = t THEN None ELSE locked[s]]
  /\ pc' = [pc EXCEPT ![t] = "ruby"]
  /\ call' = [call EXCEPT ![t] = NoCall]
  /\ input' = [input EXCEPT ![t] = Borrowed]
  /\ UNCHANGED <<object, objectVars, text, calls>>

(***************************************************************************)
(* The specification.  The GVL is handed to waiting threads in turn.  A    *)
(* std::sync::Mutex promises its waiters no turn: that it is free from     *)
(* some time on must do.  Whatever work a call has, a step of it ends it.  *)
(***************************************************************************)
Work(t) == \/ RunDecompress(t) \/ RunCompress(t) \/ RunFlush(t) \/ RunFinish(t)
           \/ RunOther(t) \/ Panic(t)

Locking(t) == TryLock(t) \/ ReleaseGvl(t) \/ Lock(t)

Next ==
  \E t \in Threads :
    \/ \E s \in Strings : Change(t, s)
    \/ BeginDecompress(t) \/ BeginRead(t) \/ BeginCompress(t) \/ BeginModule(t)
    \/ Locking(t) \/ Work(t) \/ RegainGvl(t) \/ Return(t)

Fairness ==
  \A t \in Threads :
    /\ WF_pc(Locking(t)) /\ WF_pc(EndWork(t)) /\ WF_pc(Return(t))
    /\ SF_pc(RegainGvl(t))

Spec == Init /\ [][Next]_vars /\ Fairness

(***************************************************************************)
(* Properties.                                                             *)
(***************************************************************************)
\* Up to the first end of the stream, and after it.
EndsAt(s, n) == n = Len(s) \/ s[n] = "end"
StreamLen(s) ==
  IF s = <<>> THEN 0
  ELSE CHOOSE n \in 1 .. Len(s) : EndsAt(s, n) /\ \A m \in 1 .. n - 1 : ~EndsAt(s, m)

\* Whenever a Decompressor says that it takes more input, or that it is
\* finished, its callers have all output of the input they passed, each byte
\* once, and unused_data is the input after the stream; and a finished
\* Compressor has put out all of its input.  So it is however the calls of
\* several threads interleave, with any limits, and after calls that raised,
\* as long as none panicked.
ReturnedExact ==
  /\ object = "Decompressor" /\ ~poisoned /\ ~state.failed
       /\ (CanAcceptMoreData(state) \/ IsFinished(state))
     => LET n == StreamLen(accepted) IN
        /\ returned = Output(SubSeq(accepted, 1, n))
        /\ state.unused = SubSeq(accepted, n + 1, Len(accepted))
  /\ finished /\ ~poisoned => returned = accepted

\* A call works on the bytes its String held when it began, though threads
\* that change Strings run while it waits or works without the GVL.
InputStable ==
  \A t \in Threads :
    pc[t] \in {"try", "release", "wait", "run"} /\ call[t].string # None
      => Bytes(t) = call[t].want

\* Every call returns: no thread waits for the mutex with the GVL while the
\* one with the mutex waits for the GVL, not even one that could not give the
\* GVL up.
CallsReturn == \A t \in Threads : pc[t] # "ruby" ~> pc[t] = "ruby"
=============================================================================
