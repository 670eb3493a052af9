--------------------------- MODULE MCPushDecoder ---------------------------
(***************************************************************************)
(* Small streams for PushDecoder and the modules above it.  A stream is    *)
(* written as the sequence of its elements with their sizes; Build turns   *)
(* it into the positions DecodeStream works on.                            *)
(***************************************************************************)
EXTENDS PushDecoder, Sequences, FiniteSetsExt

\* An element: kind, bits it takes, output it makes, and for headers the
\* length and ISLAST (for copies the distance in place of the length).
El(k, bits, out, n, last, ok) ==
  [kind |-> k, bits |-> bits, out |-> out, n |-> n, last |-> last, ok |-> ok]

Window(bits) == El("window", bits, 0, 0, FALSE, TRUE)
LastEmpty == El("lastEmpty", 2, 0, 0, TRUE, TRUE)
Metadata(n, last) == El("metadata", 6, 0, n, last, TRUE)
Stored(n) == El("uncompressed", 9, n, n, FALSE, TRUE)
Compressed(n, last) == El("compressed", 5, 0, n, last, TRUE)
Code(bits) == El("code", bits, 0, 0, FALSE, TRUE)
Command(bits) == El("command", bits, 0, 0, FALSE, TRUE)
Literal(bits) == El("literal", bits, 1, 0, FALSE, TRUE)
Switch(bits) == El("literal", bits, 0, 0, FALSE, TRUE)
Copy(bits, n, dist) == El("copy", bits, n, dist, FALSE, TRUE)
Padding == El("padding", 0, 0, 0, FALSE, TRUE)
Bad(e) == [e EXCEPT !.ok = FALSE]

(***************************************************************************)
(* Positions.  A stored or metadata header is padded to a byte, and its    *)
(* payload follows; the padding of a stream's end is padded to a byte.     *)
(***************************************************************************)
AlignUp(b) == 8 * BytesOf(b)

EndOf(e, p) ==
  IF e.kind \in {"metadata", "uncompressed", "padding"}
  THEN AlignUp(p + e.bits) ELSE p + e.bits

NextOf(e, p) ==
  IF e.kind \in {"metadata", "uncompressed"}
  THEN EndOf(e, p) + 8 * e.n ELSE EndOf(e, p)

\* Start and output position of element i of the sequence q.
StartOf(q) ==
  LET at[i \in 1 .. Len(q)] ==
        IF i = 1 THEN 0 ELSE NextOf(q[i - 1], at[i - 1])
  IN  at
FromOf(q) ==
  LET out[i \in 1 .. Len(q)] ==
        IF i = 1 THEN 0 ELSE out[i - 1] + q[i - 1].out
  IN  out

InBody(e) == e.kind \in {"code"} \cup BodyKinds

\* Index of the compressed header element i lies in, of the element after
\* that meta-block, and of the command i belongs to's last element.
BlockOf(q, i) == Max({j \in 1 .. i : q[j].kind = "compressed"})
AfterOf(q, b) ==
  LET after == {j \in (b + 1) .. Len(q) : ~InBody(q[j])}
  IN  IF after = {} THEN Len(q) + 1 ELSE Min(after)
CommandEnd(q, i) ==
  LET next == {j \in (i + 1) .. Len(q) : q[j].kind = "command" \/ ~InBody(q[j])}
  IN  IF next = {} THEN Len(q) ELSE Min(next) - 1

Build(q, windowSize, bytes) ==
  LET at == StartOf(q)
      out == FromOf(q)
      stop(b) == LET n == AfterOf(q, b) - 1 IN NextOf(q[n], at[n])
      index(p) == CHOOSE i \in 1 .. Len(q) : at[i] = p
      element(i) ==
        LET e == q[i] IN
        [kind |-> e.kind, ok |-> e.ok,
         end |-> EndOf(e, at[i]),
         from |-> out[i],
         to |-> IF e.kind = "uncompressed" THEN out[i] ELSE out[i] + e.out,
         len |-> IF e.kind \in HeaderKinds THEN e.n ELSE 0,
         last |-> e.last,
         block |-> IF InBody(e) THEN at[BlockOf(q, i)] ELSE 0,
         stop |-> IF e.kind = "compressed" THEN stop(i) ELSE 0,
         reach |-> IF e.kind \in {"literal", "copy"}
                   THEN LET c == CommandEnd(q, i) IN out[c] + q[c].out
                   ELSE out[i],
         dist |-> IF e.kind = "copy" THEN e.n ELSE 0]
  IN  [elem |-> [p \in {at[i] : i \in 1 .. Len(q)} |-> element(index(p))],
       window |-> windowSize,
       bytes |-> bytes]

\* Bytes of the whole sequence.
SizeOf(q) == BytesOf(NextOf(q[Len(q)], StartOf(q)[Len(q)]))

(***************************************************************************)
(* The streams: stored, metadata and compressed meta-blocks, copies that   *)
(* reach back past a meta-block, past the window (a dictionary word) and   *)
(* through dropped history; malformed at every kind of element; cut short; *)
(* followed by bytes of the caller's.                                      *)
(***************************************************************************)
StoredStream ==
  <<Window(1), Stored(2), Metadata(1, FALSE), Stored(1), LastEmpty>>

CompressedStream ==
  <<Window(4), Compressed(4, TRUE), Code(6),
    Command(5), Literal(3), Switch(2), Literal(4), Copy(7, 2, 2), Padding>>

\* Window 2: the second block starts after history was dropped, and its copy
\* reaches the oldest byte kept.
LongStream ==
  <<Window(1), Stored(4), Compressed(3, FALSE), Code(5), Command(3),
    Copy(5, 2, 2), Command(9), Literal(2), Metadata(0, TRUE)>>

\* The limit and the malformed streams.
BadBody ==
  <<Window(4), Compressed(3, FALSE), Code(4), Command(5), Literal(3),
    Bad(Copy(6, 2, 0)), LastEmpty>>
BadCode == <<Window(1), Stored(1), Compressed(2, TRUE), Bad(Code(9)),
    Command(3), Copy(3, 2, 1), Padding>>
BadPadding ==
  <<Window(1), Compressed(1, TRUE), Code(3), Command(4), Literal(2),
    Bad(Padding)>>
BadHeader == <<Window(1), Stored(2), Bad(LastEmpty)>>
BadWindow == <<Bad(Window(7))>>

MCStreams ==
  {Build(StoredStream, 2, SizeOf(StoredStream) + 1),
   Build(StoredStream, 2, SizeOf(StoredStream) - 2),
   Build(CompressedStream, 4, SizeOf(CompressedStream) + 2),
   Build(CompressedStream, 4, SizeOf(CompressedStream) - 1),
   Build(LongStream, 2, SizeOf(LongStream) + 1),
   Build(BadBody, 4, SizeOf(BadBody) + 1),
   Build(BadCode, 4, SizeOf(BadCode)),
   Build(BadPadding, 4, SizeOf(BadPadding) + 1),
   Build(BadHeader, 4, SizeOf(BadHeader) + 1),
   Build(BadWindow, 4, 2)}
=============================================================================
