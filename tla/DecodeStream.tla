---------------------------- MODULE DecodeStream ----------------------------
(***************************************************************************)
(* The data a decoder works on, as far as its control can tell it apart.   *)
(*                                                                         *)
(* A Brotli stream is a chain of elements, each read as a whole: the       *)
(* window header, a meta-block header, a prefix code, and in the body of a *)
(* compressed meta-block one command header, literal, block switch or      *)
(* copy.  stream.elem maps the bit position an element starts at to the    *)
(* element.  Payload bytes of stored and metadata blocks are not elements: *)
(* the decoder counts them.                                                *)
(*                                                                         *)
(*   kind      what the element is                                         *)
(*   ok        FALSE if its reader rejects it, once it has all its bits    *)
(*   end       bit position after it (byte-aligned after the two headers   *)
(*             whose padding is read with them)                            *)
(*   from, to  stream output before and after it                           *)
(*   len, last payload or meta-block length and ISLAST, of a header        *)
(*   block     start of the header of the meta-block an element lies in    *)
(*   stop      bit position after the meta-block, of a compressed header   *)
(*   reach     stream output after the command an element belongs to, by   *)
(*             its announced lengths (a dictionary word may end elsewhere)   *)
(*   dist      distance of a copy from earlier output, 0 for any other     *)
(***************************************************************************)
EXTENDS Integers

(***************************************************************************)
(* Small arithmetic: usize::min, usize::max, saturating_sub, div_ceil(8).  *)
(***************************************************************************)
Smaller(a, b) == IF a <= b THEN a ELSE b
Larger(a, b) == IF a >= b THEN a ELSE b
Monus(a, b) == IF a >= b THEN a - b ELSE 0
BytesOf(bits) == (bits + 7) \div 8

HeaderKinds == {"lastEmpty", "metadata", "uncompressed", "compressed"}
BodyKinds == {"command", "literal", "copy"}
Kinds == {"window", "code", "padding"} \cup HeaderKinds \cup BodyKinds

Element == [kind : Kinds, ok : BOOLEAN, end : Nat, from : Nat, to : Nat,
            len : Nat, last : BOOLEAN, block : Nat, stop : Nat,
            reach : Nat, dist : Nat]

Starts(s) == DOMAIN s.elem

(***************************************************************************)
(* What the chain looks like: each element leads to the ones its kind      *)
(* allows, and output positions follow from one to the next.  A rejected   *)
(* element leads nowhere: what a stream holds after it is never read.      *)
(***************************************************************************)
HeaderAt(s, p, out) ==
  /\ p \in Starts(s)
  /\ s.elem[p].kind \in HeaderKinds
  /\ s.elem[p].from = out

\* p starts an element of the compressed meta-block whose header starts at b.
InBlock(s, b, p, kinds, out) ==
  /\ p \in Starts(s)
  /\ s.elem[p].kind \in kinds
  /\ s.elem[p].block = b
  /\ s.elem[p].from = out

\* What follows the compressed meta-block at b: the last one's padding, or a
\* header.
AfterBlock(s, b) ==
  LET h == s.elem[b] IN
  IF h.last
  THEN /\ h.stop \in Starts(s)
       /\ s.elem[h.stop].kind = "padding"
       /\ s.elem[h.stop].from = h.from + h.len
  ELSE HeaderAt(s, h.stop, h.from + h.len)

\* The elements of a compressed meta-block are a chain from its header, and
\* their output lies in its own.
HoldsBlock(s, b) ==
  LET h == s.elem[b] IN
  \A q \in Starts(s) :
    (b < q /\ q < h.stop) =>
      /\ InBlock(s, b, q, {"code"} \cup BodyKinds, s.elem[q].from)
      /\ h.from <= s.elem[q].from
      /\ s.elem[q].from <= s.elem[q].reach
      /\ s.elem[q].from < h.from + h.len
      /\ s.elem[q].end <= h.stop
      /\ h.end < q => \E r \in Starts(s) : b < r /\ r < q /\ s.elem[r].end = q

\* A prefix code is followed by a code or the first command; an element of
\* the body by another, or it ends the meta-block.
CodeLink(s, p) ==
  LET e == s.elem[p] IN
  /\ e.end < s.elem[e.block].stop
  /\ InBlock(s, e.block, e.end, {"code", "command"}, e.from)

BodyLink(s, p) ==
  LET e == s.elem[p] IN
  /\ e.dist <= Smaller(s.window, e.from)
  /\ e.end < s.elem[e.block].stop => InBlock(s, e.block, e.end, BodyKinds, e.to)

Link(s, p) ==
  LET e == s.elem[p] IN
  /\ e.kind = "window" => HeaderAt(s, e.end, 0)
  /\ e.kind = "metadata" =>
       /\ e.end % 8 = 0
       /\ e.last \/ HeaderAt(s, e.end + 8 * e.len, e.from)
  /\ e.kind = "uncompressed" =>
       /\ e.end % 8 = 0
       /\ e.len > 0
       /\ HeaderAt(s, e.end + 8 * e.len, e.from + e.len)
  /\ e.kind = "compressed" =>
       /\ e.len > 0
       /\ e.end < e.stop
       /\ InBlock(s, p, e.end, {"code"}, e.from)
       /\ HoldsBlock(s, p)
       /\ AfterBlock(s, p)
  /\ e.kind = "code" => CodeLink(s, p)
  /\ e.kind \in BodyKinds => BodyLink(s, p)

\* Bit position after an element and the payload that follows it.
PayloadEnd(s, p) ==
  IF s.elem[p].kind \in {"metadata", "uncompressed"}
  THEN s.elem[p].end + 8 * s.elem[p].len
  ELSE s.elem[p].end

\* Elements and payloads do not overlap, and neither does their output.
InOrder(s) ==
  \A p, q \in Starts(s) :
    p < q => PayloadEnd(s, p) <= q /\ s.elem[p].to <= s.elem[q].from

WellFormed(s) ==
  /\ s.bytes \in Nat
  /\ s.window \in Nat \ {0}
  /\ Starts(s) \subseteq Nat
  /\ s.elem \in [Starts(s) -> Element]
  /\ 0 \in Starts(s)
  /\ s.elem[0].kind = "window"
  /\ s.elem[0].from = 0
  /\ InOrder(s)
  /\ \A p \in Starts(s) :
       LET e == s.elem[p] IN
       /\ p <= e.end
       /\ IF e.kind = "padding" THEN e.end = 8 * BytesOf(p) ELSE p < e.end
       /\ e.from <= e.to
       /\ e.kind = "copy" \/ e.dist = 0
       /\ e.ok => Link(s, p)

(***************************************************************************)
(* What a decoder that holds the whole input makes of it: it stops at the  *)
(* first element it rejects, whose meta-block would pass the output limit, *)
(* or for which the input is too short.  At the end of the stream it fails *)
(* if bytes follow: a one-shot decode is of all its input.  A streaming    *)
(* decoder leaves them to its caller, so what it is to deliver is Decoded, *)
(* the one-shot decode of the input cut at the stream's end.               *)
(***************************************************************************)
OverLimit(s, limit, p) ==
  /\ s.elem[p].kind \in {"uncompressed", "compressed"}
  /\ s.elem[p].from + s.elem[p].len > limit

Rejected(s, limit, p) == ~s.elem[p].ok \/ OverLimit(s, limit, p)

\* The input ends within the element, or within the payload after it.
Truncated(s, p) == PayloadEnd(s, p) > 8 * s.bytes

\* Stored bytes the input holds of the stored block at p it ends in.
StoredHeld(s, p) ==
  IF s.elem[p].kind = "uncompressed"
  THEN Monus(8 * s.bytes, s.elem[p].end) \div 8
  ELSE 0

Halts(s, limit, p) == Rejected(s, limit, p) \/ Truncated(s, p)

\* A stream ends at "lastEmpty", the last "metadata" or "padding"; whether
\* the one-shot decode ends well there is up to BytesFollow.
FinalElement(s, p) ==
  LET e == s.elem[p] IN
  \/ e.kind \in {"lastEmpty", "padding"}
  \/ e.kind = "metadata" /\ e.last

\* The element the decode ends at, whatever its outcome.
Ending(s, limit) ==
  CHOOSE p \in Starts(s) :
    /\ Halts(s, limit, p) \/ FinalElement(s, p)
    /\ \A q \in Starts(s) : q < p => ~Halts(s, limit, q) /\ ~FinalElement(s, q)

\* finish_stream's "trailing bytes after Brotli stream": a byte or more is
\* left after the final element.
BytesFollow(s, p) == 8 * s.bytes - PayloadEnd(s, p) >= 8

\* The one-shot decode of the whole input; `output` is what it had decoded,
\* which an error discards.
OneShot(s, limit) ==
  LET p == Ending(s, limit)
      e == s.elem[p]
  IN  IF e.end <= 8 * s.bytes /\ Rejected(s, limit, p)
      THEN [verdict |-> "error", output |-> e.from]
      ELSE IF Truncated(s, p)
           THEN [verdict |-> "starved", output |-> e.from + StoredHeld(s, p)]
           ELSE [verdict |-> IF BytesFollow(s, p) THEN "error" ELSE "finished",
                 output |-> e.from]

\* Bytes of the stream itself: what follows them is not the decoder's.
StreamBytes(s, limit) == BytesOf(PayloadEnd(s, Ending(s, limit)))

\* The input without what follows the stream, and its one-shot decode.
Itself(s, limit) ==
  [elem |-> s.elem, window |-> s.window,
   bytes |-> Smaller(s.bytes, StreamBytes(s, limit))]

Decoded(s, limit) == OneShot(Itself(s, limit), limit)
=============================================================================
