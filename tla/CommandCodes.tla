---------------------------- MODULE CommandCodes ----------------------------
(***************************************************************************)
(* Insert lengths, copy lengths and distances as symbols with extra bits:  *)
(* how the encoder's writers choose them (crates/encode/src/encode), and   *)
(* what the decoder reads from them (crates/decode/src/compressed.rs).     *)
(***************************************************************************)
EXTENDS FixedCodes, PrefixBits

MAX_META_BLOCK_SIZE == 2 ^ 24

\* usize::ilog2, log2_floor
Log2(n) == CHOOSE k \in 0 .. 26 : 2 ^ k <= n /\ n < 2 ^ (k + 1)

\* `extra` in `bits` bits follows the code.
Code(code, bits, extra) == [code |-> code, bits |-> bits, extra |-> extra]

(***************************************************************************)
(* one_pass.rs, for every writer but q1's batches and literal blocks.      *)
(***************************************************************************)
\* A code by the two highest bits of `tail`, or by its highest.
Halved(tail, offset, bits) ==
  Code(2 * bits + (tail \div 2 ^ bits) + offset, bits, tail % 2 ^ bits)
ByTwoBits(tail, offset) == Halved(tail, offset, Log2(tail) - 1)
ByOneBit(tail, offset) ==
  LET bits == Log2(tail) IN Code(bits + offset, bits, tail - 2 ^ bits)

InsertCodeSlow(len) ==
  CASE len < 6 -> Code(len, 0, 0)
    [] len \in 6 .. 129 -> ByTwoBits(len - 2, 2)
    [] len \in 130 .. 2113 -> ByOneBit(len - 66, 10)
    [] len \in 2114 .. 6209 -> Code(21, 12, len - 2114)
    [] len \in 6210 .. 22593 -> Code(22, 14, len - 6210)
    [] len >= 22594 -> Code(23, 24, len - 22594)

CopyCodeSlow(len) ==
  CASE len < 10 -> Code(len - 2, 0, 0)
    [] len \in 10 .. 133 -> ByTwoBits(len - 6, 4)
    [] len \in 134 .. 2117 -> ByOneBit(len - 70, 12)
    [] len >= 2118 -> Code(23, 24, len - 2118)

\* INSERT_CODES and COPY_CODES pack the base, bits and code of short lengths.
Packed(len, c) == (len - c.extra) * 2 ^ 16 + c.bits * 2 ^ 8 + c.code
Unpacked(entry, len) == Code(entry % 2 ^ 8, (entry \div 2 ^ 8) % 2 ^ 8, len - entry \div 2 ^ 16)

PackedBelow(short, len, c) == IF len < short THEN Unpacked(Packed(len, c), len) ELSE c
InsertCode(len) == PackedBelow(130, len, InsertCodeSlow(len))
CopyCode(len) == PackedBelow(134, len, CopyCodeSlow(len))

\* distance_code
DistanceCode(distance) ==
  LET d == distance + 3
      bits == Log2(d) - 1
      prefix == (d \div 2 ^ bits) % 2
  IN  Code(16 + 2 * (bits - 1) + prefix, bits, d - (2 + prefix) * 2 ^ bits)

\* The symbol of a command without a copy, the last of a meta-block: the
\* copy length is never used, and no distance follows.
InsertOnlySymbol(insertCode) ==
  IF insertCode < 8 THEN ImplicitSymbol(insertCode, 0) ELSE ExplicitSymbol(insertCode, 0)

(***************************************************************************)
(* mod.rs, for literal-only meta-blocks.                                   *)
(***************************************************************************)
InsertLengthPrefix(code) ==
  CASE code \in 0 .. 5 -> <<code, 0>>
    [] code \in 6 .. 7 -> <<6 + (code - 6) * 2, 1>>
    [] code \in 8 .. 9 -> <<10 + (code - 8) * 4, 2>>
    [] code \in 10 .. 11 -> <<18 + (code - 10) * 8, 3>>
    [] code \in 12 .. 13 -> <<34 + (code - 12) * 16, 4>>
    [] code \in 14 .. 15 -> <<66 + (code - 14) * 32, 5>>
    [] code \in 16 .. 23 ->
         <<<<130, 6>>, <<194, 7>>, <<322, 8>>, <<578, 9>>, <<1090, 10>>, <<2114, 12>>,
           <<6210, 14>>, <<22594, 24>>>>[code - 15]

InsertLengthCode(len) ==
  LET code == CASE len \in 0 .. 5 -> len
                [] len \in 6 .. 9 -> 6 + (len - 6) \div 2
                [] len \in 10 .. 17 -> 8 + (len - 10) \div 4
                [] len \in 18 .. 33 -> 10 + (len - 18) \div 8
                [] len \in 34 .. 65 -> 12 + (len - 34) \div 16
                [] len \in 66 .. 129 -> 14 + (len - 66) \div 32
                [] len \in 130 .. 193 -> 16
                [] len \in 194 .. 321 -> 17
                [] len \in 322 .. 577 -> 18
                [] len \in 578 .. 1089 -> 19
                [] len \in 1090 .. 2113 -> 20
                [] len \in 2114 .. 6209 -> 21
                [] len \in 6210 .. 22593 -> 22
                [] len \in 22594 .. MAX_META_BLOCK_SIZE -> 23
      prefix == InsertLengthPrefix(code)
  IN  Code(code, prefix[2], len - prefix[1])

CommandSymbolForInsert(code) ==
  CASE code \in 0 .. 7 -> code * 8
    [] code \in 8 .. 15 -> 256 + (code - 8) * 8
    [] code \in 16 .. 23 -> 448 + (code - 16) * 8

\* write_meta_block_len: as many nibbles as the length takes, at least four.
MetaBlockLen(len) ==
  LET significant == IF len = 1 THEN 1 ELSE Log2(len - 1) + 1
      nibbles == IF significant < 16 THEN 4 ELSE (significant + 3) \div 4
  IN  Bits(1, 0) \o Bits(2, nibbles - 4) \o Bits(nibbles * 4, len - 1) \o Bits(1, 0)

(***************************************************************************)
(* q1.rs: batches hold internal commands, of which 64 are symbols of the   *)
(* command alphabet and 64 of the distance alphabet.  A copy after literals*)
(* is an insert with a copy of two bytes, and one for the rest.            *)
(***************************************************************************)
INTERNAL_DISTANCE_REUSE_CODE == 64
INTERNAL_DISTANCE_CODE_BASE == 80
INTERNAL_NUM_EXTRA_BITS ==
  <<0, 0, 0, 0, 0, 0, 1, 1, 2, 2, 3, 3, 4, 4, 5, 5, 6, 7, 8, 9, 10, 12, 14, 24, 0, 0, 0, 0, 0, 0,
    0, 0, 1, 1, 2, 2, 3, 3, 4, 4, 0, 0, 0, 0, 0, 0, 0, 0, 1, 1, 2, 2, 3, 3, 4, 4, 5, 5, 6, 7, 8, 9,
    10, 24, 0, 0, 0, 0, 0, 0, 0, 0, 0, 0, 0, 0, 0, 0, 0, 0, 1, 1, 2, 2, 3, 3, 4, 4, 5, 5, 6, 6, 7,
    7, 8, 8, 9, 9, 10, 10, 11, 11, 12, 12, 13, 13, 14, 14, 15, 15, 16, 16, 17, 17, 18, 18, 19, 19,
    20, 20, 21, 21, 22, 22, 23, 23, 24, 24>>

\* emit_command keeps 24 bits of the extra value.
Internal(code, extra) == [code |-> code, extra |-> extra % 2 ^ 24]

\* emit_insert_len, emit_copy_len and emit_distance work out the codes of
\* insert_code_slow, copy_code_slow and distance_code again.
EmitInsertLen(len) == LET c == InsertCodeSlow(len) IN <<Internal(c.code, c.extra)>>
EmitCopyLen(len) == LET c == CopyCodeSlow(len) IN <<Internal(c.code + 40, c.extra)>>
EmitDistance(distance) == LET c == DistanceCode(distance) IN <<Internal(c.code + 64, c.extra)>>

\* A bug: the longest copies that have a symbol without a distance are taken
\* for two bytes longer.
EmitCopyLenLastDistance_Late(len) ==
  LET c == CopyCodeSlow(len - 2)
  IN  IF len < 74 THEN <<Internal(c.code + 24, c.extra)>>
      ELSE <<Internal(c.code + 40, c.extra), Internal(INTERNAL_DISTANCE_REUSE_CODE, 0)>>

\* emit_copy_len_last_distance: what two bytes leave of a copy.  Long copies
\* have no symbol without a distance.
EmitCopyLenLastDistance(len) ==
  LET c == CopyCodeSlow(len - 2)
  IN  IF len < 72 THEN <<Internal(c.code + 24, c.extra)>>
      ELSE <<Internal(c.code + 40, c.extra), Internal(INTERNAL_DISTANCE_REUSE_CODE, 0)>>

\* advance_distance_ring inverts emit_distance.
EmittedDistance(command) ==
  LET step == command.code - INTERNAL_DISTANCE_CODE_BASE
  IN  (2 + (step % 2)) * 2 ^ (step \div 2 + 1) + command.extra - 3

(***************************************************************************)
(* compressed.rs.                                                          *)
(***************************************************************************)
COMMAND_LENGTH_CODE_BASES ==
  <<<<0, 0>>, <<0, 8>>, <<0, 0>>, <<0, 8>>, <<8, 0>>, <<8, 8>>, <<0, 16>>, <<16, 0>>, <<8, 16>>,
    <<16, 8>>, <<16, 16>>>>

\* COMMAND_DISTANCE_CONTEXTS: the cells whose copy codes start at zero tell
\* copies of two, three and four bytes from others.
CommandDistanceContext(cell, low) ==
  IF cell \in {0, 2, 4, 7} THEN <<0, 1, 2, 3, 3, 3, 3, 3>>[low + 1] ELSE 3

INSERT_LENGTH_PREFIXES ==
  <<<<0, 0>>, <<1, 0>>, <<2, 0>>, <<3, 0>>, <<4, 0>>, <<5, 0>>, <<6, 1>>, <<8, 1>>, <<10, 2>>,
    <<14, 2>>, <<18, 3>>, <<26, 3>>, <<34, 4>>, <<50, 4>>, <<66, 5>>, <<98, 5>>, <<130, 6>>,
    <<194, 7>>, <<322, 8>>, <<578, 9>>, <<1090, 10>>, <<2114, 12>>, <<6210, 14>>, <<22594, 24>>>>
COPY_LENGTH_PREFIXES ==
  <<<<2, 0>>, <<3, 0>>, <<4, 0>>, <<5, 0>>, <<6, 0>>, <<7, 0>>, <<8, 0>>, <<9, 0>>, <<10, 1>>,
    <<12, 1>>, <<14, 2>>, <<18, 2>>, <<22, 3>>, <<30, 3>>, <<38, 4>>, <<54, 4>>, <<70, 5>>,
    <<102, 5>>, <<134, 6>>, <<198, 7>>, <<326, 8>>, <<582, 9>>, <<1094, 10>>, <<2118, 24>>>>

\* command_prefix, packed into a CommandPrefix of 16, 16, 5, 5, 2 and 1 bits.
CommandPrefix(symbol) ==
  LET cell == symbol \div 64
      bases == COMMAND_LENGTH_CODE_BASES[cell + 1]
      insert == INSERT_LENGTH_PREFIXES[bases[1] + ((symbol \div 8) % 8) + 1]
      copy == COPY_LENGTH_PREFIXES[bases[2] + (symbol % 8) + 1]
  IN  [insertBase |-> insert[1] % 2 ^ 16, insertBits |-> insert[2] % 2 ^ 5,
       copyBase |-> copy[1] % 2 ^ 16, copyBits |-> copy[2] % 2 ^ 5,
       context |-> CommandDistanceContext(cell, symbol % 8) % 2 ^ 2, reuse |-> symbol < 128]

\* read_distance, for symbols past the ring's: the extra bits of a symbol,
\* and the distance with them.
DirectDistance(symbol, ndirect) == symbol < 16 + ndirect
DistanceBits(symbol, npostfix, ndirect) ==
  IF DirectDistance(symbol, ndirect) THEN 0
  ELSE 1 + (symbol - ndirect - 16) \div 2 ^ (npostfix + 1)
DistanceRead(symbol, npostfix, ndirect, extra) ==
  LET adjusted == symbol - ndirect - 16
      high == adjusted \div 2 ^ npostfix
      low == adjusted % 2 ^ npostfix
      offset == (2 + (high % 2)) * 2 ^ DistanceBits(symbol, npostfix, ndirect) - 4
  IN  IF DirectDistance(symbol, ndirect) THEN symbol - 15
      ELSE (offset + extra) * 2 ^ npostfix + low + ndirect + 1

\* read_meta_block_header of a block that is not the last, read_meta_block_len;
\* zero is its error.  The last bit tells a stored block.
ReadMetaBlockLen(bits, stored) ==
  LET nibbles == Peek(bits, 1, 2) + 4
      exuberant == nibbles > 4 /\ Peek(bits, 3 + 4 * (nibbles - 1), 4) = 0
      len == Peek(bits, 3, 4 * nibbles) + 1
  IN  IF bits[1] # 0 \/ nibbles = 7 \/ exuberant \/ bits[Len(bits)] # stored
         \/ Len(bits) # 4 + 4 * nibbles \/ len > MAX_META_BLOCK_SIZE
      THEN 0 ELSE len
=============================================================================
