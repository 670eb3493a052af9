# Verification of burli

burli is a Brotli codec in safe Rust: a one-shot and two incremental decoders,
an encoder with a streaming front, a format for concatenating independently
encoded fragments, and bindings for five languages.  This directory holds TLA+
models of its stateful parts, the TLC configurations that check them, and
proofs checked by TLAPS.

    tlc -config PushDecoder.cfg MCPushDecoder     # one of the runs below
    tlapm DecoderProofs.tla                       # one of the proof modules

Definitions marked "a bug" or "mutant" are variations of a definition that a
plausible mistake would make; `PROJECT.json` names the property each breaks.

## The system

| Part | State | Operations | What makes it hard |
|---|---|---|---|
| `PushDecoder` (decode/push.rs) | input taken, checkpoint bit, window, history and unwritten output, state | `decompress(input, output)` | input and room cut anywhere; a step may run out of input at any bit and runs again |
| `MetaBlock` (decode/compressed/incremental.rs) | header, codes read, command-loop cursor | `step` | checkpoints only near the input's end; partly read block switches |
| `StreamDecoder` (decode/streaming.rs) | wrapped reader, chunk and position, a `PushDecoder` | `read`, `into_inner` | failing or idle readers, read-ahead past the stream |
| One-shot decoder (decode/stored.rs, compressed.rs) | output, distance ring | `decompress*`, `validate`, concat payloads | window and dictionary copies; limit |
| Prefix codes (decode/huffman.rs) | two-level tables | build, decode | table sizes, single-symbol codes |
| Bit I/O (core/bits.rs) | 64-bit buffer and the rest; sink, mark | read, peek, refill; write, rewind | bits above the count; the input's tail |
| `StreamEncoder` (encode/streaming.rs) | buffered chunk, bit writer, pending output | `write`, `flush`, `finish` | sinks that fail or write part |
| Encoder (encode/encode) | match-finder workspace, distance ring | one meta-block | the ring must stay in step with the decoder's |
| Contexts (encode, decode/context.rs) | reused buffers | compress/decompress into a buffer | errors leave the caller's buffer alone |
| Concat (cat/lib.rs) | staged fragments | push, push_all, finish | bit offsets, limits, partial batches |
| Ruby, .NET, Node, Python, wasm | the above plus held input/output | process/flush/finish | locks and the GVL; async writes; cancelled calls |

A `StreamDecoder` calls its `PushDecoder`, which runs `MetaBlock` steps over
`BitReader`; the bindings call `PushDecoder` and `StreamEncoder`.  The decoder
and encoder meet only in the stream: in the distance ring both keep, in the
prefix codes one writes and the other reads, and in the fragments that Concat
puts one after the other.

## Modules

| Module | Models |
|---|---|
| `DecodeStream` | a stream as a chain of elements by bit position, and its one-shot decode: `OneShot`, from `decompress_into_empty_with_limit` with `finish_stream`, of all the input, and `Decoded`, of the input cut at the stream's end |
| `DecodeContract` | abstract: output is delivered piece by piece, the verdict after the last byte |
| `PushDecoder` | `PushDecoder::decompress`, with every path of its loop and of `step` |
| `StreamDecoder` | `read`, `read_more_input`, `into_inner` on top of `PushDecoder` |
| `EncodeContract` | abstract: the sink decodes to a prefix of the accepted input, to all of it after a flush |
| `StreamEncoder` | `write`, `flush`, `finish`, `into_inner` and the draining of `pending_output` they share |
| `DistanceRing` | the decoder's ring of last distances and what a distance symbol means by it |
| `MetaBlockBody` | a compressed meta-block as its parts, and `decode_commands`, the one-shot command loop, as a function of its turns (`Turn`, `OneShot`) |
| `MetaBlock` | the same loop in `compressed/incremental.rs`, in steps with checkpoints |
| `EncoderRing` | the encoder's ring through every way it writes copies, with a decoder of the bits so far |
| `Concat` | `encode_fragment`, `push`, `push_all`, `finish`, `assemble_rfc7932_parts`, and a reader of the assembled bits |
| `BitCursor` | abstract: a position in the input |
| `BitReader` | the 64-bit buffer, its refills and every operation |
| `PrefixBits`, `PrefixTables`, `PrefixWriter` | what both sides share; the decoder's lists and tables (huffman.rs); the encoder's lengths, codes and headers (prefix_code.rs and the writers of encode/mod.rs) |
| `Tokens` | what the matchers share: input, tokens, and a decoder of tokens that copies byte by byte, from its output or the static dictionary |
| `Searchers` | the matchers of q2 to q5, which search every position for the best match and may defer it |
| `Scanners` | those of q0, q1 and q2's sparse search, which take the first match; one-pass blocks with their rewind |
| `Collectors` | one or the other over an input |
| `PrefixCodes` | writers append codes to a stream, a group reads them; the format's own rules for headers of other encoders |
| `FixedCodes` | the constant codes and headers of fixed_codes.rs and of the static commands |
| `CommandCodes` | lengths and distances as symbols and extra bits, in each of the encoder's ways, and the decoder's tables for them |
| `Commands` | the writers of tokens plan meta-blocks and write them; a decoder reads commands with the counted symbols' codes |
| `BlockHeader` | what a compressed meta-block says before its commands: block categories, context maps, distance parameters, codes |
| `ContextLiterals` | the encoder's literal-only meta-blocks, with one code or with one by context, and how contexts share codes |
| `LiteralBlocks` | whole meta-blocks bit by bit: those of `ContextLiterals` and of other encoders, read by `decode_commands` |
| `EncodedBlock` | all three, as one specification: codes, commands written with them, whole blocks |
| `RubyBinding` | threads that share a `Compressor` or `Decompressor`: the GVL, the mutex, String locks, interrupts, panics |
| `MC...` | the instances of the runs (`encoder_ring` runs `EncoderRing` itself) |
| `DecoderProofs` (of `PushDecoder` and `StreamDecoder`), `StreamEncoderProofs`, `MetaBlockProofs`, `EncoderRingProofs`, `BitReaderProofs`, `RubyBindingProofs`, `CollectorsProofs`, `ConcatProofs` | theorems |

`StreamDecoder` extends `PushDecoder`; `MetaBlock`, `EncoderRing` and `Concat` use
the one `DistanceRing`, `PrefixCodes` composes writer and tables, and `Collectors` runs the matchers of
`Searchers` and `Scanners` over `Tokens`.

### How the push decoder's model corresponds to the code

Bytes are counted, not stored.  `encoded` becomes `first` (the stream position
of its first byte) and `held` (its length); the bit at the checkpoint is
`At == 8 * first + bit_pos`.  What the decoder reads there is the element that
the *stream* has at `At`: an element is what the code reads between two places
it can stop (window header, meta-block header, prefix code, command header,
literal, block switch, copy).  Decoding from a wrong bit finds no element, so
an error in the bookkeeping shows.  An element carries whether it is malformed,
where it ends, and the output it makes; code lengths, symbols and byte values
are abstracted.  `WellFormed` states what the chain looks like; TLC evaluates
it for the streams of the runs and the proofs assume it.

`output` is its length `out_len`, with `output_base`, `written` and `decoded`
as in the code.  `pc` says where in `decompress` the call is: every turn of its
loop is one or two actions, so the loop's early returns are separate actions
with the code's guards.  `progress` is `Return`, `compact_output` is `Dropped`
and `Compact` (run on *every* attempt at a meta-block header, also on one that
runs out of input), `release_output` is in `ReturnFinished`.

The command loop of a compressed meta-block is one action per way it ends
(`BodyStop`, `BodyRunOut`, `BodyReject`, `BodyDone`): at the first command at or
past `stop_at`, at the first element the input is too short for, at the first
malformed element (or copy the history cannot serve), or at the end.  Where
the code's result depends on how far ahead it zeroed the output (`grow_room`)
or on which checkpoint it took last before an error, the model leaves the choice
open within what the code can produce.

### The Read adapter

`StreamDecoder` extends `PushDecoder`: a `read` drives `Call` and the decoder's own
steps, with the chunk as input.  The wrapped reader gives any number of bytes
up to the chunk size, or nothing, or an error, each time it is asked.  A read
with an empty buffer does nothing and is left out.

### The Write adapter

`StreamEncoder` counts bits and bytes.  The writer is `bit_len`, all it holds:
`take_full_bytes` moves the whole bytes to pending output and leaves
`bit_len % 8`.  `total` and `ends` are history: how many bits have been encoded,
and where each chunk's encoding ends.  What a decoder gets out of the sink
(`Decodable`) is the input of the last chunk whose encoding the sink has to the
last bit; bytes the encoder holds back are not counted.

A call is `Write`, `Flush` or `Finish` and then its `stage`s: encode the chunk,
align or end the stream, return.  `write_full_bytes` and `write_final_bytes`
drain twice, before and after they take the writer's bytes, so `io` is "held"
and then "new" while they run; `finish` is the one call that encodes *before* it
drains.  In a drain each answer of the sink is an action: it takes some bytes
(`SinkTakes`), or it fails or takes none (`SinkFails`), which ends the call with
everything left where it is.  `finish` consumes the encoder also when it fails.

A write with an empty slice returns 0 and is left out, and `Interrupted` only
asks again.  Errors of the encoder proper are left out: the constructor rejects
the options that cause them.  `get_mut` hands out the sink; what its caller does
with it is not modelled ("Writing to it directly corrupts the stream").

### Meta-blocks in steps

`PushDecoder` knows of a compressed meta-block only where it may stop.  `MetaBlock`
is the loop inside: the input is a sequence of parts (header, prefix codes, block
switches, command headers, literals, distances), each of some bits and written for
one block type, so that reading a part as another kind or with the code of another
type shows.  The reader's place is the index of the next part; `avail` counts the
bits that have arrived, and a part is read only when all of its bits have.
`bit_pos` and `cursor` are the checkpoint, `c` the step's copy of the cursor, and the
`checkpoint!` macro is `Checkpoint`.  The block types in force are not in the cursor:
they live in `header`, which a step changes in place, and a block switch changes
them before it reads its count.  When the count has not arrived the step ends,
and the next one restores the types from the checkpoint (`Restored`) but not what
the header remembers of the last count.  Errors leave by `tri!` (`Fail`).  A step
may be told to stop at any command, as for output room.  `OneShot` is the loop of
`decode_commands` with the whole input, in turns of one part each.

### The encoder's ring

The encoder never decodes, so every way of writing copies advances a ring of its
own, some with a copy that only a successful block hands back, some by looking at
the copies they kept when the meta-block ends.  `path` names the way in progress
(the module's header lists them), `ring` is the workspace's, `view`, `last`, `recent` and
`kept` are what the ways keep.  Which copies are found is left to the input: any
of a set of distances, at any position, or a dictionary word where the search
uses one.  `decoder` is the ring and position of a decoder that has read all that
was written, and `mark` the same at the writer's mark, so that a rewind takes the
decoder back too.  Distance symbols are computed as `compute_distance_code` does,
from the nibbles of its two constants.

### Match finders

The encoder has some twenty loops that find matches, most of them instances of a
few generic functions.  A model of one is a record of what makes it different
(`Q2Engine` to `Q5Engines`; `OnePass` to `CollectTokens`): its hash, the slots of a
key, what it probes and in which order, how it scores, whether and how far it defers a
match, which positions of a copy it stores.  `Search` is a `find_match` from start to
end: candidates one by one, each compared with the best so far.  What it found waits
in `found` while `SearchNext` looks at the next position, and `Defer` or `Settle`
decides; storing the positions of a copy is a run of steps (`StoreNext`) like the
code's loops.  In `Scanners`, `ScanLast`, `ScanEntry` and `ScanOn` are the turns of a
scan, `EndCopy` to `Chain` what follows a copy, and the block actions are
`write_long`'s: a block that does not fit is taken back (`RunOut`) and stored later.

Bytes are real here, and so are positions, hashes (which collide) and distances.
What is left out: the order of loads and the packing of scores and entries into
words, unless it changes the result; allocation and reuse of tables (a table is empty
when a matcher begins, which the code ensures by clearing or a fresh base); and the
symbols that lengths and distances are written as, which are `Commands`' and
`EncoderRing`'s.

### Fragments

A payload is a sequence of cells, one per bit, each naming its meta-block and
the bit's index in it: joined at a wrong place, cut or padded, it reads as nothing.
A fragment's sidecar is what its checks tell apart; the check sum, version and
flags are one flag (`sound`).  Fragments come from `encode_fragment` or from elsewhere
(`Received`), among those ones that no encoder here writes and ones that must be
refused.  `stream` holds what `finish` or `assemble_rfc7932_parts` wrote, and `Stream`
decodes those bits like the one-shot decoder, from any bit.  The loops that read and
write are recursive functions over the turns taken or what has been written:
`LocalTurns` reads a payload and `Turns` a stream, in one turn more than meta-blocks begin
in it (`BlocksBegun`); `Bodies` and `PartBodies` append fragments and parts.  A word of the static dictionary stands for its bytes, as one
number below zero that says which word it is.

### Ruby threads

A Ruby thread runs only with the GVL, and the model's `gvl` is the thread that has
it.  A call begins, tries or waits for the mutex, releases the GVL or (an interrupt
waits) fails to, works, regains the GVL and returns; between any two of these other
threads run and change Strings that are not locked.  `input` says whether the call
borrows the String's bytes or copied them.  Any call may panic with the mutex, and
poisons it.  The push decoder inside is the contract that `PushDecoder`'s properties
establish, over streams of a few elements; the encoder takes bytes and gives out
what decodes to them.  The Ruby-side loops `Reader` and `Writer` are left out.
`with_mutex`'s doc says a call waits without the GVL; with an interrupt pending it
waits with it.  That is harmless, since whoever has the mutex releases it before
it asks for the GVL: `CallsReturn` would fail otherwise, and does when the guard
outlives the work (its mutant).

### Bits

`BitReader`'s buffer is a function from 0 .. 63 to bits, since the bits above the count
matter: `refill` ORs whole words over them.  `next` counts the bytes loaded, so the
position is `Pos == 8 * next - bit_count`.  `BitCursor` has no buffer.

### Prefix codes

The state machine is thin and the algorithms are operators.  `WriteLengths`,
`WriteGeneral`, `WriteFastDense` and `WriteBalancedDense` are the encoder's writers for
any counts, `WriteQ1Commands` codes 64 internal commands in the order of the 704
symbols they stand for, and `WriteForeign` appends a header of another encoder, given
by its code lengths or symbols, with what RFC 7932 says of it: the meaning, and
whether it is well formed.  A header remembers its meaning, and the reader never
sees it.  `ReadShared` is `CodeGroup::read`, whose codes reuse one `SymbolLists`; `ReadOne`
is `read_code` on input that arrives in bytes and may have to start over.  Entries
have absolute positions in the group's one buffer, as in the code, so a table in the
wrong place overlays another code.  The in-place Huffman pass keeps its three roles
of one array.  The constant headers of `FixedCodes` are read like any other.

### Commands

`Commands` is everything between a token (literals, then a copy or the end) and the
symbols of a meta-block.  `CONSTANTS` name the writers: `tokens::Writer`, which counts as it
takes tokens, splits and merges them and writes with codes made from its counts; the two-pass writer with
64-bit commands; the one-pass writer, with codes seeded from the block before; q1's
batches with an internal alphabet; and a foreign encoder, which may use every symbol the format has.
`writer` is what such a writer holds, `meant` what the tokens it took say, in order.
A meta-block goes to `blocks` as its length, the symbols that have a code, and its pieces
(symbols, extra bits, literals).  `reader` decodes it as `decode_commands` does and must
come to `meant`; a symbol without code, bits that do not fit their width or room
planned for other pieces than those written break `BodyAsPlanned`.  Bits are numbers of
a width here: that a symbol's bits give it back is `TablesDecode`.

### Whole blocks

`Commands` leaves bits and contexts out; `LiteralBlocks` has both.  A job is a list of inputs
to encode, or a stream that another encoder could have written.  The writing actions are
the turns of `write_meta_block_copies` where matching finds little: `WriteShort`, `WriteStored`
and `WriteFastParts` for blocks of one code, `StartContexts`, `MergeCodes`, `LookAtAllPairs` and
`WriteContexts` for a chunk whose contexts share codes, which is stored if it takes
more bits than that.  `MergeCodes` merges any pair the code may look at: which two cost
least is a cost model.  The bytes are such that `is_low_compressibility_block` would hold;
it is not evaluated.  `BeginBlock` is `BlockHeader`'s `ReadHeader` and `ReadCodes`; `RunCommand` is a turn of
`decode_commands`, with the reader's state as in the code: for each category its types,
the two last and how many elements remain; for literals the tables of the block type in force
(the context map looked up once per switch), a single symbol that needs no bits, and the
wide table of a group of one tree.  A run of literals that surely fits is read without
checks (`trusted`), and reading past the end then shows as "overrun".  A cut stream
must fail or be short, never wrong.  Streams hold no dictionary words and end with an empty meta-block.

## Runs

| Run | Shows |
|---|---|
| `push_decoder` | all splits of ten streams |
| `stream_decoder` | five streams through readers that fail or are empty |
| `stream_decoder_unwrap` | a violation, see Findings |
| `stream_encoder` | writes, flushes and a finish over a sink that takes part or fails anywhere |
| `meta_block` | eight meta-blocks, well formed and not, in all splits and with all stops |
| `encoder_ring` | all sequences of meta-blocks of all kinds over 40 bytes of input |
| `concat` | all sequences of up to three fragments, made and received |
| `concat_stored` | a violation, see Findings |
| `collectors` | twenty-four matchers over some 130 repetitive inputs |
| `ruby` | two threads, three calls, a shared String, interrupts and panics |
| `bit_io` | all sequences of operations on four inputs |
| `encoded_block` | all code writers on some 300 sets of counts, and over a thousand headers of other encoders; all command writers on pairs of tokens with lengths and distances at every boundary of a code; fourteen lists of blocks and foreign streams, bit by bit |

Bounds.  A call offers any part of the input left and 0 to 2 bytes of room, so
every element is reached with room for none, part and all of it.  `InputPiece`
is 2 (64 KiB in the code): calls that offer more take several pieces.  `Slack`
and `ZeroAhead` are 1, enough to tell grown from decoded output.  Windows are 2
and 4 bytes, with meta-blocks longer than the window, so history is dropped in
the middle of streams and a copy reaches the oldest byte kept.  Limits 6 and 7
are just below and at the largest output.  `ChunkSize` is 3, so a chunk may end
within a header, an element or a payload, and past the stream.  Nothing else is
bounded: a stream's length bounds the behaviour.  For the encoder: blocks of 2
bytes and 5 bytes of input, so chunks are full, partial and split by flushes,
and up to five of them follow each other; window headers of 1 and 7 bits and
chunks of 11 and 16 bits, so the stream passes through every bit offset that
matters (aligned, one short of a byte, in between) and an alignment takes from 6
to 13 bits.  A chunk's encoding is longer than a byte in every quality (its
header alone is); `StreamEncoderAssumption` says so.

`MetaBlock`: `StepBits` is 7, more than a switch (3 bits) and what follows it (3), as
`STEP_BITS` 128 is more than 54 + 63; pieces of 1, 2 and 5 bits end in every part.
The blocks have switches in literal runs and before commands and distances, types
that cycle, copies from all dictionaries, and four errors.  `EncoderRing`: distances
near each other and near the initial ring (4, 5, 11, 16) and one past the
window of 16, literal runs of 0 and 12, so that copies repeat, use every kind of symbol
and become dictionary words; 40 bytes are several meta-blocks.  `Concat`: a window
header of 4 bits (payloads do not start at a byte), a window of 3 bytes, limits that
three fragments can pass (5 bytes of input, 8 assembled) and one received fragment of
every kind the checks tell apart.  `RubyBinding`: a room of 2 bytes, so that output takes
several turns, a GVL threshold of 3, so that calls fall on both sides, limits that
stop output and that do not.  `BitReader`: inputs of 0, 3, 10 and 17 bytes are shorter
than a word, one word and a tail, and two words and a byte; widths 0, 1, 13, 24 and 56.
`EncodedBlock`: roots of 3 and 5 bits for 8 and 10, limits of 7 and 6 bits for 14 and
11, so that second-level tables and raised counts need few symbols; lengths, tables
and run codes of the format are the real ones.  Counts are every mix of common and
rare symbols, Fibonacci numbers (the deepest codes), runs at the lengths where
repeats change form; foreign headers are all token lists that do not end early.  Lengths and distances of
tokens are the least, the largest and both sides of each boundary of the format's
codes, up to the largest meta-block.  Its blocks: the lengths from which a block is
matched, stored or coded by contexts are 4, 8 and 16 bytes, chunks 28 to 96 bytes,
every eighth, fourth or second literal counted for 1024, a wide root from 40 literals for 4096,
fast codes of 9 bits for 14, so that each path is taken, sampled counts miss
literals that occur, and a chunk falls on either side of the stored form.  Foreign blocks
have up to three types of each category that cycle, every context mode, context maps of one
tree, plain, in runs and moved to front (their own codes of four symbols at most, in the
simple form), postfix and direct distances, and five ways of being malformed; two jobs are
cut at every byte.
The run takes 334 000 states and about three minutes.
`Collectors`: inputs of up to 52 bytes, made of phrases of 5 to 13 bytes that repeat
near and far, with a run of one byte and words of 4, 6 and 14 bytes that are whole, cut
or begun in them; a window of 16 and reaches of 8 and 12, shorter than the input;
tables of 16 entries and a hash under which phrases collide; patience of 3 misses for
the code's 32, sparse search after 2 for 64, long matches from 6 for 64, blocks of 4
positions for 8 and 16, long blocks of 13 bytes.  The margins, the least lengths and
the scores are the code's.

`CHECK_DEADLOCK FALSE` in the runs of `StreamDecoder`, `StreamEncoder`, `MetaBlock`,
`EncoderRing`, `EncodedBlock` and `Collectors`: a program that has read or written all stops.

Properties of `push_decoder`, and what would break them:

- `SlicesInRange`: no slice index of `decompress` is out of range.
- `InputConserved`: every input byte goes in once, whatever is handed back.
- `HoldsOnlyTheStep`: the decoder keeps only what the step that ran out has read.
- `ResumesInPlace`: a step starts at the bit and output position of an element
  of the kind its state reads.
- `HistoryCoversWindow`, `HistoryBounded`: no byte in the window is dropped, and
  history is bounded by twice the window and a meta-block.
- `Settles`: following the statuses reaches the end.
- `OneShotDecode`: a refinement: `DecodeContract` with `Decoded` as goal.  It says
  that what is delivered never exceeds what one-shot decoding of the stream gives,
  that the verdict is its verdict and comes with the last byte.  The stream, not the
  input: `decompress` rejects bytes that follow the stream (`finish_stream`,
  stored.rs:352; tests stored.rs:441, streaming.rs:219), the push decoder leaves them to
  its caller.  The second part (`VerdictAgrees`, of every step that gives a verdict)
  compares with `OneShot` of all the input: the same output, an error for an error, and
  for a finished stream an error exactly when the push decoder has not consumed all input.

Of `stream_decoder`: `ChunkFollows` (nothing of the reader is skipped or offered
twice), `TrailingInputSurvives` and `UnwrapLosesNothing` (`into_inner`),
and the same for `read` (`OneShotRead`, `ReadSettles`), with the same exception.  That `read` never
returns nothing for ever (`NeverSpins`) is proved and not checked.

Of `stream_encoder`:

- `StreamConserved`, `InputConserved`: sink, pending output and writer hold every
  bit of the stream once; accepted input is encoded or buffered, once.
- `DecodableOnFlush`: a refinement of `EncodeContract`: after a flush or finish
  that succeeded everything is decodable, and "an error always leaves the
  caller's current slice unconsumed" (streaming.rs:179).
- `Delivers`: a caller that keeps flushing gets its input through.

That retried or repeated flushes add one metadata block at most (`OneAlignment`) is proved
(`AlignsOnce`) and not checked: `DecodableOnFlush` would hold of a second block too.

Of `meta_block`:

- `ReadsInForce`: each part is read as what it is, with the code of the type it was
  written for.  Types not restored, or restored without their history, break it.
- `MirrorsOneShot`: however input arrives, the same output, error, ring and place as
  `decode_commands`.
- `RedecodesOnePart`: a step that runs out is at most one block switch past its
  checkpoint; a `STEP_BITS` too small breaks it.

Of `encoder_ring`: `CopiesDecode` (the decoder copies from where the match was found),
`RingCarried` (between meta-blocks both rings are the same, also after a block was
taken back); that also within one the collector picks symbols by the decoder's ring
(`CollectorFollows`) is proved and not checked.

Of `concat`: `AssembledDecodes` (what was accepted decodes to the contents in order),
`PartsStandAlone` (from any fragment on, with nothing before it) and `FinishNeverFails`
(a `push_all` that fails half-way leaves an assembler that finishes).

Of `ruby`: `ReturnedExact` (every output byte once, in order, and `unused_data` the rest,
whatever calls interleave or raise), `InputStable` (a call works on the bytes it was
given) and `CallsReturn` (no deadlock of mutex and GVL).

Of `bit_io`: `BufferTrue` (bits above the count are the input's, so ORing over them is
harmless) and `ReadsInput`, the refinement of `BitCursor`.

Of `encoded_block`: `TablesDecode` (every code of a group decodes what its writer
encoded, whatever follows), `FollowsFormat` (headers are read to their last bit, and
refused exactly when the format refuses them), `CheapestCode` (lengths within the limit,
and optimal whenever a Huffman code cannot be deeper than the limit: it needs a total
of at least a Fibonacci number to be), `FitsReserve` (unchecked writes stay in the
room made for them), `CommandsDecode` (the commands read are the tokens that were
given, split and merged as they may be) and `BodyAsPlanned` (every symbol written has a code, every number of
extra bits fits them, and the counts the room was made by are those of what is written),
`BlocksDecode` (a stream of blocks decodes to its input, to the last bit, whatever types, maps and
modes are in force; a cut or malformed one gives a prefix and no unchecked read past its end) and
`CodedWhenItFits` (a chunk is taken back exactly when a stored one is shorter, and literals
take the room planned for them).

Of `collectors`: `TokensReproduce` (the tokens decode to the input, at each step and at
the end) and `LoadsInBounds` (no load past the input, which the code would panic on).

The type invariants of `PushDecoder`, `StreamDecoder` and `StreamEncoder` are part of the
proved invariants.

Fairness.  `decompress` and `read` are loops that run to their end, so their
steps are weakly fair.  The callers are fair as well, and that is an assumption
about them: `Settles` asks for calls with room, and with input while there is
some (strong fairness, since a call in progress disables the next); `ReadSettles`
that reads go on, and that a reader asked again and again gives bytes at some
point if it has any.  `Delivers` asks for a caller that flushes again and a sink
that, asked again and again, takes bytes and flushes at some point.  In `RubyBinding` a call
takes its steps (weak fairness: a thread that can go on does).  The GVL is handed
to waiting threads in turn, hence strong fairness of regaining it; `std::sync::Mutex`
promises its waiters no turn, so taking it is only weakly fair: that it is free from
some time on must do.  New calls are no obligation.

## Proofs

`DecoderProofs` proves, for every set of well-formed streams and every value
of the other constants (`PushDecoderAssumption`), the inductive invariant `IInv`:
the checked `TypeOK`, `SlicesInRange`, `ResumesInPlace` and `HistoryCoversWindow`, none
of which is inductive alone, with four more conjuncts.  `HeldInv` ties the bytes
held to what the caller offered; `CallInv` ties the call's locals to its place in
the loop; `OutputInv` orders `written`, `decoded` and `out_len` in each state;
`BlockInv` ties `block`, `window` and the decoded output to the stream's element.
The argument: a step reads the element the stream has at the checkpoint and
moves to that element's end, where by `WellFormed` the next state's element
starts; steps that stop, run out or fail move to the start of an element they
reached, by the chain property of the meta-block.  `BodyReaches` steps use that no
element overlaps another.  From `IInv` follow the theorems named in
`PROJECT.json`: type correctness, slices in range, resumption, the window,
input conservation, that `NeedsOutput` is returned only when room was used, that no legal copy fails for history
(`LegalCopiesSucceed`), and the action property `ErrorIsFinal` (`ErrorStays`): once returned, the
error is returned by every call.

The second part of the module builds on `IInv` and proves what the decoder promises the
caller as a whole.

- `HistoryBounded` (`BoundsHistory`) bounds what is held by the meta-block at hand, whose
  output begins after two windows at most; `HistInv` adds the latter, which compaction
  establishes before each meta-block and nothing in it changes.
- `HoldsOnlyTheStep` (`HoldsLittle`).  Input is held only because a step ran out.
  `HoldInv` keeps that fact until the step runs again: the element at the checkpoint
  needs more than the bits that were held before this call's input (`HeldBefore`).
- `OneShotDecode` (`DecodesAsOneShot`), the refinement.  Cutting the input at the stream's
  end changes nothing up to there (`CutFacts`, `CutEnding`), so the goal is how far the
  one-shot loop comes, before its check for bytes that follow (`GoalIs`); that check
  is what tells the decode of all the input from it (`InputDecodeIs`), and a decoder
  that is done has consumed the stream and no more (`DoneConsumed`).  The loop stops at the
  first element that it rejects, that passes the limit or that the input is too short
  for (`TheEnding`).  `PlaceInv` says that the push decoder has passed no such element:
  wherever it stands, the way there from bit 0 is on the chain of elements
  (`OnChain`) and nothing on it stops (`Passed`).  When a step fails, it is at that
  element, hence at the same output; `DeliveredInv` and `FinishedInv` carry this through
  the delivery of the output.  That the first such element exists, and is one only, is
  an induction along the chain, made of the set of starts passed so far.

The last part of `DecoderProofs` is about `StreamDecoder`.  It proves that every step of the adapter is a step of the push
decoder or leaves it alone (`StreamImplementsPush`), so the push decoder's
theorems hold of it, and its own invariant: `ChunksFollow`, `UnwrapKeepsInput`,
`ReadNeverSpins` and `UnwrapKeepsTrailing` (`TrailingInputSurvives`: a decoder that
finished stands at the stream's last byte, by `PlaceInv`, and has given back the rest of its
chunk).  `ReadsAsOneShot` is the refinement of the contract by `read`: `GotInv` says that what
reads have returned is what the push decoder has delivered, except while a read is
on its way, and `OutcomeInv` that a read's verdict is the push decoder's, and comes
when all that it delivered has been read.  The comparison with all the input follows from
the push decoder's.

`StreamEncoderProofs` proves, for every block size and every set of header and
chunk lengths, the invariant `EInv`: the two ledgers (`StreamConserved`,
`InputConserved`), each call's stages (`CallInv`), what they have drained
(`DrainInv`: only a finish that has just begun may find old output), the chunk
ends (`EndsInv`) and the tail after the last of them (`TailInv`).  The ledgers alone
say nothing about a flush: that all input is decodable when it returns needs that
by then nothing is buffered, pending or left in the writer, which is what
`CallInv` and `DrainInv` carry through the call.  From it follow the ledgers,
`AlignsOnce`, and `ImplementsContract`: `StepImplements` maps each step to one of the
contract's or to a stutter (encoding a chunk is one, since its end lies beyond
the sink; a sink that takes bytes may reveal input).  `Decodable` is a maximum,
whose existence is `BoundedSetHasLargest`.

`EncoderRingProofs` proves, for every set of distances, window, literal run and input
bound, both properties of `encoder_ring` and `CollectorFollows`.  They are not inductive: in the middle
of a meta-block the rings differ.  `RingInv` says of each way of writing what the
end of its meta-block *will* make of the ring: what the circular ring of
`tokens::Writer` holds, what the scan of kept copies will find, or what the mark would
restore.  Lemmas say that one more push moves the four newest by one, for the
circular ring and for the scan, and `CodeResolves` that the symbol picked for a
distance means that distance, for every ring.

`BitReaderProofs` proves, for every input and all widths up to 56, that `BufferTrue` is
inductive and that `BitReader` implements `BitCursor` (`ReaderImplementsCursor`): each
operation returns the bits at the position, and fails exactly past the end.
`RefillTrue` is the heart: the word ORed over the buffer agrees with what is above
the count, and afterwards there are 56 bits or all that remain.

`RubyBindingProofs` proves, for every set of threads and Strings, every input, room,
threshold and limit, the two safety properties of `ruby`.

- `StringsStable` (`InputStable`).  The property looks at the bytes a call works on; the
  invariant `LockInv` says why they hold: a borrowed String is one nobody can change,
  since its thread has the GVL or has locked it (`HoldsBytes`), and a copy was
  made before the GVL was let go.  `MutexIsLetGo` follows from the same invariant: whoever
  owns the mutex is running, never waiting, which is the reason that there is no
  deadlock.
- `ReturnsExactly` (`ReturnedExact`).  `Exact` relates the object to everything it was given
  and everything it returned: the held tail, the unused data and what is in the decoder
  are the input not yet accounted for, and the decoder's output so far is what was
  returned.  It is kept by `process` whatever `decode` takes in its turns (`TurnKeeps`,
  `ProcessKeeps`), and `DecodeLoopEnds` says that the loop of `decode` comes to an end within
  `limit` turns, with all of its input consumed, kept in the tail, or left over.

`MetaBlockProofs` proves, for every set of meta-blocks, every way their bits arrive and
every output position to stop at, the three properties of `meta_block`.  All come from
one invariant, `StepsAreTurns`: what a decoder in steps goes through are turns of
`decode_commands`.

- `Preparing` follows the header and the codes up to the loop's start; `Decoding` says
  that the checkpoint is a state that the one-shot loop visits (`Saved`: the same part,
  output, ring, block lengths, types and what is left of the command) and that a step at
  work is at such a state too (`Current`); `Ended` that the verdict is that of the last
  one.  The checkpoint's state is reached again and again with more input, so the
  invariant cannot name the number of turns; it names the set of states visited (`Visits`).
- `header` is what steps share and leave dirty: it holds the types of whatever the last step
  read, and a switch cut between type and count changes it too.  Nothing is said of it
  while the decoder is idle, since `BeginBody` restores the types; the lengths come from
  the cursor (`PartsReadInForce`).
- A run of literals is one step here and many turns there: `ReadLiterals` takes as
  many turns as it has literals, and none of them switches, since the run ends where
  the block does.
- `Behind` is what `OnePartAgain` needs: a step without a checkpoint has `StepBits` of input
  from the last one on, or the block switch just before.

The theorems assume of each meta-block that its parts are what the loop reads there,
under the type that is in force (`WellFormed`, `InForce`), and that no part is longer than
its bound (`Covered`).  Values may be anything: bad block types, runs and copies past
the end, invalid distances are all included.  TLC evaluates both for every meta-block of
the run.

Recursive *functions* occur in these proofs: `decode`'s loop and the decoder's output
in `RubyBinding`, over the number of turns and the length of the input; where parts begin,
copies byte by byte and the loop's turns in `MetaBlock`.  Their existence and what they
compute are proved by induction in the form of sets: a set of naturals that has 0, and
n + 1 whenever it has n, has them all (`AllNaturals`, from the well-founded order).  That
form takes no operator as a parameter.

`CollectorsProofs` proves, for every input, base, hash, dictionary, window and size of the
tables, both properties of `collectors`.  A matcher holds matches it has not written and puts
them off for better ones; `TokensReproduce` speaks only of what the decoder wrote.  `IInv` adds what is true in between:

- `GoodToken`: a match in `best`, `found` or at `candidate` repeats the input at a
  distance within reach, or spells a word of the dictionary that is the input there.  Candidates
  (`GoodCandidate`) are any stored position or last distance: the matcher checks the bytes, so
  that the table may hold anything below.  Scores say which match is taken, and nothing
  rests on them.  That `MatchLen` is a maximum that exists is `BoundedSetHasLargest`.
- `CopyTrue`: what is left of the decoder's copy is what the input has next, so that a
  copy that overlaps itself goes on to be right, byte by byte (`CopyGoesOn`).
- `EntriesBelow`: the scanners' tables are not cleared between blocks, and their entries
  must lie behind the position for the distance to be one; the block invariant says so
  across blocks, the rewind of a stored block included.
- `WordIsGood` is arithmetic: the transform that `CutTransform` picks from its constant is, for
  every cut up to nine, the one with which `Transform` leaves off that many bytes, and
  the decoder finds from the distance the same length, index and transform.

`LoadsInBounds` follows from the limits each loop checks, with `engine.ahead`, `margin` and `least`
as the code has them.  The theorems assume of an engine or a scanner what
`SearchersAssumption` and `ScannersAssumption` say (for instance that a scanner over blocks
starts no block shorter than it will look ahead), of the dictionary that its words have
their lengths, of a hash that it is a number.  TLC evaluates all of it for
the run's twenty-four matchers.

`ConcatProofs` proves, for every set of meta-blocks, received fragments, inputs and limits, the
three properties of `concat`: `FinishSucceeds` (`FinishNeverFails`), `DecodesInOrder`
(`AssembledDecodes`) and `StandsAlone` (`PartsStandAlone`).

- The inductive invariant `IInv` says that whatever is staged was made or received, and is
  valid and within the cap together; and that the stream written last is the one of
  what is staged now or the one of some parts.  (That, too, has been checked with TLC on
  the run's instance before it was proved.)  The actions are simple; the work is in what a stream of
  that form *reads as*.
- `PayloadFollows` is the heart.  What a payload reads as by itself, a decoder of the whole
  stream reads there too, bit for bit, whatever it has decoded before and wherever the payload
  begins: reading depends on what comes before only through copies and the ring,
  and a payload that passed `LocalOnly` has copies from its own output only, with distances
  spelled out and never taken from the ring (`CopyOutFollows`, `OpFollows`); a word past the
  window is the same word in both, since both windows are full by then.  A stored
  meta-block asks for the same bit within a byte as well (`StoredFollows`), which `Misplaced` is about; the Findings have the case where it fails.
- `StreamDecodes` puts bodies one after the other: each leads from where it starts to where the
  next one does, and the trailer ends the stream (`StreamEnds`).  `FragmentsDecode` applies it to what
  `finish` writes, `PartsDecode` to `assemble_rfc7932_parts`, whose parts end with an
  empty metadata block at a byte.  The same from the i-th body on gives `StandsAlone`.
- The loops are unfolded by `Recursion` and `StaysIn`: that a function over 0 to n exists whose
  value at each place follows from the one before, and what set its values stay in.

Assumed (`ConcatAssumption`) is that meta-blocks are as the format has them (a literal or
a copy with natural numbers, at least one bit, a stored one with literals only), that a
window header has 1, 4 or 7 bits, and that received fragments are cells and numbers, otherwise anything at all; and of the encoder
(`EncoderAssumption`) that it writes compressed meta-blocks, none of them the last, and in the local mode
of concat only copies that a reader of the fragment alone can follow.  TLC evaluates
both in `concat` and `concat_stored`.

The theorems about streams assume `WellFormed`, which says how a stream is made of
elements: in order, none overlapping, each ending where the next may start, and no
code of no bits.  TLC evaluates it for every stream of the runs.

Only model-checked: the eight properties of `EncodedBlock`, whose modules use RECURSIVE operators
and bit operations, which the prover does not take; and liveness (`Settles`, `ReadSettles`,
`Delivers`, `CallsReturn`), which is out of its reach together with fairness.  The
library's induction theorems take an operator and cannot be used; where a proof needs
induction, it is stated of sets as above.

## Findings

`stream_decoder_unwrap`.  `IntoInnerError`'s doc says the buffered bytes precede the
reader's future bytes and make up the unread input.  When a `read` fails on
malformed input, the push decoder has taken bytes of the chunk in that call and
returns the error without a count; the chunk position is not advanced, and
`into_inner` returns those bytes from the decoder and from the chunk.

`concat_stored`.  FORMAT.md:149 allows uncompressed meta-blocks in payloads, and
`validate_fragment_parts` accepts them.  Their padding to a byte is counted from the
payload's first bit, but payloads are appended at any bit: the first one 1, 4 or 7
bits into the stream.  The assembled stream then does not decode, against
FORMAT.md:138.  `encode_fragment` never writes such a meta-block; the other
properties except it.

Noted, without a run: incremental.rs:6-13 says that only the part that ran out
decodes again; a block switch before a command header or a distance does too (403-409,
498-505), and `RedecodesOnePart` states what holds.  `DecodeStatus::NeedsOutput` is returned also when the room
was used up exactly and no output is left, although its doc says "has more
output, or an error"; the `NeedsOutput` arm of `read` without output is
unreachable (`ReadNeverSpins`).
FORMAT.md:156 excludes static dictionary references; a copy in a fragment that
reaches past the window, but not past the fragment's own output, passes the check of
`LocalOnly` (compressed.rs:579-597) and is decoded as a word.  The assembled stream
decodes the same.

## Plan

Done: the push decoder, the read and write adapters, each with its contract and
proofs, the refinements included; the incremental meta-block against the one-shot loop,
with proofs; the distance rings of both sides with proofs; `BitReader` with proofs; concat
fragments, with proofs; prefix codes from counts to tables; commands from tokens to symbols
and back; block types and context maps of the decoder against the encoder's contexts;
Ruby's locks, with proofs; the match finders against a decoder of tokens, with proofs.

What remains, in the order of what it would show:

1. .NET's pending output when a write is cancelled; Ruby's `Reader` and `Writer`.
2. `validate`'s compaction, `BitWriter`'s sinks and `mark`/`rewind` bit by bit.
3. The choice between the encoder's block writers, which depends on cost models.

RECURSIVE operators stay in modules without proofs.

## Not modelled

Cost models and histogram clustering choose among correct encodings; the models
leave their choice to the input.  The static dictionary and its context tables are
data, and the transforms the encoder never uses change bytes only.
The context maps that result are modelled, since the decoder must follow them.
What the `Compressor` and `Decompressor` contexts keep
between calls are options and allocations.  The Node, Python and wasm bindings add
no state to the push decoder and the stream encoder; .NET's stream adds buffers
around awaits, a hazard that no property covers.  Benchmarks, fuzz targets, scripts and
packaging are no part of the codec.
