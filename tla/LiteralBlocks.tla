---------------------------- MODULE LiteralBlocks ----------------------------
(***************************************************************************)
(* Compressed meta-blocks bit by bit.  The encoder writes blocks in which  *)
(* matching finds little as literals only (write_meta_block_copies,        *)
(* crates/encode/src/encode/mod.rs), with one code or with one by context, *)
(* or stored; other encoders write block types, context maps and copies.   *)
(* The decoder reads header, codes and commands back                       *)
(* (crates/decode/src/compressed.rs), from all of the stream or from what  *)
(* is left of a cut one.  No stream here has words of the dictionary, and  *)
(* the last meta-block is empty.                                           *)
(***************************************************************************)
EXTENDS BlockHeader, ContextLiterals, DistanceRing

CONSTANT
  BlockJobs   \* what to encode: the `inputs`, at a quality with its limits;
              \* or a stream of another encoder with what it means

ASSUME LiteralBlocksAssumption ==
  \A j \in BlockJobs :
    /\ j.form \in {"encode", "foreign"} /\ j.verdict \in {"ok", "bad"} /\ j.cuts \in BOOLEAN
    /\ j.form = "encode" =>
         /\ {j.maxCodes, j.sample, j.contextBlock, j.literalBlock} \subseteq Nat \ {0}
         /\ {j.min, j.literalMin, j.contextMin, j.allPairs} \subseteq Nat

VARIABLES
  job,        \* the job at hand
  sent,       \* the bits of the stream
  inputs,     \* inputs to write, each a meta-block unless it is split
  part,       \* the chunks by context that are left of the first, or NoPart
  lastByte,   \* Workspace::last_byte
  plans,      \* of each chunk: how it went, its length, header and literals
  decoder     \* the decoder

blockVars == <<job, sent, inputs, part, lastByte, plans, decoder>>

NoPart == [chunks |-> <<>>]

(***************************************************************************)
(* Writing.                                                                *)
(***************************************************************************)
Whole(block) == block.header \o Flat(block.literals)

Plan(kind, input, block, room, coded) ==
  [kind |-> kind, len |-> Len(input), header |-> Len(block.header),
   literals |-> Len(Flat(block.literals)), room |-> room, coded |-> coded]

\* Equal parts of at most `most`.
PartsOf(input, most) ==
  LET count == (Len(input) + most - 1) \div most
      size == (Len(input) + count - 1) \div count
  IN  [i \in 1 .. (Len(input) + size - 1) \div size |->
         SubSeq(input, (i - 1) * size + 1, Lesser(i * size, Len(input)))]

AtInput(low, high) ==
  /\ decoder.st = "writing" /\ part = NoPart /\ inputs # <<>>
  /\ low <= Len(Head(inputs)) /\ Len(Head(inputs)) < high

\* A bug: blocks too short to match leave the byte before as it was.
AfterInput_Short ==
  /\ inputs' = Tail(inputs)
  /\ lastByte' = IF Len(Head(inputs)) < job.min THEN lastByte ELSE Head(inputs)[Len(Head(inputs))]

\* write_meta_block_with_workspace keeps the last byte of each block.
AfterInput ==
  /\ inputs' = Tail(inputs)
  /\ lastByte' = Head(inputs)[Len(Head(inputs))]

\* Too short for a match.
WriteShort ==
  /\ AtInput(1, job.min)
  /\ \E block \in {CompressedLiterals(Head(inputs))} :
       /\ sent' = sent \o Whole(block)
       /\ plans' = Append(plans, Plan("one code", Head(inputs), block, block.room, TRUE))
  /\ AfterInput
  /\ UNCHANGED <<job, part, decoder>>

\* Too short for a code to pay.
WriteStored ==
  LET input == Head(inputs)
  IN  /\ AtInput(job.min, job.literalMin)
      /\ sent' = sent \o StoredBlock(input, Len(sent))
      /\ AfterInput
      /\ UNCHANGED <<job, part, plans, decoder>>

ByContexts == Len(Head(inputs)) >= job.contextMin /\ job.maxCodes > 1

WriteFastParts ==
  /\ AtInput(Greater(job.min, job.literalMin), MAX_META_BLOCK_SIZE) /\ ~ByContexts
  /\ \E parts \in {PartsOf(Head(inputs), job.literalBlock)} :
       \E written \in {<<>> \o [i \in DOMAIN parts |-> FastCompressedLiterals(parts[i])]} :
         /\ sent' = sent \o Flat([i \in DOMAIN parts |-> Whole(written[i])])
         /\ plans' = plans \o [i \in DOMAIN parts |->
                                 Plan("one code", parts[i], written[i], written[i].room, TRUE)]
  /\ AfterInput
  /\ UNCHANGED <<job, part, decoder>>

\* The contexts of the first of `chunks`, none merged.
Separate(chunks, previous) ==
  IF chunks = <<>> THEN NoPart
  ELSE [chunks |-> chunks, previous |-> previous, allPairs |-> FALSE,
        merger |-> NewMerger(ContextCounts(Head(chunks), previous, job.sample))]

StartContexts ==
  /\ AtInput(Greater(job.min, job.literalMin), MAX_META_BLOCK_SIZE) /\ ByContexts
  /\ part' = Separate(PartsOf(Head(inputs), job.contextBlock), lastByte)
  /\ UNCHANGED <<job, sent, inputs, lastByte, plans, decoder>>

\* context_literals::merge.  Which two codes cost least is left open.
MergeCodes ==
  /\ part # NoPart
  /\ \E pair \in Partners(part.merger, part.allPairs) :
       part' = [part EXCEPT !.merger = MergeInto(@, pair[1], pair[2])]
  /\ UNCHANGED <<job, sent, inputs, lastByte, plans, decoder>>

Few(limit) == Cardinality(DOMAIN part.merger.counts) <= Greater(limit, 1)

LookAtAllPairs ==
  /\ part # NoPart /\ job.allPairs # 0 /\ ~part.allPairs
  /\ Few(Greater(job.maxCodes, job.allPairs))
  /\ part' = [part EXCEPT !.allPairs = TRUE]
  /\ UNCHANGED <<job, sent, inputs, lastByte, plans, decoder>>

\* The chunk with a code for each that is left, or taken back and stored.
WriteContexts ==
  LET chunk == Head(part.chunks)
  IN  /\ part # NoPart /\ Few(job.maxCodes) /\ (part.allPairs \/ job.allPairs = 0)
      /\ \E block \in {ContextLiterals(chunk, part.previous, job.sample, Len(sent), part.merger)} :
           /\ sent' = sent \o IF block.fits THEN Whole(block) ELSE StoredBlock(chunk, Len(sent))
           /\ plans' = Append(plans, Plan("contexts", chunk, block, <<>>, block.fits))
      /\ part' = Separate(Tail(part.chunks), chunk[Len(chunk)])
      /\ IF Len(part.chunks) = 1 THEN AfterInput ELSE UNCHANGED <<inputs, lastByte>>
      /\ UNCHANGED <<job, decoder>>

\* The last meta-block, and the end of a byte; of some jobs not all arrives.
EndStream ==
  LET bits == sent \o Bits(2, 3)
      bytes == (Len(bits) + 7) \div 8
  IN  /\ decoder.st = "writing" /\ part = NoPart /\ inputs = <<>>
      /\ \E n \in IF job.cuts THEN 0 .. bytes ELSE {bytes} :
           /\ sent' = SubSeq(bits \o Bits(8 * bytes - Len(bits), 0), 1, 8 * n)
           /\ decoder' = [st |-> "block", at |-> job.lead, output |-> <<>>, cut |-> n < bytes,
                          ring |-> LAST_DISTANCES, block |-> <<>>]
      /\ UNCHANGED <<job, inputs, part, lastByte, plans>>

(***************************************************************************)
(* Reading.                                                                *)
(***************************************************************************)
\* The tables of each context of a literal block type, and the mode.
Contexts(header, literals, type) ==
  [mode |-> header.modes[type],
   tables |-> [c \in 0 .. 63 |-> TableOf(literals, header.literalMap.map[64 * type + c + 1])]]
OneTable(table) == [mode |-> 0, tables |-> [c \in 0 .. 63 |-> table]]

\* A literal after the output `read`.  A trusted read checks no bits: past
\* the end of the input it takes what is not there.
NextLiteral(bits, read, contexts, trusted) ==
  LET output == read.value
      context == LiteralContext(contexts.mode, Previous(output, 1), Previous(output, 2))
      entry == LookedUp(bits, read.at, contexts.tables[context])
  IN  IF read.at + entry.len > Len(bits)
      THEN IF trusted THEN Got("overrun", read.at, 0) ELSE RunOut(read.at)
      ELSE Good(read.at + entry.len, Append(output, entry.value))
\* `n` of them, half of them first.
RECURSIVE Literals(_, _, _, _, _)
Literals(bits, read, n, contexts, trusted) ==
  IF n = 0 \/ read.st # "ok" THEN read
  ELSE IF n = 1 THEN NextLiteral(bits, read, contexts, trusted)
  ELSE Literals(bits, Literals(bits, read, n \div 2, contexts, trusted), n - n \div 2,
                contexts, trusted)

AllFit(bits, at, n, maxBits) == n * maxBits <= Len(bits) - at

\* copy_literals_single_code
LiteralsOfOne(bits, at, n, output, table, single, maxBits) ==
  IF single # {} THEN Good(at, output \o [i \in 1 .. n |-> CHOOSE s \in single : TRUE])
  ELSE Literals(bits, Good(at, output), n, OneTable(table),
                maxBits # 0 /\ AllFit(bits, at, n, maxBits))

\* copy_literal_run: a block whose contexts share one tree needs none.
LiteralRun(bits, at, n, output, header, literals, type) ==
  LET trees == {header.literalMap.map[64 * type + c + 1] : c \in 0 .. 63}
      tree == CHOOSE t \in trees : TRUE
  IN  IF Cardinality(trees) = 1
      THEN LiteralsOfOne(bits, at, n, output, TableOf(literals, tree),
                         SingleSymbol(literals, tree), literals.max_bits)
      ELSE Literals(bits, Good(at, output), n, Contexts(header, literals, type),
                    AllFit(bits, at, n, literals.max_bits))

\* The literals of a command, block by block; the value holds the output and
\* the category.
RECURSIVE LiteralRuns(_, _, _, _, _, _)
LiteralRuns(bits, at, n, output, header, literals) ==
  LET category == IF header.literals.remaining = 0 THEN Switch(bits, at, header.literals)
                  ELSE Good(at, header.literals)
      run == Lesser(n, category.value.remaining)
      switched == [header EXCEPT !.literals = [category.value EXCEPT !.remaining = @ - run]]
      read == LiteralRun(bits, category.at, run, output, header, literals, category.value.current)
  IN  IF n = 0 THEN Good(at, [output |-> output, header |-> header])
      ELSE IF category.st # "ok" THEN category
      ELSE Then(read, LAMBDA r : LiteralRuns(bits, r.at, n - run, r.value, switched, literals))

\* A meta-block of one literal code reads them all by it, by the wide table
\* when there is one.
CommandLiterals(bits, at, n, output, header, literals) ==
  LET table == IF literals.wide # <<>> THEN WideTable(literals) ELSE TableOf(literals, 0)
  IN  IF header.literals.types = 1 /\ header.literalMap.trees = 1
      THEN Then(LiteralsOfOne(bits, at, n, output, table, SingleSymbol(literals, 0),
                              literals.max_bits),
                LAMBDA r : Good(r.at, [output |-> r.value, header |-> header]))
      ELSE LiteralRuns(bits, at, n, output, header, literals)

\* read_command: the command's lengths and what its symbol says.
ReadLengths(bits, at, table) ==
  Then(DecodeSymbol(bits, at, table), LAMBDA symbol :
    LET prefix == CommandPrefix(symbol.value)
    IN  Then(ReadBits(bits, symbol.at, prefix.insertBits), LAMBDA insert :
          Then(ReadBits(bits, insert.at, prefix.copyBits), LAMBDA copy :
            Good(copy.at, [insert |-> prefix.insertBase + insert.value,
                           copy |-> prefix.copyBase + copy.value,
                           context |-> prefix.context, reuse |-> prefix.reuse]))))

\* The distance of a command that has one; the tree is the block type's for
\* the context.
DistanceOfCommand(bits, at, header, distances, context, ring) ==
  Then(Counting(bits, at, header.distances), LAMBDA category :
    LET tree == header.distanceMap.map[4 * category.value.current + context + 1]
    IN  Then(DecodeSymbol(bits, category.at, TableOf(distances, tree)), LAMBDA symbol :
          LET width == IF symbol.value < 16 THEN 0
                       ELSE DistanceBits(symbol.value, header.npostfix, header.ndirect)
          IN  Then(ReadBits(bits, symbol.at, width), LAMBDA extra :
                Good(extra.at,
                     [symbol |-> symbol.value, category |-> category.value,
                      distance |-> IF symbol.value < 16 THEN Resolve(ring, symbol.value)
                                   ELSE DistanceRead(symbol.value, header.npostfix,
                                                     header.ndirect, extra.value)]))))

RECURSIVE Copied(_, _, _)
Copied(output, distance, n) ==
  IF n = 0 THEN output
  ELSE Copied(Append(output, output[Len(output) - distance + 1]), distance, n - 1)

\* One turn of decode_commands with what it leaves of the header.
Turn(bits, at, output, ring, block) ==
  LET commands == Counting(bits, at, block.header.commands)
      command == Then(commands, LAMBDA r :
                   ReadLengths(bits, r.at, TableOf(block.codes.commands, r.value.current)))
      header == [block.header EXCEPT !.commands = commands.value]
      literals == Then(command, LAMBDA r :
                    IF r.value.insert > block.needed - Len(output) THEN Refused(r.at)
                    ELSE CommandLiterals(bits, r.at, r.value.insert, output, header,
                                         block.codes.literals))
      Done(r, now, left, last4) ==
        Good(r.at, [output |-> now, ring |-> last4, block |-> [block EXCEPT !.header = left]])
      Copy(r, now, left, distance, symbol) ==
        IF distance \notin 1 .. Len(now) \/ command.value.copy > block.needed - Len(now)
        THEN Refused(r.at)
        ELSE Done(r, Copied(now, distance, command.value.copy), left,
                  RingAfter(ring, symbol, "output", distance))
  IN  Then(literals, LAMBDA r :
        LET now == r.value.output
            left == r.value.header
        IN  IF Len(now) = block.needed THEN Done(r, now, left, ring)
            ELSE IF command.value.reuse THEN Copy(r, now, left, Resolve(ring, 0), 0)
            ELSE Then(DistanceOfCommand(bits, r.at, left, block.codes.distances,
                                        command.value.context, ring),
                      LAMBDA d : Copy(d, now, [left EXCEPT !.distances = d.value.category],
                                      d.value.distance, d.value.symbol)))

Failed(st) == [decoder EXCEPT !.st = IF st = "overrun" THEN "overrun" ELSE "failed"]

\* A stored meta-block: zeros to the end of the byte, then its bytes.
StoredBytes(bits, at, len) ==
  LET start == at + ((-at) % 8)
  IN  IF start + 8 * len > Len(bits) THEN RunOut(at)
      ELSE IF Peek(bits, at, start - at) # 0 THEN Refused(at)
      ELSE Good(start + 8 * len, [i \in 1 .. len |-> Peek(bits, start + 8 * (i - 1), 8)])

\* The header of the next meta-block and, of a compressed one, its codes.
Carry(read, Next(_)) == IF read.st = "ok" THEN Next(read) ELSE Failed(read.st)

\* A stored block goes out whole; of a compressed one header and codes are
\* kept.
ReadStored(at, len) ==
  Carry(StoredBytes(sent, at, len),
        LAMBDA r : [decoder EXCEPT !.at = r.at, !.output = @ \o r.value])
Open(header, codes, len) ==
  [decoder EXCEPT
     !.st = "commands", !.at = codes.at,
     !.block = [start |-> Len(decoder.output), needed |-> Len(decoder.output) + len,
                header |-> header.value, codes |-> codes.value]]
ReadCompressed(at, len) ==
  Carry(ReadHeader(sent, at), LAMBDA header :
    Carry(ReadCodes(sent, header.at, header.value, len), LAMBDA codes : Open(header, codes, len)))

BeginBlock ==
  LET at == decoder.at
      width == 4 + 4 * (Peek(sent, at + 1, 2) + 4)
      bits == SubSeq(sent, at + 1, at + width)
      len == ReadMetaBlockLen(bits, bits[width])
  IN  /\ decoder.st = "block"
      /\ decoder' = IF at + 2 <= Len(sent) /\ Peek(sent, at, 2) = 3
                    THEN [decoder EXCEPT !.st = "done", !.at = at + 2]
                    ELSE IF at + width > Len(sent) THEN Failed("end")
                    ELSE IF len = 0 THEN Failed("bad")
                    ELSE IF bits[width] = 1 THEN ReadStored(at + width, len)
                    ELSE ReadCompressed(at + width, len)
      /\ UNCHANGED <<job, sent, inputs, part, lastByte, plans>>

\* A turn of the command loop.  What failed is cut off the output again.
RunCommand ==
  /\ decoder.st = "commands"
  /\ \E turn \in {Turn(sent, decoder.at, decoder.output, decoder.ring, decoder.block)} :
       decoder' =
         IF turn.st # "ok"
         THEN [Failed(turn.st) EXCEPT !.output = SubSeq(@, 1, decoder.block.start), !.block = <<>>]
         ELSE LET now == turn.value
                  ended == Len(now.output) = decoder.block.needed
              IN  [decoder EXCEPT !.at = turn.at, !.output = now.output, !.ring = now.ring,
                     !.st = IF ended THEN "block" ELSE @,
                     !.block = IF ended THEN <<>> ELSE now.block]
  /\ UNCHANGED <<job, sent, inputs, part, lastByte, plans>>

BlocksInit ==
  /\ job \in BlockJobs
  /\ sent = job.bits
  /\ inputs = job.inputs
  /\ part = NoPart /\ lastByte = 0 /\ plans = <<>>
  /\ decoder = [st |-> "writing"]

BlocksIdle ==
  /\ job = <<>> /\ sent = <<>> /\ inputs = <<>> /\ part = NoPart /\ lastByte = 0
  /\ plans = <<>> /\ decoder = [st |-> "idle"]

BlocksNext ==
  \/ WriteShort
  \/ WriteStored
  \/ WriteFastParts
  \/ StartContexts
  \/ MergeCodes
  \/ LookAtAllPairs
  \/ WriteContexts
  \/ EndStream
  \/ BeginBlock
  \/ RunCommand

(***************************************************************************)
(* Properties.                                                             *)
(***************************************************************************)
\* Whatever the decoder puts out is what was encoded, or what the stream of
\* another encoder means: contexts of both sides agree on the bytes before,
\* over chunks and blocks, and block switches, context maps and wide tables
\* lead to the code in force.  It ends at the stream's last bit, fails only
\* on streams that are cut or malformed, and where it checks once for a run
\* of literals it never reads past the input.
BlocksDecode ==
  LET meant == IF job.form = "encode" THEN Flat(job.inputs) ELSE job.output
  IN  decoder.st \notin {"writing", "idle"} =>
        /\ Len(decoder.output) <= Len(meant)
        /\ decoder.output = SubSeq(meant, 1, Len(decoder.output))
        /\ decoder.st # "overrun"
        /\ decoder.st = "failed" => decoder.cut \/ job.verdict = "bad"
        /\ decoder.st = "done" => /\ job.verdict = "ok" /\ decoder.output = meant
                                  /\ Len(sent) - decoder.at \in 0 .. 7

\* A chunk is coded by contexts just when that is no longer than a stored
\* block may be: the room its literals are written into without a check for
\* each never turns away one that fits, nor lets in one that does not.  The
\* literals of one code take the bits counted for them
\* (write_bits_batch_trusted_fits writes that many without checks).
CodedWhenItFits ==
  \A i \in DOMAIN plans :
    LET plan == plans[i]
    IN  /\ plan.kind = "contexts" =>
             (plan.coded <=> plan.header + plan.literals <= 8 * (plan.len + 4))
        /\ plan.room # <<>> => plan.room[1] = plan.literals
=============================================================================
