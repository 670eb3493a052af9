------------------------------ MODULE MCConcat ------------------------------
(***************************************************************************)
(* Small meta-blocks and fragments for Concat.  The window is 3 bytes.     *)
(***************************************************************************)
EXTENDS Concat

Byte(b) == [byte |-> b]
Far(distance, len) == [symbol |-> 16, distance |-> distance, len |-> len]
Symbol(symbol, len) == [symbol |-> symbol, distance |-> 0, len |-> len]
Block(kind, bits, ops) ==
  [kind |-> kind, last |-> FALSE, trees |-> 1, bits |-> bits, ops |-> ops]

MCMetaBlocks ==
  [emptyMetadata |-> Block("metadata", 6, <<>>),
   trailer   |-> [Block("lastEmpty", 2, <<>>) EXCEPT !.last = TRUE],
   \* what the encoder writes
   literals  |-> Block("compressed", 5, <<Byte(1), Byte(2)>>),
   copy      |-> Block("compressed", 11, <<Byte(3), Far(1, 1)>>),
   \* what only others write
   stored    |-> Block("stored", 4, <<Byte(4)>>),
   repeat    |-> Block("compressed", 3, <<Byte(5), Far(1, 1), Symbol(0, 1)>>),
   prior     |-> Block("compressed", 3, <<Byte(5), Far(2, 1)>>),
   contexts  |-> [Block("compressed", 3, <<Byte(5)>>) EXCEPT !.trees = 2],
   final     |-> [Block("compressed", 3, <<Byte(5)>>) EXCEPT !.last = TRUE],
   word      |-> Block("compressed", 3, <<Byte(5), Byte(5), Byte(5), Byte(5),
                                          Far(4, 1)>>)]

MCInputs == {<<>>, <<"literals">>, <<"copy">>, <<"copy", "literals">>}

\* A fragment of one meta-block, with the sidecar its maker would write.
Foreign(name) ==
  LET body == Written(<<>>, name)
      stored == MetaBlocks[name].kind = "stored"
      cells == IF stored THEN Padded(body) \o Cells(name, 5, 12) ELSE body
      out == Compressed(Fresh(0), name, FALSE)
  IN  [spec |-> Wanted, payload |-> Padded(cells), bitLen |-> Len(cells),
       inputLen |-> Len(out.out), copies |-> out.copies,
       summary |-> Summary(out.out), sound |-> TRUE]

Names == {"repeat", "prior", "contexts", "final", "word", "trailer", "emptyMetadata"}
Plain == Fragment(<<"copy">>)

MCReceived ==
  {Foreign(name) : name \in Names}
  \cup {Foreign("stored"),
        [Plain EXCEPT !.spec = "other"], [Plain EXCEPT !.sound = FALSE],
        [Plain EXCEPT !.copies = FALSE], [Plain EXCEPT !.bitLen = @ - 1],
        [Plain EXCEPT !.inputLen = @ + 1], [Plain EXCEPT !.payload = @ \o Padded(<<Zero>>)]}
=============================================================================
