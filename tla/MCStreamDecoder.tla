-------------------------- MODULE MCStreamDecoder --------------------------
(***************************************************************************)
(* Streams for StreamDecoder: one of each way to end, with bytes after it. *)
(***************************************************************************)
EXTENDS StreamDecoder, MCPushDecoder

ReaderStreams ==
  {Build(StoredStream, 2, SizeOf(StoredStream) + 2),
   Build(CompressedStream, 4, SizeOf(CompressedStream) + 2),
   Build(CompressedStream, 4, SizeOf(CompressedStream) - 1),
   Build(BadBody, 4, SizeOf(BadBody) + 1),
   Build(BadHeader, 4, SizeOf(BadHeader) + 1)}
=============================================================================
