SPECIFICATION StreamSpec
CONSTANTS
  Streams <- ReaderStreams
  Limits = {6, 7}
  MaxRoom = 2
  InputPiece = 2
  Slack = 1
  ZeroAhead = 1
  ChunkSize = 3
INVARIANTS
  BufferedPrecedesReader
CHECK_DEADLOCK FALSE
