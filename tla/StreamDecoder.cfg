SPECIFICATION FairStreamSpec
CONSTANTS
  Streams <- ReaderStreams
  Limits = {6, 7}
  MaxRoom = 2
  InputPiece = 2
  Slack = 1
  ZeroAhead = 1
  ChunkSize = 3
INVARIANTS
  ChunkFollows
  TrailingInputSurvives
  UnwrapLosesNothing
PROPERTIES
  OneShotRead
  ReadSettles
CHECK_DEADLOCK FALSE
