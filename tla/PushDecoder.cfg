SPECIFICATION FairSpec
CONSTANTS
  Streams <- MCStreams
  Limits = {6, 7}
  MaxRoom = 2
  InputPiece = 2
  Slack = 1
  ZeroAhead = 1
INVARIANTS
  SlicesInRange
  InputConserved
  HoldsOnlyTheStep
  ResumesInPlace
  HistoryCoversWindow
  HistoryBounded
PROPERTIES
  OneShotDecode
  Settles
