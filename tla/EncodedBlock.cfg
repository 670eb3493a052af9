SPECIFICATION Spec
CONSTANTS
  RootBits = 3
  WideRootBits = 5
  WideRootMinShare = 4096
  MaxAlphabet = 704
  WideRootMinLen = 40
  FastCodeBits = 9
  LiteralOnlyBits = 6
  Shapes <- MCShapes
  Inputs <- MCInputs
  Writers <- MCWriters
  TokensOf <- MCTokensOf
  Omitted <- MCOmitted
  SamplePeriod = 8
  BlockJobs <- MCBlockJobs
INVARIANTS
  TablesDecode
  FollowsFormat
  CheapestCode
  FitsReserve
  CommandsDecode
  BodyAsPlanned
  BlocksDecode
  CodedWhenItFits
CHECK_DEADLOCK FALSE
