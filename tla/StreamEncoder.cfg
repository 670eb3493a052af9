SPECIFICATION FairSpec
CONSTANTS
  BlockSize = 2
  HeaderBits <- MCHeaderBits
  ChunkBits <- MCChunkBits
  MaxInput = 5
INVARIANTS
  StreamConserved
  InputConserved
PROPERTIES
  DecodableOnFlush
  Delivers
CHECK_DEADLOCK FALSE
