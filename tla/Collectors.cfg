CONSTANTS
  Inputs <- MCInputs
  Bases = {0, 3}
  Window = 16
  Dictionary <- MCDictionary
  TableSize = 16
  HashOf <- MCHashOf
  Engines <- MCEngines
  StartRings <- MCStartRings
  ItemsOf <- MCItemsOf
  SparseWindow = 2
  LongMatch = 6
  Scanners <- MCScanners
  Patience = 3
  BlockSize = 4
  RingLasts = {4, 5, 11, 16}
  LONG_BLOCK = 13
  LONG_MAX_DISTANCE = 8
  MAX_DISTANCE = 12
SPECIFICATION Spec
INVARIANTS TokensReproduce LoadsInBounds
CHECK_DEADLOCK FALSE
