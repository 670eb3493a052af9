SPECIFICATION Spec
CONSTANTS
  MetaBlocks <- MCMetaBlocks
  Received <- MCReceived
  Inputs <- MCInputs
  Wanted = "q5"
  HeaderBits = 4
  Window = 3
  InputCeiling = 5
  PayloadBudget = 3
  AssembledCap = 8
  MaxStaged = 3
INVARIANTS
  StoredBlocksAssemble
