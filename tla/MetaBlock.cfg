SPECIFICATION Spec
CONSTANTS
  Blocks <- MCBlocks
  Unlimited = 100
  StepBits = 7
  Pieces <- MCPieces
INVARIANTS
  ReadsInForce
  MirrorsOneShot
  RedecodesOnePart
CHECK_DEADLOCK FALSE
