SPECIFICATION Spec
CONSTANTS
  \* near each other and near the first ring, one always a dictionary word at first
  Distances = {4, 5, 11, 16, 30}
  Window = 16
  \* literal runs short and long
  Inserts = {0, 12}
  CopyLen = 4
  MaxInput = 40
INVARIANTS CopiesDecode RingCarried
\* The input ends.
CHECK_DEADLOCK FALSE
