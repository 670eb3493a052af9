CONSTANTS
  Inputs <- MCInputs
  Widths <- MCWidths
  Lengths <- MCLengths
SPECIFICATION Spec
INVARIANT BufferTrue
PROPERTY ReadsInput
