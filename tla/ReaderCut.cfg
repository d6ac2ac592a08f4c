SPECIFICATION Spec
CONSTANTS
  Inputs <- MCEscaped
  Chunk = 8
  Prepend = 2
  Room = 5
INVARIANT EndsAtStartCode
