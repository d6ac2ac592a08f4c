SPECIFICATION Spec
CONSTANTS
  a1 = a1
  a2 = a2
  Addr <- MCOneAddr
  File <- MCFile
  RandomTs <- MCRandomTs
  TsMod = 1000
  TsDuration = 3
  MaxLives = 1
  MaxStarts = 2
INVARIANT ParamSharesTimestamp
CHECK_DEADLOCK FALSE
