SPECIFICATION Spec
CONSTANTS
  MaxPayload = 5
  HeaderSize = 2
  FuHeadSize = 2
  FrameSize = 1
  SeqMod = 8
  LengthMod = 12
  CountMod = 16
  InitSeq <- MCInitSeq
  Size <- MCFewSizes
  MaxNalus = 2
INVARIANT MarkerEndsFrame
CHECK_DEADLOCK FALSE
