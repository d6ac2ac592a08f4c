SPECIFICATION Spec
CONSTANTS
  MaxPayload = 5
  HeaderSize = 2
  FuHeadSize = 2
  FrameSize = 1
  SeqMod = 8
  LengthMod = 12
  CountMod = 16
  InitSeq <- MCInitSeq
  Size <- MCSize
  MaxNalus = 2
INVARIANTS TypeOK FragmentsWellFormed FragmentsCover AssembledWhole
INVARIANTS IInv LengthsTrue ReportsWhatWasSent
CHECK_DEADLOCK FALSE
