SPECIFICATION FairSpec
CONSTANTS
  Requests <- MCRequests
  Frames <- MCFrames
  MaxMessages = 3
INVARIANTS TypeOK FramesWhole OwnHeaders KeepsUp IInv
PROPERTY ServesInOrder
CHECK_DEADLOCK FALSE
