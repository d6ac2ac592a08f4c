SPECIFICATION FairSpec
CONSTANTS
  a1 = a1
  a2 = a2
  Addr <- MCAddr
  File <- MCFileWithGaps
  RandomTs <- MCOneRandomTs
  TsMod = 1000
  TsDuration = 3
  MaxLives = 2
  MaxStarts = 2
INVARIANTS TypeOK SilentUntilPlayed IInv NoLostChain NoExtraChain SingleChainTimeline
PROPERTIES ReleasedIsSilent PlayingEnds StaleClosuresDrain
CHECK_DEADLOCK FALSE
