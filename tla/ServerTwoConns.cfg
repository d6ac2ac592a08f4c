SPECIFICATION FairSpec
CONSTANTS
  c1 = c1
  c2 = c2
  m1 = m1
  m2 = m2
  a1 = a1
  a2 = a2
  Unknown = Unknown
  Conn <- MCTwoConns
  Media <- MCOneMedia
  Tracks <- MCOneTrack
  Transport <- MCTcp
  UdpPort <- MCUdpPort
  Addr <- MCTwoAddrs
  File <- MCShortFile
  RandomTs <- MCRandomTs
  TsMod = 1000
  TsDuration = 3
  MaxLives = 2
  MaxStarts = 1
INVARIANTS StreamsOwned PlayingIsReachable
PROPERTIES MediaOnlyForSession PlaysEnd
CHECK_DEADLOCK FALSE
