SPECIFICATION Spec
CONSTANTS
  c1 = c1
  c2 = c2
  m1 = m1
  m2 = m2
  a1 = a1
  a2 = a2
  Unknown = Unknown
  Conn <- MCOneConn
  Media <- MCTwoMedia
  Tracks <- MCUnevenTracks
  Transport <- MCAllTransports
  UdpPort <- MCUdpPort
  Addr <- MCTwoAddrs
  File <- MCShortFile
  RandomTs <- MCRandomTs
  TsMod = 1000
  TsDuration = 3
  MaxLives = 2
  MaxStarts = 1
INVARIANTS TypeOK StreamsOwned  ServesNamed IInv
PROPERTIES ImplementsStreams
SYMMETRY MCSymmetry
CHECK_DEADLOCK FALSE
