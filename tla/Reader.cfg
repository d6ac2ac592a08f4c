SPECIFICATION FairSpec
CONSTANTS
  Inputs <- MCInputs
  Chunk = 8
  Prepend = 2
  Room = 5
INVARIANTS TypeOK TakenTileFile IInv DataFitsRoom
PROPERTIES ReadsAsSplit CallsReturn
