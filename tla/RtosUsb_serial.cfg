SPECIFICATION Spec
CHECK_DEADLOCK FALSE
CONSTANTS
  PacketSize = 2
  SendCounts <- FullAndMore
  ReadCounts <- PartAndFull
  MaxTx = 4
  MaxRx = 4
  MaxReset = 1
  MayQuit = TRUE
INVARIANT NothingOverlooked
INVARIANT ReadInOrder
INVARIANT ReadOnItsWay
PROPERTY StreamSpec
PROPERTY SendEnds
PROPERTY ReadEnds
PROPERTY QuitStops
