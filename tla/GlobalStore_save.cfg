SPECIFICATION Spec
CHECK_DEADLOCK FALSE
CONSTANTS
  across = across
  within = within
  reading = reading
  Var = {across, within, reading}
  Measured = {reading}
  First <- MCFirst
  Size <- MCSize
  StructSize = 8
  BadId = BadId
  Value = {1, 2}
  Page = 2
  Start = 2
  MaxPayload = 9
  Hash <- MCTwoHashes
  MaxFailure = 2
  MaxCommand = 2
PROPERTY SavedSurvives
PROPERTY ComesBackWhole
PROPERTY CountGrows
PROPERTY AnsweredIsDone
PROPERTY InitEnds
