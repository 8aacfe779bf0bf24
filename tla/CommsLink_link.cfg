SPECIFICATION LinkSpec
CHECK_DEADLOCK FALSE
CONSTANTS
  get = get
  bad = bad
  Request = {get, bad}
  Frames <- MCFrames
  Answer <- MCAnswer
  Nothing = Nothing
  Spoiled = Spoiled
  MaxFrames = 3
  MaxRequest = 2
  MaxLoss = 3
  MaxEarly = 1
PROPERTY EvaluatedFresh
PROPERTY Answered
