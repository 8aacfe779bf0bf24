SPECIFICATION Spec
CHECK_DEADLOCK FALSE
CONSTANTS
  RAW_RANGE = 16
  Axis = {"x"}
  Level <- MCLevels
  MinRange <- MCMinRange
  MaxRestart = 1
INVARIANT MagReady
PROPERTY TrueUnlessSaturated
PROPERTY Adapts
