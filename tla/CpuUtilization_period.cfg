SPECIFICATION Spec
CONSTANTS
  TimeMod = 5
  Second = 3
  MaxElapsed = 4
PROPERTY Accurate
