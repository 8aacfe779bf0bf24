SPECIFICATION RcSpec
CONSTANTS
  Size = 9
  Length <- MCLength
  MaxFrame = 4
  Loss = TRUE
PROPERTY NeverBack
PROPERTY FailsafeFollows
