SPECIFICATION Spec
CONSTANTS
  a = a
  b = b
  c = c
  Port <- MCPorts
  Proc = {a, b, c}
  Count = {1}
  Infinite = {b}
  Timed = {a}
PROPERTY SendEnds
PROPERTY WaitEndsTransfer
PROPERTY BufferQuiet
