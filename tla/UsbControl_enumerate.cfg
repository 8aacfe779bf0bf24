SPECIFICATION Spec
CHECK_DEADLOCK FALSE
CONSTANTS
  NoRequest = NoRequest
  Request <- AllRequests
  MaxRequest = 3
  MaxReset = 1
PROPERTY RequestEnds
INVARIANT TransferIntact
INVARIANT DescriptorWhole
PROPERTY AddressAfterStatus
