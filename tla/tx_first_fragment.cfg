SPECIFICATION Spec
CONSTANTS
  NumPackets = 4
  NumFragments = 4
  MaxFragments = 2
  WriteBack = "descriptor"
INVARIANTS
  CompletedWasSent
