SPECIFICATION FairSpec
CONSTANTS
  NumPackets = 8
  NumFragments = 4
INVARIANTS
  IInv
  IndicatedWasReceived
  BuffersHeld
  Aligned
PROPERTIES
  FramesIndicated
  Implements
