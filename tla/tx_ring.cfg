SPECIFICATION FairSpec
CONSTANTS
  NumPackets = 4
  NumFragments = 4
  MaxFragments = 2
  WriteBack = "packet"
INVARIANTS
  IInv
  CompletedWasSent
  PostsToFree
  BuffersHeld
  FramesWhole
PROPERTIES
  PacketsReturn
  Implements
VIEW LiveData
