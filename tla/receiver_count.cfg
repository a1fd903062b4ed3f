SPECIFICATION Spec
CONSTANTS
  NumQueues = 2
  d1 = d1
  d2 = d2
  Dpcs = {d1}
  NoOne = NoOne
  Queued = Queued
  Raised <- NoFlag
  Disarmed <- NoQueue
  Stoppable <- RxLast
  SharedLine = FALSE
PROPERTIES
  StopLeavesOthers
