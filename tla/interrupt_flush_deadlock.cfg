SPECIFICATION FairSpec
CONSTANTS
  NumQueues = 1
  d1 = d1
  d2 = d2
  Dpcs = {d1}
  NoOne = NoOne
  Queued = Queued
  Raised <- RaiseLink
  Disarmed <- TxOnly
  Stoppable <- TxOnly
  SharedLine = FALSE
CHECK_DEADLOCK FALSE
PROPERTIES
  FlushReturns
