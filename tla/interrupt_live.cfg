SPECIFICATION FairSpec
CONSTANTS
  NumQueues = 1
  d1 = d1
  d2 = d2
  Dpcs = {d1}
  NoOne = NoOne
  Queued = Queued
  Raised <- RaiseLink
  Disarmed <- TxOnly
  Stoppable <- NoQueue
  SharedLine = FALSE
INVARIANTS
  IInv
PROPERTIES
  WakeupDelivered
  LinkServed
  FlushReturns
