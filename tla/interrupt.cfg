SPECIFICATION Spec
CONSTANTS
  NumQueues = 2
  d1 = d1
  d2 = d2
  Dpcs = {d1, d2}
  NoOne = NoOne
  Queued = Queued
  Raised <- RaiseOdd
  Disarmed <- RxLast
  Stoppable <- RxLast
  SharedLine = TRUE
SYMMETRY DpcSymmetry
INVARIANTS
  TypeOK
  IInv
  NotifyHasHandle
  QuietAfterDisable
  NoLostWakeup
  IdleMasked
