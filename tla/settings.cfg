SPECIFICATION OffloadSpec
CONSTANTS
  q1 = q1
  q2 = q2
  RxIds = {q1, q2}
  a1 = a1
  Addresses = {a1}
  Filters <- FiltersFew
  Hash <- HashLast
  Offloads <- OffloadsAll
  ResetDefaults <- ResetAny
  ChipTypes <- LaterChip
  Frames <- FramesFew
  Packets <- PacketsFew
SYMMETRY QueueSymmetry
INVARIANTS
  IInv
  FilterProgrammed
  MulticastProgrammed
  CpcrProgrammed
  ReceiverOff
  EvaluationRight
  TxOffloadRight
