SPECIFICATION RssSpec
CONSTANTS
  Boards = {"eeprom", "fused", "blank", "large"}
  Board <- FourBoards
  Registries <- TwoRegistries
  Requests <- TwoRequests
  PlaneWords = 2
  WordWidth = 2
  Updates <- TwoUpdates
  Keys <- OneKey
  Protocols <- OneProtocols
  RxBuffers <- OneBuffer
  RssQueues = {2}
  MaxCalls = 3
INVARIANTS
  TypeOK
  StationAddress
  WakeArmed
  PhyProgrammed
  TableSteers
  ReportedWritten
