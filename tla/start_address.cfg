SPECIFICATION Spec
CONSTANTS
  Boards = {"eeprom", "fused", "blank", "large"}
  Board <- FourBoards
  Registries <- OneRegistry
  Requests <- ThreeRequests
INVARIANTS
  StationAddressValid
