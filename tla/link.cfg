SPECIFICATION FairSpec
CONSTANTS
  d1 = d1
  d2 = d2
  Dpcs = {d1, d2}
  Pnp = Pnp
  NoOne = NoOne
  UpStates <- TwoUpStates
  SettingSpeed = 0
  PhyTimeouts = TRUE
  ArgumentOrders <- InOrder
INVARIANTS
  IInv
  ContextCurrent
  ReportCurrent
PROPERTIES
  LinkReported
