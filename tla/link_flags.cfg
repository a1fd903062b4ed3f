SPECIFICATION Spec
CONSTANTS
  d1 = d1
  d2 = d2
  Dpcs = {d1}
  Pnp = Pnp
  NoOne = NoOne
  UpStates <- TwoUpStates
  SettingSpeed = 0
  PhyTimeouts = FALSE
  ArgumentOrders <- AnyOrder
INVARIANTS
  FlagsCurrent
