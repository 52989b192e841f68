CONSTANTS
  None = None
  Own = Own
  peer = peer
  default = default
  c1 = c1
  c2 = c2
  Proc = {p, q}
  Name <- TwoNames
  NameOrder <- Order
  Config <- TwoConfigs
  Modifier <- Swap
  Tracked <- PeerTracked
  Calls <- MixedCalls
  MaxCalls = 3
  MaxCrashes = 1
SPECIFICATION PartSpec
CHECK_DEADLOCK FALSE
INVARIANTS GuardsHold ModifyIsAtomic  LocksAreReleased SecondReduces FusionKeepsExistence
PROPERTY CallsReturn
