CONSTANTS
  Idle = Idle
  Parts = {"graph", "header"}
  NoType = "none"
  Types <- AllTypes
  Nodes <- AllNodes
  Inputs <- AllGraphs
  Headers <- AllHeaders
SPECIFICATION MCSpec
INVARIANTS
  MCTypeOK
  Accounted
  OrderRespected
  CycleReal
  HeaderRight
PROPERTY
  Ends
