CONSTANTS
  Idle = Idle
  Parts = {"header"}
  NoType = "none"
  Types <- AllTypes
  Nodes <- AllNodes
  Inputs <- AllGraphs
  Headers <- AllHeaders
SPECIFICATION MCSpec
INVARIANT
  HeaderInOrder
