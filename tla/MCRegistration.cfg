CONSTANTS
  Idle = Idle
  Parts = {"layout", "search", "map"}
  Formats <- AllFormats
  Versions <- SomeVersions
  Tables <- SomeTables
  Modules <- OneModule
  Images <- SegLists
  Base = 3
  Limit = 11
SPECIFICATION RegSpec
INVARIANTS
  RegTypeOK
  TablesRight
  LookupCurrent
  OnlyAccepted
  AddressesRight
PROPERTY Ends
