CONSTANTS
  Idle = Idle
  Parts = {"layout"}
  Formats <- AllFormats
  Versions <- SomeVersions
  Tables <- SomeTables
  Modules <- OneModule
  Images <- SegLists
  Base = 3
  Limit = 11
SPECIFICATION RegSpec
INVARIANT Layout31Refined
