SPECIFICATION ToolSpec
CONSTANTS
  Paths = {"a", "b", "cut", "stub", "elf"}
  Magic = 1
  Index <- IndexFiles
  Ptrs = {"p1", "p2"}
  Rewritable = {"p2"}
  Careful = TRUE
  Names = {"a", "b", "c", "d", ""}
  NoName = ""
  Addresses <- SomeAddresses
  MaxEntries = 3
  Word = 64
  PageWords = 4
  Hash <- NameHash
  Base = 1000
  MaxQueries = 3
  Idle = Idle
  NoPtr = NoPtr
  NoPath = NoPath
  None = None
  Unmapped = Unmapped
  NoFlag = NoFlag
  Dash = Dash
  Comment = Comment
  Zero = Zero
  Absent = Absent
  PageUnit = 2
  K = 1
  Pages = {1, 4, 5}
  Frames = {5, 6}
  MaxScan = 3
  MaxChanges = 2
  MaxShort = 2
  NotPresent = NotPresent
  AddressSpaces <- SomeVmas
  Requests <- Calls
  Addrs = {1, 2, 3, 4}
  Bases = {0, 1}
  MaxEnv = 2
  Memories <- Tables
  Values <- Pointers
  Specs <- Chains
  Unit = 2
  Width = 16
  BaseFlags <- SomeBases
  Rvas = {0, 1, 3}
  Captures <- Pamaps
  SegCap = 2
  Numbers <- Hexes
  Argvs <- Commands
  MapsFiles <- SegLists
INVARIANTS
  ToolTypeOK
  RowsOfFirsts
  LookupCorrect
  CacheCoherent
  OwnIndex
  BlobsInside
  MappedLoadsRight
  LookupsRight
  P2VFirst
  ChainFollowed
  ImportRight
  CommandRight
PROPERTY
  Termination
CHECK_DEADLOCK FALSE
