SPECIFICATION Spec
CONSTANTS
  Paths = {"a", "nf"}
  Index <- HalfIndex
  Ptrs = {"p1", "p2"}
  Rewritable = {}
  Careful = TRUE
  Names = {"x", "y", "z"}
  NoName = ""
  Hash <- HalfHash
  Word = 128
  Magic = 1
  PageWords = 4
  Base = 1000
  MaxQueries = 3
  NoPtr = NoPtr
  NoPath = NoPath
INVARIANT
  OwnIndex
CHECK_DEADLOCK FALSE
