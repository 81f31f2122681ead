CONSTANTS
  PageCells = 2
  ChunkCells = 4
  Pages = {0, 1, 2}
  Requests <- MCRequests
  FileCells = 7
  MaxIntr = 1
  MaxEnv = 0
  Zero = Zero
  Junk = Junk
  Old = Old
CHECK_DEADLOCK FALSE
SPECIFICATION Spec
INVARIANT ReadablePagesSurvive
