SPECIFICATION OutSpec
CONSTANTS
  Runs = {r1, r2}
  Configs <- SomeConfigs
  Existing <- TakenNumbers
  Absent = Absent
  Empty = Empty
  Mixed = Mixed
  Older = Older
  MaxFaults = 1
  Idle = Idle
INVARIANTS
  OutTypeOK
  SplitFilesRight
  StructsComplete
  SuccessMeansWritten
PROPERTIES
  MapsInOrder
  FinishedDumpsStay
  AllEnd
CHECK_DEADLOCK FALSE
