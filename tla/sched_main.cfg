SPECIFICATION MainSpec
CONSTANTS
  NPROC = 4
  NumChildren = 3
  LoopSteps = 2
  MaxTicks = 8
  NiceArgs <- MCNiceArgs
  Codes <- MCCodes
  NoCode = 0
  MemoryFails = TRUE
INVARIANTS EachChildReportedOnce NiceValuesDiffer
PROPERTIES ProgramEnds KeepsOrder
CHECK_DEADLOCK FALSE
