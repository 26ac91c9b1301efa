SPECIFICATION FairSpec
CONSTANTS
  NumFiles = 2
  Blocks = 7
  Matching = {1, 2, 4, 5, 7}
  PipeSize = 1
  GrepBuffer = 2
INVARIANTS CgmTypeOK ShownInOrder KilledOnlyAfterQuit
PROPERTIES MainEnds GrepEnds
CHECK_DEADLOCK FALSE
