SPECIFICATION Spec
CONSTANTS
  NumFiles = 1
  Blocks = 2
  Matching = {1}
  PipeSize = 1
  GrepBuffer = 2
INVARIANT NoStandstill
CHECK_DEADLOCK FALSE
