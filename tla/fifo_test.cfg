SPECIFICATION FairSpec
CONSTANTS
  N_PROC = 5
  numWriters = 4
  longs_per_writer = 3
  MYFIFO_BUFSIZ = 3
  WriterUnit = 3
INVARIANTS ReaderNeverFails ProcNumsDiffer
PROPERTY ReaderSucceeds
CHECK_DEADLOCK FALSE
