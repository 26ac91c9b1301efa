SPECIFICATION FairSpec
CONSTANTS
  N_PROC = 3
  InitialCount = 1
  MaxCount = 2
INVARIANTS SemTypeOK LockExclusive SleeperIsListed
PROPERTIES KeepsPermits SleepersAreWoken
CHECK_DEADLOCK FALSE
