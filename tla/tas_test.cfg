SPECIFICATION FairSpec
CONSTANTS
  N_PROC = 3
  Increments = 3
INVARIANTS TasTypeOK LockExclusive FinalValue
PROPERTY ChildrenEnd
CHECK_DEADLOCK FALSE
