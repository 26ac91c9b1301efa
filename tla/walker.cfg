SPECIFICATION FairSpec
CONSTANTS
  Trees <- MCTrees
  UserFilters <- MCUserFilters
  atoi <- MCatoi
  getpwnam <- MCgetpwnam
  TimeFilters <- MCTimeFilters
  MaxTime = 1
  MaxDepth = 3
  
PROPERTY WalkEnds
CHECK_DEADLOCK FALSE
