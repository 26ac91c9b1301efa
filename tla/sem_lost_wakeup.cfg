SPECIFICATION Spec
CONSTANTS
  N_PROC = 2
  InitialCount = 0
  MaxCount = 1
INVARIANT NoSleeperForgotten
CHECK_DEADLOCK FALSE
