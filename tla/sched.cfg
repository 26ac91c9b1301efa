SPECIFICATION Spec
CONSTANTS
  NPROC = 3
  MaxTicks = 3
  NiceArgs <- MCNiceArgs
  Codes = {0}
  NoCode = NoCode
  MemoryFails = TRUE
INVARIANTS TypeOK ContextFresh NoLostWakeup SleeperHasLiveChild
           ProcCountExact NoIdleWithReady TicksDelivered
           OnlyOwnChildren NoSleepDeadlock ExitNeverReturns
CHECK_DEADLOCK FALSE
