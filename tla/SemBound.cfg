SPECIFICATION SyncSpec
CONSTANTS
  PROCESS_MAX = 3
  SEM_INIT = 1
  THRESHOLD = 2
  MaxRecurse = 2
  MaxWaits = 4
INVARIANT SemaphoreBound
CHECK_DEADLOCK FALSE
