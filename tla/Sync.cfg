SPECIFICATION SyncSpec
CONSTANTS
  PROCESS_MAX = 3
  SEM_INIT = 1
  THRESHOLD = 2
  MaxRecurse = 2
  MaxWaits = 4
INVARIANTS SyncTypeOK MutualExclusion WaitingIsCurrent SemaphoreAccounting
CHECK_DEADLOCK FALSE
