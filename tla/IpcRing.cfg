SPECIFICATION RingSpec
CONSTANTS
  Pid = {0, 1}
  IPC_MAX_MESSAGES = 3
  MaxSent = 4
INVARIANT ReceivedOnce
CHECK_DEADLOCK FALSE
