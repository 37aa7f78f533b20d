SPECIFICATION FairProcSpec
CONSTANT PROCESS_MAX = 3
PROPERTY ExitEndsWait
CHECK_DEADLOCK FALSE
