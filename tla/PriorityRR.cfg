SPECIFICATION ProcSpec
CONSTANT PROCESS_MAX = 3
PROPERTY PriorityRoundRobin
CHECK_DEADLOCK FALSE
