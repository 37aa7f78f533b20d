SPECIFICATION FairProcSpec
CONSTANT PROCESS_MAX = 3
INVARIANTS ProcTypeOK OffCpuSchedulable SlotsContiguous
PROPERTY ReadyRuns
CHECK_DEADLOCK FALSE
