CONSTANTS
  RcuHead = {h1, h2}
  RcuProc = {p1, p2}
  MaxNesting = 2

  KtSlot = {1, 2, 3}
  KtUser = {u1, u2}

  SgProc = {0, 1}
  Sig = {9, 18, 19, 32}
  SIGKILL = 9
  SIGSTOP = 19
  SIGCONT = 18
  SIGRTMIN = 32
  SigIgnored = {17, 23, 28, 29}
  SigStops = {19, 20, 21, 22}
  SIGQUEUE_MAX = 2
  SaMask <- MCSaMask
  Target = {1}
  Caught = {32}
  MaxSends = 3

  SWAP_MAX_AREAS = 3
  SwapSlots = 1
  MaxAdded = 4
  MaxSwapped = 4
  CacheKey = {1, 2}
  Cacher = {c1, c2}
  MaxEntries = 2
  MaxVersion = 1
  FaultPage = {0, 1}
  stack_top = 0
  MAX_STACK_SIZE = 2
  USER_STACK_TOP = 7
  AddressSpace = 16
  MaxFaults = 4

  Governors <- MCGovernors
  OtherGovernor = "user"
  CPUFREQ_MAX_GOVERNORS = 3
  MaxFreq = 5
  MinFreq = 2
  CPUFREQ_TABLE_MAX = 3
  TripAt = 3
  Hysteresis = 1
  Temp = {0, 1, 2, 3}
  CoolingMax = 2
  Poller = {t1, t2}
  WdtDriver = {"w1", "w2"}
  WdtSource <- MCWdtSource
  WdtAction <- MCWdtAction
  WATCHDOG_MAX_DEVICES = 2
  Timeout = {1}
  HpetAvailable = TRUE
  AcpiAvailable = FALSE
  MaxTick = 1
  SleepTypes = {"S3", "S4"}
  MaxIdles = 2

  DevSlot = {1, 2}
  Major = {1, 2}
  DevUser = {u1, u2}
  MaxAllocs = 3
  KtimerSlot = {1, 2}
  Interval = {2}
  TscAhead = 2
  ClockMod = 16
  MaxClock = 3
  MaxSets = 3
  DevName = {"null", "sda", "tty"}
  DEVTMPFS_MAX = 3
  DefaultDevs <- MCDefaultDevs
  MaxNodes = 3
  Kobj = {1, 2}
  MaxKrefs = 2
  KAPI_SYSFS_MAX_ATTRS = 2
  DebugSlot = {1, 2, 3, 4}

  LsmName = {"a", "longname", "cut"}
  CutName <- MCCutName
  Provides <- MCProvides
  MaxRegs = 3
  CredTask = {"init", "child"}
  Uid = {0, 1, 2}
  Cap = {"SYS_ADMIN", "KILL"}
  SELINUX_SID_MAX = 23
  Context = {"app_t", "kernel_t", "log_t"}
  Checker = {"t1", "t2"}
  CheckedHook <- MCCheckedHook
  SELINUX_FIELD_MAX = 3
  MaxFlushes = 1

  MEMORY_POOL_SIZE = 3
  MemoryLimit = 12
  AskSize = {1, 2}
  MaxAligned = 1
  BUDDY_MAX_ORDER = 2
  BASE_PFN = 3
  TotalPages = 9
  ArrayPages = 1
  MaxPageAllocs = 5
  ObjsPerSlab = 3
  Slab = {s1, s2}
  MaxGone = 2
  MaxElems = 3
  MAX_NR = 3
  ALLOC_TABLE_MAX = 3
  LibcPages = 5
  PageBytes = 2
  SIZE_MOD = 8
  MallocSize = {1, 3}

  RbKey <- MCRbKey
  FifoSize = {2, 3, 4}
  COUNTER = 16
  KAPI_IDR_MAX = 4
  HashNode = {n1, n2, n3}
  HashKey = {"a", "b", "c"}
  Hash <- MCHash
  NullHash = 1
  KAPI_HASH_BITS_MIN = 1
  KAPI_HASH_BITS_MAX = 2
  Notifier = {1, 2, 3}
  SortValue = {1, 2, 3}
  SortLength = 5

  RtcStart <- MCRtcStart
  StrChar = {" ", "-", "0", "7", "f", "x"}
  StrLength = 4
  StrBase = {0, 8, 10, 16}
  I2cTask = {it1, it2}
  I2C_MAX_BUSES = 2
  I2C_SMBUS_MAX_BLOCK = 2
  MaxFunctions = 2
  MaxI2cStarts = 3
  SeqTask = {sq1, sq2}
  KAPI_SEQ_MAX_ENTRIES = 2
  KAPI_SEQ_BUF_SIZE = 3
  SeqSize = {0, 1, 2}
  SeqName = {"stat"}
  MaxSeqOpens = 3
  MODULE_MAX = 2
  LDSO_MAX_LIBS = 2
  LibName = {"liba", "libb"}
  LdTask = {lt1, lt2}
  LdSym = {"open"}
  Needs <- MCNeeds
  MaxLibLoads = 3
  MaxLibRefs = 2
  ModName = {"fs", "net"}
  ModTask = {mt1, mt2}
  MaxLoads = 3
  MaxRefs = 1
  SymbolsOf <- MCSymbolsOf
  Exported = {"log"}
  Image <- MCImage
  PAGE = 4
  BUFFER = 16

  CfsTask = {1, 2, 3}
  NiceOf <- MCNiceOf
  Weights <- MCWeights
  CFS_NICE_MIN <- MCNiceMin
  CFS_NICE_MAX = 1
  CFS_NICE_0_LOAD = 2
  CFS_TARGET_LATENCY = 1
  CFS_TICK_NSEC = 2
  VRUNTIME = 16
  MaxTicks = 1

  LogProc = {"p", "q"}
  LOG_BUF_SIZE = 3
  MaxLogged = 3
  KbdReader = {1, 2}
  KBD_BUFFER_SIZE = 3
  MaxEvents = 4
  MaxStrokes = 2
  MaxPackets = 1
  MOUSE_BUFFER_SIZE = 2
  MaxHostSends = 3
  GdbAddr = {1, 2, 3}
  GDB_BP_MAX = 3

SPECIFICATION Spec
INVARIANTS MachineTypeOK    
CHECK_DEADLOCK FALSE
