SPECIFICATION ChanSpec
CONSTANTS
  FIFO_PIPE_SIZE = 3
  FifoReader = {r1}
  FifoWriter = {w1, w2}
  FifoChunk = 4
  MaxFifoBytes = 7
  Sock = {1, 2, 3}
  UskProc = {u1, u2}
  Acceptor = {u1}
  Connector = {u2}
  Sender = {u2}
  Receiver = {u1}
  Shutter = {2}
  UskSend = {1}
  UskRecv = {1}
  Path = {x}
  NoSock = 0
  NoPath = NoPath
  UNIX_SOCK_MAX = 3
  UNIX_SOCK_RECV_BUF = 1
  UNIX_SOCK_BACKLOG_MAX = 1
  UskTypes = {"STREAM", "DGRAM"}
  ShutHow <- ShutBoth
  MaxUskBytes = 2
  MaxUskRefs = 2
  EPOLL_MAX_INSTANCES = 1
  EPOLL_MAX_FDS = 2
  EPOLL_READY_QUEUE_SIZE = 4
  EpFd = {3, 4}
  EpProc = {e1}
  EpEvents = {"IN"}
  FdProc = {1, 2}
  Child = {2}
  StdFds = 1
  KAPI_FD_MAX = 2
  KAPI_MAX_OPEN_FILES = 1
  FS_MAX_OPEN_FDS = 2
  Node = {n1}
  NoNode = NoNode
  TMPFS_BLOCK_SIZE = 1
  MaxPipes = 1
  MaxOffset = 2
  ReadSize = {1}
  WriteSize = {2}
  SeekTo = {0}
  NewFlags = {"RDONLY"}
  Uid = {0, 1, 2}
  FdName = {"/", "kenux"}

  journal_blocks = 5
  JBlock = {1}
  DataWord = 1
  TransMaxBlocks = 1
  MaxStarted = 2
  MaxCrashes = 1

  NVME_ADMIN_QUEUE_DEPTH = 3
  NvmeNs = {1}
  VqNum = 4
  MaxPosted = 4

  MountDir = {"/a", "/ab"}
  PrefixOf <- MCPrefixOf
  FsType = {"ext4", "tmpfs"}
  FS_MAX_MOUNTS = 2
  MountSlot = {1, 2}
  DentrySlot = {1, 2, 3}
  InodeSlot = {1, 2}
  MaxFsMounts = 3

  NDIR = 2
  PerBlock = 4
  PerSector = 2
  Holes <- MCHoles
  ExtentTrees <- MCExtentTrees
  ZERO_LEN = 4
  LBlock = {0, 1, 2, 3, 4, 5, 6, 7, 8, 9, 10}
  EXT4_MAX_FS = 3
  Ext2Mounts = 2
  Ext2Fds = 2
  BLOCK_SIZE = 4
  SECTOR = 2
  Ext2File <- MCExt2File
  FarFile <- MCFarFile
  Ext2ReadSize = {5, 9}
  MaxExt2Offset = 9
  Directory <- MCDirectory
  DirName = {"d1", "d2"}

INVARIANTS
  ChanTypeOK
  StreamOrder
  UskMemorySafe
  TablesAgree
  
 
CHECK_DEADLOCK FALSE
