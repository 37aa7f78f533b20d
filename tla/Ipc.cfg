SPECIFICATION IpcSpec
CONSTANTS
  Proc = {p1, p2}
  MSG_MAX = 1
  MAX_BYTES = 1
  Size = {0, 1}
  MsgKey = {7}
  Type = {1, 2}
  Text = {a, b}
  MaxQueued = 2
  SEM_MAX = 1
  SEM_SET_MAX = 2
  SemKey = {7}
  W = 3
  OpLists <- MCOpLists
  SetValues = {1}
  SHM_MAX = 2
  ShmKey = {7}
  Vaddr = {v1, v2, v3, v4}
  NULL = NULL
  MaxRef = 3
  Pid = {0, 1}
  IPC_MAX_MESSAGES = 3
  MaxSent = 4

  kenux = kenux
  remote = remote
  Host = {kenux}
  TcpFds = 2
  TCP_MAX_SOCKETS = 2
  TCP_RX_BUF_SIZE = 1
  TCP_MSS = 1
  TcpPort = {1}
  EphemeralBase = 5
  EphemeralPorts = 1
  TcpLen = {2}
  TcpServer = {kenux}
  TcpClient = {kenux}
  TcpPeer = {remote}
  Closes = TRUE
  Stray <- MCStray
  MaxSeq = 2
  MaxWire = 2

  Bit = {1, 2}
  Neighbour <- MCNeighbour
  Destination <- MCNeighbour
  Leased <- MCLeased
  Mac = {"m1", "m2"}
  ARP_CACHE_SIZE = 1
  UDP_MAX_SOCKETS = 2
  UDP_RX_BUF_SIZE = 2
  UdpFd = {1, 2}
  UdpPort = {1, 2}
  Peer = {"p", "q"}
  DatagramLen = {0, 2}
  HostName = {"h1", "h2"}
  Resolver = {"r1", "r2"}
  DNS_CACHE_MAX = 1
  TTL_MIN = 1
  TTL_MAX = 1
  Answer <- MCAnswer
  LabelLen = {1, 3}
  MaxLabels = 2
  Retries = 2
  MaxQueries = 2
  MaxDnsTime = 1
  FIB_TABLE_MAX = 4
  FIB_ENTRY_MAX = 3
  TableId = {0, 5, 254}
  Prefix <- MCPrefix
  Metric = {0, 1}
  MaxRoutes = 2
  VlanName = {"v1", "v2", "longer"}
  LongName = {"longer"}
  VlanParent = {"e0", "e1"}
  Vid = {1, 2}
  VLAN_MAX_DEVICES = 3
  MaxVlanFrames = 2
  CongSock = {"a", "b"}
  WND = 4
  MSS = 1
  INIT_CWND = 2
  SLOT_MAX = 1
  MaxSwitches = 1
  CUBIC_C = 1
  CUBIC_DEN = 1
  SCALE = 2
  SEQ = 8
  AckNo = {0, 2}
  AckedBytes = {1, 2}
  BDP_GAIN = 1
  BW_WINDOW = 1
  MaxInits = 2
  CUBE_HI = 6

INVARIANTS
  IpcTypeOK QueueAccounting SemLedger AttachedKeepsMemory OnlySentMessages 
PROPERTY QueueIsTypedFifo
CHECK_DEADLOCK FALSE
