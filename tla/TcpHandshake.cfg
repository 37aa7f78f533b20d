CONSTANTS
  Host = {A, B}
  TcpFds = 1
  TCP_MAX_SOCKETS = 2
  TCP_RX_BUF_SIZE = 1
  TCP_MSS = 1
  TcpPort = {1}
  EphemeralBase = 5
  EphemeralPorts = 1
  TcpLen = {}
  TcpServer = {B}
  TcpClient = {A}
  TcpPeer = {B}
  Closes = FALSE
  Stray = {}
  MaxSeq = 1
  MaxWire = 2
SPECIFICATION TcpSpec
PROPERTY HandshakeCompletes
CHECK_DEADLOCK FALSE
