SPECIFICATION NetSpec
CONSTANTS
  ArpIps = {1, 2}
  ArpHws = {h1, h2}
  ARP_MAX_PENDING = 2
  ARP_MAX_TRIES = 2
  ArpRetry = 2
  ArpReachable = 3
  ArpBatch = 1
  MaxArpPackets = 3
  MaxArpTime = 5
  MaxArpInput = 2
  Nbrs = {n1, n2}
  NdPrefixes = {p1, any}
  AnyPrefix = any
  NdMaxNeighbors = 2
  NdMaxPending = 1
  NdMaxTx = 1
  NdMulticastTries = 1
  NdUnicastTries = 1
  NdRetrans = 1
  NdReachable = 2
  NdDelay = 1
  NdStale = 2
  NdLifetimes = {0, 2}
  NdCases <- MCNdCases
  Group <- MCGroup
  DadTransmits = 1
  MaxSolicits = 2
  MldRobustness = 2
  TwoHours = 2
  A6Lifetimes = {0, 1, 3, 9}
  Infinite = 9
  A6Delays = {1, 2}
  MaxA6Time = 5
  A6Cases <- MCA6Cases
  Ifs = {i1, i2}
  DOffers <- MCDOffers
  DTaken = {"a3"}
  RequestTries = 2
  RetryMin = 1
  DeclineWait = 1
  Backoffs = {1, 2}
  DInfinite = 9
  MaxDhcpTime = 5
  DhcpCases <- MCDhcpCases
  D6Offers <- MCD6Offers
  D6Taken = {"a3"}
  ReqMaxRc = 2
  D6Waits = {1, 2}
  D6Infinite = 9
  D6Refreshes = {2, 9}
  MaxD6Time = 7
  D6Cases <- MCD6Cases
  MaxQueues = 2
  MaxFrags = 3
  MaxUnits = 4
  FragTimeout = 2
  FragIfs = {e1, e2}
  MaxFragTime = 2
  FragCases <- MCFragCases
  Bits = 5
  ErrorsPerWindow = 1
  IpHz = 2
  MaxIpTime = 3
  IpHosts = {"A", "B"}
  IpIfs = {"e", "f"}
  IpCases <- MCIpCases
  Socks = {1, 2, 3, 4}
  SockThreads = {1, 2}
  NoSock = 0
  Hiwat = 2
  Backlog = 2
  SockCases <- MCSockCases
  Pcbs = {1, 2, 3}
  NoPcb = 0
  AnyAddr = any
  V4 = {l4, r4, u4}
  V6 = {l6, r6}
  Local = {l4, l6}
  Unreachable = {u4}
  Groups = {g4}
  Ports = {5}
  Ephemeral = {11, 12}
  RcvMax = 1
  UdpCases <- MCUdpCases
  Procs = {1, 2}
  IrqCpu = 1
  NTx = 4
  NRx = 3
  MaxParts = 2
  TxBatch = 2
  NqLen = 4
  NicCases <- NicCasesDef
INVARIANTS
  FragmentsSound
  UdpSound
  NicSound
PROPERTIES
  NeighborsSound
  Addr6Sound
  LeasesSound
  IpSound
  SocketsSound
CHECK_DEADLOCK FALSE
