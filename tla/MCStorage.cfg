SPECIFICATION StorageSpec
CONSTANTS
  Total = 4
  CS = 2
  PageLen = 2
  FatNames <- NM
  Fold <- MCFold
  ExactRaw <- MCExact
  Basis <- MCBasis
  LfnSlots <- MCLfn
  NameHash <- MCHash
  IndexMin = 2
  MaxIndexes = 1
  MaxCandidates = 1
  NodeIds = {n1, n2}
  Fids = {1, 2, 3}
  MaxSize = 3
  FatCases <- MCCases
  Threads = {t1, t2}
  FileIds = {f1, f2}
  TableIds = {b1, b2}
  Fds = {0, 1}
  MaxFileCalls = 4
  Instances = {1, 2}
  NoteDirs = {"d", "e"}
  Leaves = {"a", "b"}
  NoteThreads = {1, 2}
  QueueSlots = 6
  NoteCases <- MCNoteCases
  EFds = {1, 2, 3, 4}
  EFiles = {1, 2, 3, 4}
  EThreads = {1, 2}
  EPOLL_MAX_DEPTH = 2
  EpollCases <- EpollCasesDef
  XThreads = {1, 2}
  PAGE_CHUNK = 2
  COPY_CHUNK = 3
  SizeMod = 64
  FileMax = 6
  PipeRoom = 4
  TransferCases <- TransferCasesDef
  Devs = {1, 2}
  NBlocks = 2
  Syncers = {3}
  SyncOf <- MCSyncOf
  MaxBlocks = 2
  DirtyHigh = 1
  RunMax = 4
  RaMax = 2
  BcCases <- MCBcCases
  TTY_BUFFER = 3
  TReaders = {1, 2}
  Terminals = {1, 2}
  TabStop = 3
  TtyCases <- TtyCasesDef
  VTerms = {1, 2}
  VT_MAX_PARAMS = 5
  VtTab = 2
  VtParamLimit = 10
  ScreenCases <- ScreenCasesDef
INVARIANTS
  InotifySound
  EpollSound
  TransferSound
  BcacheSound
PROPERTIES
  FatSound
  FilesSound
  
CHECK_DEADLOCK FALSE
