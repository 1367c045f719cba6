SPECIFICATION MachineSpec
CONSTANTS
  NPages = 3
  NFrames = 4
  Spaces = {1, 2}
  Cpus = {1, 2}
  FileLen = 2
  VmCases <- MCVmCases
  NHeapCpus = 2
  HeapPageSize = 12
  BIN_STEP = 2
  BIN_COUNT = 2
  CACHE_MAX = 3
  CACHE_BATCH = 2
  BIN_SLAB_PAGES = 1
  HEAP_INITIAL_PAGES = 1
  HEAP_GROW_PAGES = 2
  LARGE_ALLOC_THRESHOLD = 14
  MallocMax = 40
  UintMax = 63
  HeapCases <- HeapCasesDef
  PageSize = 2
  DmaFrameCount = 8
  DTags = {1, 2, 3}
  DMaps = {1, 2}
  DmaCases <- DmaCasesDef
  QSize = 6
  Inflight = 2
  MaxSegs = 2
  NSectors = 2
  VbCases <- VbCasesDef
  AtaRetries = 1
  NLba = 2
  AtaCases <- AtaCasesDef
INVARIANTS
  
  HeapSound
  DmaSound
PROPERTIES
  DisksSound
CHECK_DEADLOCK FALSE
