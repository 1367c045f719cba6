CONSTANTS
  A = A
  B = B
  SeqSpace = 32
  Iss <- Issues
  Scenarios <- Cases
  MinMss = 1
  DupThresh = 2
  MaxShift = 1
  KeepCnt = 1
  MaxBurst = 4
SPECIFICATION Spec
INVARIANTS
    TcpSound
    TcpProgress
CHECK_DEADLOCK FALSE
