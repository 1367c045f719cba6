SPECIFICATION FairSpec
CONSTANTS
    CPU = {c1}
    Proc = {p1, p2}
    NoCPU = NoCPU
    NoProc = NoProc
    POLL = POLL
    Chan = {POLL}
    MaxPid = 4
    IgnoresChildren = {}
PROPERTIES
    ReadyRuns
