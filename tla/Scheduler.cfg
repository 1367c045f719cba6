SPECIFICATION Spec
CONSTANTS
    CPU = {c1, c2}
    Proc = {p1, p2, p3}
    NoCPU = NoCPU
    NoProc = NoProc
    POLL = POLL
    Chan = {}
    MaxPid = 3
    IgnoresChildren = {}
SYMMETRY Symmetry
INVARIANTS
    OneHome
    StackSafe
    OneCPU
    NoIdleMachine
    FamilySound
