SPECIFICATION FairSpec
CONSTANTS
    ncpus = 3
    Shooter = {0, 1}
    Locker = {0, 2}
    MaxCalls = 5
INVARIANTS
    SmpSound
PROPERTIES
    ShootdownEnds
CHECK_DEADLOCK FALSE
