SPECIFICATION LiveSpec
CONSTANTS
    t1 = t1
    t2 = t2
    Irq = Irq
    Thread = {t1, t2}
    Sigs = {1, 2}
    SIGKILL = 2
    Unblockable = {2}
    DefaultIgnored = {1}
    Actions <- MCActions
    Masks <- MCMasks
    Calls <- MCCalls
    MaxPosts = 2
INVARIANTS
    SignalSound
PROPERTIES
    SignalLive
CHECK_DEADLOCK FALSE
