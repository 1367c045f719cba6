SPECIFICATION FairSpec
CONSTANTS
    Callout = {c1, c2}
    Mpsafe = {c2}
    Rearm = {c1}
    User = {{c1}, {c2}}
    Delays = {0, 1, 3}
    WHEEL_SIZE = 2
    MaxTicks = 4
    Timer = Timer
    None = None
PROPERTIES
    CalloutSound
    CalloutLive
