SPECIFICATION FairSpec
CONSTANTS
    Poller = {p1, p2}
    Epoll = {p2}
    File = {s1, f1}
    Socket = {s1}
    AllBits = {{s1}, {}}
    PollSets = {{f1}}
    EpollSets = {{f1}, {s1, f1}}
    MaxSeq = 2
INVARIANTS
    PollSound
PROPERTIES
    EventSeen
CHECK_DEADLOCK FALSE
