SPECIFICATION FairSpec
CONSTANTS
    Reader = {r1}
    Writer = {w1, w2}
    Nonblock = {w2}
    Lengths = {1, 2, 4}
    PIPE_BUFFER_SIZE = 3
    PIPE_ATOMIC = 2
    MaxWrites = 2
    NoByte = NoByte
INVARIANTS
    PipeSound
PROPERTIES
    ImplementsPipe
    WriteCompletes
CHECK_DEADLOCK FALSE
