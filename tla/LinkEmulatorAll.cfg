CONSTANTS
    BUFFER_SIZE = 1
    serialization_delay = 2
    delay = 1
    loss = 10
    corrupt = 10
    MaxForward = 3
    MaxReverse = 1
    MaxLag = 0
SPECIFICATION FairSpec
INVARIANTS
    BufferBounded
    Bandwidth
    NoSleepOnWork
PROPERTIES
    ForwardChannel
    NothingStuck
CHECK_DEADLOCK FALSE
