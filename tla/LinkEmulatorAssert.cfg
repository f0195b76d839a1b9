CONSTANTS
    BUFFER_SIZE = 1
    serialization_delay = 2
    delay = 1
    loss = 10
    corrupt = 10
    MaxForward = 3
    MaxReverse = 0
    MaxLag = 1
SPECIFICATION Spec
INVARIANTS
    NeverAborts
CHECK_DEADLOCK FALSE
