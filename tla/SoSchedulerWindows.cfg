CONSTANTS
    t1 = t1
    t2 = t2
    Threads = {t1, t2}
    Main = main
    NULL = null
    SO_MAX_PRIO = 1
    SO_MAX_NUM_EVENTS = 1
    UINT_MAX = 3
    Quanta = {1, 2}
    IoCounts = {1}
    ForkPrios = {0, 1}
    IoIds = {0}
    MaxForks = 2
    MaxSessions = 2
    RootForks = 1
    MainReturnsFirst = TRUE
    ForkErrors = {}
SPECIFICATION WinFairSpec
PROPERTIES
    Library
    QueuedThreadRuns
    EqualsShare
    EndReturns
CHECK_DEADLOCK FALSE
