CONSTANTS
    t1 = t1
    t2 = t2
    t3 = t3
    Threads = {t1, t2}
    Main = main
    NULL = null
    SO_MAX_PRIO = 1
    SO_MAX_NUM_EVENTS = 1
    UINT_MAX = 3
    Quanta = {1, 2}
    IoCounts = {1}
    ForkPrios = {0, 1}
    IoIds = {0}
    MaxForks = 2
    MaxSessions = 1
    RootForks = 1
    MainReturnsFirst = FALSE
    ForkErrors = {}
SPECIFICATION Spec
INVARIANT MutualExclusion
CHECK_DEADLOCK FALSE
