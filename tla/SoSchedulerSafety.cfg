CONSTANTS
    t1 = t1
    t2 = t2
    t3 = t3
    Threads = {t1, t2, t3}
    Main = main
    NULL = null
    SO_MAX_PRIO = 1
    SO_MAX_NUM_EVENTS = 1
    UINT_MAX = 3
    Quanta = {1, 2}
    IoCounts = {1}
    ForkPrios = {0, 1, 2}
    IoIds = {0, 1}
    MaxForks = 3
    MaxSessions = 1
    RootForks = 1
    MainReturnsFirst = TRUE
    ForkErrors = {t1, t2, t3}
SPECIFICATION Spec
SYMMETRY ThreadSymmetry
INVARIANTS
    TypeOK
    MutualExclusion
    NoStrayWakeup
    NoThreadLost
    NoNullDereference
    HighestPriorityRuns
    EndFreesUnused
PROPERTY HandsOver
CHECK_DEADLOCK FALSE
