CONSTANTS
    Cpus = {c1, c2}
    Pids = {p1, p2}
    Addresses = {a1}
    None = None
    MaxProc = 2
    MaxMem = 3
    MaxCalls = 3
SPECIFICATION FairSpec
INVARIANTS TypeOK LeaksOnlyLate AccountsBalance
PROPERTIES OnlyRacesCrash EveryCallReturns
\* every process may have made its last call
CHECK_DEADLOCK FALSE
