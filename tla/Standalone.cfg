CONSTANTS
    Openings <- Games
    MaxFree = 3
    Words <- SomeWords
    MaxOps = 4
    Types = {"input", "card"}
    Gaps = {0, 1, 10, 11}
    MaxEvents = 4
INIT Init
NEXT Next
INVARIANTS MacroIsTrue SentWhereTheRulesSay ListsTheBag ClustersAreTheRuns
\* the games, lists and sequences are bounded
CHECK_DEADLOCK FALSE
