CONSTANTS
    c1 = c1
    c2 = c2
    Clients = {c1, c2}
    N = 2
    Names = {"ana", "dan", "nobody"}
    Known = {"ana", "dan"}
    Dirs = {"ana"}
    Typed <- TypedAll
    MaxTyped = 4
SPECIFICATION Spec
INVARIANTS
    OwnAttempts
CHECK_DEADLOCK FALSE
