CONSTANTS
    c1 = c1
    c2 = c2
    Clients = {c1, c2}
    N = 2
    Names = {"ana", "dan", "nobody"}
    Known = {"ana", "dan"}
    Dirs = {"ana"}
    Typed <- TypedAll
    MaxTyped = 3
SPECIFICATION FairSpec
INVARIANTS
    TypeOK
    ReadyStaysReady
    AnswersTheRequest
CHECK_DEADLOCK FALSE
PROPERTIES
    SizeAnswered
    Released
