CONSTANTS
    Lines <- ShortLines
    None = None
    Pids = {1, 2, 3, 4, 5, 6, 7, 8}
    Slots = {0, 1, 2, 3, 4, 5, 6, 7, 8}
    Pipes = {1, 2}
SPECIFICATION Spec
INVARIANTS TypeOK Priorities Restored Plumbing
PROPERTY Completes
\* the shell may end
CHECK_DEADLOCK FALSE
