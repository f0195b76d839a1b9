CONSTANTS
    Lines <- ShortLines
    None = None
    Threads = {1, 2, 3, 4, 5}
SPECIFICATION WinSpec
INVARIANT FilesClosed
\* the shell may end
CHECK_DEADLOCK FALSE
