CONSTANTS
    Modes = {"none", "ack", "parity", "hamming"}
    High = 14
    MaxTries = 4
    COUNT = 30
    Letters <- AllLetters
    MaxFlips = 2
    MaxBackFlips = 2
SPECIFICATION Spec
INVARIANTS Understood GameWon
PROPERTY Finishes
\* the server waits in recv when the client has ended
CHECK_DEADLOCK FALSE
