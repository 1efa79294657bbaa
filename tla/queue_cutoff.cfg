SPECIFICATION FairSpec
CONSTANTS
    WordSize = 16
    RR_MAX_QUEUE_LEN = 1
    Program <- Branching
    Masked = {1}
    Data = {0, 1}
    MaxTB = 2
    LoopTries = 20
    MaxDev = 2
    MaxRec = 2
    MaxRep = 1
CHECK_DEADLOCK FALSE
INVARIANTS
    NeverAhead
