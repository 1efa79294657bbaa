SPECIFICATION FairSpec
CONSTANTS
    WordSize = 16
    RR_MAX_QUEUE_LEN = 8
    Program <- Branching
    Masked = {1}
    Data = {0, 1}
    MaxTB = 2
    LoopTries = 20
    MaxDev = 2
    MaxRec = 2
    MaxRep = 1
INVARIANTS
    TypeOK
    ReplaySurvives
    StopsInTime
    
    LogOrdered
    WindowOwned
CHECK_DEADLOCK FALSE
PROPERTIES
    ReplayIsDeterministic
