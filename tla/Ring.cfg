SPECIFICATION FairSpec
CONSTANTS
    Commands <- Oversized
    StartBufferPoolSize = 6
    MaxBufferPoolSize = 7
    Word = 64
    MaxInUse = 2
    Ids = 3
INVARIANTS TypeOK DataIntact NoSecondWait NoDangling
PROPERTY CreateReturns
CHECK_DEADLOCK FALSE
