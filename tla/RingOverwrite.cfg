SPECIFICATION Spec
CONSTANTS
    Commands <- Halves
    StartBufferPoolSize = 6
    MaxBufferPoolSize = 6
    Word = 64
    MaxInUse = 4
    Ids = 5
INVARIANT DataIntact
