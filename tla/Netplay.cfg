SPECIFICATION FairSpec
CONSTANTS
    A = A
    B = B
    Clients = {A, B}
    NPlayers = 1
    Controls <- OneAndSpectator
    Keys = {0, 1}
    Released = 0
    Word = 8
    PerPacket = 2
    MaxCount = 2
    Reads <- TwoAndOne
INVARIANT NothingStale
PROPERTIES SameInputs GetInputReturns
