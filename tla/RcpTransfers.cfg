SPECIFICATION FairSpec
CONSTANTS
    Devices = {"PI", "SI", "SP", "VI"}
    Polite = TRUE
    WithNMI = FALSE
    SPWrites <- NoWrites
    Breaks = {TRUE}
    Lengths = {1}
    MaxQueued = 2
    MaxDMA = 3
INVARIANTS OneEventPerTransfer DmaInOrder
PROPERTY TransfersEnd
