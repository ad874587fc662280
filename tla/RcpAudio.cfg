SPECIFICATION FairSpec
CONSTANTS
    Devices = {"AI"}
    Polite = FALSE
    WithNMI = TRUE
    SPWrites <- NoWrites
    Breaks = {TRUE}
    Lengths = {1, 3}
    MaxQueued = 2
    MaxDMA = 3
INVARIANTS AudioComplete BusyHasEvent
PROPERTY TransfersEnd
