SPECIFICATION FairSpec
CONSTANTS
    Devices = {"SP", "DP", "VI"}
    Polite = TRUE
    WithNMI = TRUE
    SPWrites <- AllWrites
    Breaks = {TRUE, FALSE}
    Lengths = {1}
    MaxQueued = 3
    MaxDMA = 0
INVARIANT NoLostInterrupt
PROPERTY TasksEnd
