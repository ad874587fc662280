SPECIFICATION SpecVI
CONSTANTS
    W = 12
    Capacity = 4
    CountPerOp = 2
    History = FALSE
    DeviceTypes = {}
    DDTypes = {}
    Sources = {}
    Steps = {2}
    IdleSteps = {}
    Delays = {}
    VIDelay = 4
    NMIDelay = 1
    Requests = {"none", "load", "save"}
    PowerOnCount = 2
    CountValues = {}
    CompareAhead = {}
    StatusValues <- OnOnly
    MaxLate = 0
    SignalWhenOverdue = FALSE
PROPERTY LoadKeepsOrder
CONSTRAINT OneSave
