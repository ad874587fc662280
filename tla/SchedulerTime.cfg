SPECIFICATION SpecVI
CONSTANTS
    W = 40
    Capacity = 5
    CountPerOp = 2
    History = TRUE
    DeviceTypes = {"PI"}
    DDTypes = {}
    Sources = {"PI"}
    Steps = {2}
    IdleSteps = {}
    Delays = {6}
    VIDelay = 12
    NMIDelay = 2
    Requests = {"none"}
    PowerOnCount = 4
    CountValues = {}
    CompareAhead = {13}
    StatusValues <- OnOnly
    MaxLate = 2
    SignalWhenOverdue = FALSE
    Lag = 12
INVARIANTS CycleCountExact NoEarlyService OverdueIsServiced OrderedByDue
