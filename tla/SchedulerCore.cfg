SPECIFICATION Spec
CONSTANTS
    W = 4
    Capacity = 3
    CountPerOp = 1
    History = FALSE
    DeviceTypes = {}
    DDTypes = {"DD"}
    Sources = {"DD"}
    Steps = {1}
    IdleSteps = {1}
    Delays = {1}
    VIDelay = 1
    NMIDelay = 1
    Requests = {"none"}
    PowerOnCount = 3
    CountValues = {1}
    CompareAhead = {0}
    StatusValues <- OnERL
    MaxLate = 1
    SignalWhenOverdue = TRUE
INVARIANTS PoolAccounting Coherent
