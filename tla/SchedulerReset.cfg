SPECIFICATION Spec
CONSTANTS
    W = 4
    Capacity = 5
    CountPerOp = 1
    History = FALSE
    DeviceTypes = {}
    DDTypes = {}
    Sources = {"VI"}
    Steps = {1}
    IdleSteps = {}
    Delays = {1}
    VIDelay = 1
    NMIDelay = 1
    Requests = {"none", "soft", "hard", "stop"}
    PowerOnCount = 3
    CountValues = {}
    CompareAhead = {}
    StatusValues <- OnOnly
    MaxLate = 0
    SignalWhenOverdue = FALSE
INVARIANTS TimersQueued SkipJumpConsumed
