SPECIFICATION FairSpec
CONSTANTS
    MAX_SWAP = 1
    MaxQueue = 1
    Calls = {"get", "gen"}
    Buffers = {"b1", "b2"}
    Jobs = {"save", "load"}
    Outcomes = {"done", "refused", "magic"}
    Skips = {TRUE, FALSE}
    Races = {}
INVARIANTS TypeOK OwnArguments ReturnsExecuted FramesAhead ShownAsProduced OwnBuffer NothingLeft
PROPERTY CallsReturn
CHECK_DEADLOCK FALSE
