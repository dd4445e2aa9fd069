SPECIFICATION FairSpec
CONSTANTS
    MaxEvents = 2
    Filters = {{1, 2}}
    InitialFilter = {2}
    UICommands = {"edit", "reset", "refilter", "clear", "save", "exit"}
    MIN_EVENT_LOG_FILTERED_COUNT = 2
    Reallocates = {1}
    NoOne = NoOne
INVARIANTS StoreHoldsLive
PROPERTIES RefilterEnds EventSettles ExitCompletes
CHECK_DEADLOCK FALSE
