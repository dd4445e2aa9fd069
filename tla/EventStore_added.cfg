SPECIFICATION Spec
CONSTANTS
    MaxEvents = 2
    Filters = {}
    InitialFilter = {1, 2}
    UICommands = {"clear"}
    MIN_EVENT_LOG_FILTERED_COUNT = 2
    Reallocates = {}
    NoOne = NoOne
INVARIANTS
    AddedItemsFit
