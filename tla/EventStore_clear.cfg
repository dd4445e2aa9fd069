SPECIFICATION Spec
CONSTANTS
    MaxEvents = 4
    Filters = {}
    InitialFilter = {1, 3, 4}
    UICommands = {"clear", "switch", "save", "exit"}
    MIN_EVENT_LOG_FILTERED_COUNT = 2
    Reallocates = {}
    NoOne = NoOne
INVARIANTS NothingAnnouncedTwice ViewInOrder ViewOnlyMatches
CHECK_DEADLOCK FALSE
