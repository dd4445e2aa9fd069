SPECIFICATION Spec
CONSTANTS
    MaxEvents = 3
    Filters = {{2, 3}}
    InitialFilter = {3}
    UICommands = {"drop", "edit", "refilter", "exit"}
    MIN_EVENT_LOG_FILTERED_COUNT = 2
    Reallocates = {}
    NoOne = NoOne
INVARIANTS TypeOK NotReadyUnreachable ViewWithinStore NoMissedMatch
PROPERTIES ImplementsLog
CHECK_DEADLOCK FALSE
