SPECIFICATION ViewSpec
CONSTANTS
    Texts = {1, 2, 3, 5, 6, 7, 8}
    DefaultText = 9
    PrefixPairs <- MCPrefixPairs
    PartPairs <- MCPartPairs
    MenuConds = {}
    DialogConds = {}
    FilterCommands = {"include", "exclude", "focus", "main_type", "time", "dialog_delete", "restore", "restart"}
    MaxConditions = 2
    Events <- MCEvents
    Columns = {"proc_id", "event_icon", "exe_file"}
    Masks = {1, 3}
INVARIANTS ViewTypeOK ViewIsFilter
PROPERTIES IncludeKeepsIt ExcludeHidesIt
