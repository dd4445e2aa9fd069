SPECIFICATION ViewSpec
CONSTANTS
    Texts = {1, 2, 3, 5, 6, 7, 8}
    DefaultText = 9
    PrefixPairs <- MCPrefixPairs
    PartPairs <- MCPartPairs
    MenuConds = {}
    DialogConds = {}
    FilterCommands = {"time", "restart"}
    MaxConditions = 3
    Events <- MCEvents
    Columns = {"proc_id", "exe_file"}
    Masks = {1, 2, 3}
PROPERTIES EndTimeKeepsIt
