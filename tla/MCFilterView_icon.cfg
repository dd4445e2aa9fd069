SPECIFICATION ViewSpec
CONSTANTS
    Texts = {1, 2, 3, 5, 6, 7, 8}
    DefaultText = 9
    PrefixPairs <- MCPrefixPairs
    PartPairs <- MCPartPairs
    MenuConds = {}
    DialogConds = {}
    FilterCommands = {"include", "exclude", "restart"}
    MaxConditions = 3
    Events <- MCEvents
    Columns = {"proc_icon"}
    Masks = {1, 2, 3}
PROPERTIES IncludeKeepsIt
