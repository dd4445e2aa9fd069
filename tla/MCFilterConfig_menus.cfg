SPECIFICATION Spec
CONSTANTS
    Texts = {1, 2}
    DefaultText = 9
    PrefixPairs <- MCNoPairs
    PartPairs <- MCNoPairs
    MenuConds = {"FLT_PID"}
    DialogConds = {}
    FilterCommands = {"include", "exclude", "time", "main_type", "restore", "reset", "restart"}
    MaxConditions = 4
INVARIANTS TypeOK RestartKeepsConditions
PROPERTIES ExcludeTakesEffect
