SPECIFICATION Spec
CONSTANTS
    Texts = {1, 2}
    DefaultText = 9
    PrefixPairs <- MCNoPairs
    PartPairs <- MCNoPairs
    MenuConds = {"FLT_PID"}
    DialogConds = {"FLT_PATH"}
    FilterCommands = {"exclude", "focus", "dialog_add", "dialog_delete", "restore", "reset"}
    MaxConditions = 4
INVARIANTS RestartKeepsConditions
PROPERTIES ExcludeTakesEffect
