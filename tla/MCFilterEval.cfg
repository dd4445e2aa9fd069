SPECIFICATION Spec
CONSTANTS
    PrefixPairs <- MCPrefixPairs
    PartPairs <- MCPartPairs
    Events <- MCEvents
    Conditions <- MCConditions
    MaxConditions = 3
INVARIANTS TypeOK VerdictIsFilter
