SPECIFICATION Spec
CONSTANTS
    Kinds = {"mock", "shadow"}
    Tier = {0, 1}
    Sizes = {0, 1, 3}
    Budgets = {1, 2}
    MaxHandle = 3
    MaxResizes = 1
    MaxOverwritten = 1
INVARIANTS
    UsedIsSum
    TierShares
PROPERTIES
    ImplementsMemory
