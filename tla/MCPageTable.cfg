SPECIFICATION Spec
CONSTANTS
    MaxPageId = 2
    Capacity = 2
    Checksums = {1, 2}
    Inputs = {0, 1}
    NewInputs = 0
    Targets = {1}
    MaxPins = 1
    MaxAccesses = 1
    InitialIndex = 1
    IndexSlack = 1
INVARIANTS
    TableInv
PROPERTIES
    GoneForGood
    BatchReachesItsPages
    ImplementsPageMap
