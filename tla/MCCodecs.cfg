SPECIFICATION CodecsSpec
CONSTANTS
    Names <- AllNames
    HiddenDims = {3, 6}
    GroupSize = 3
    Sigma = 1
    INT4Group = 4
    Fine = 16
    Pages <- SomePages
    Numbers <- SomeNumbers
INVARIANTS
    DitheredInPlace
    INT4InPlace
    RequantizingIsStable
    FP8Close
