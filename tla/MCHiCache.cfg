SPECIFICATION FairSpec

CONSTANTS
    c1 = c1
    c2 = c2
    c3 = c3
    h1 = h1
    h2 = h2
    l1 = l1
    l2 = l2
    Token = {t1, t2}
    Layer <- AllLayers
    HeadNum = 2
    MaxBatch = 2
    Caller = {c1, c2, c3}
    Passes <- AllThree
    NoHooks = NoHooks
    NoCaller = NoCaller
    NoScale = NoScale
    Configured <- OneLayer
    PatchFirst = FALSE

INVARIANTS
    KvValidUnlessMixed
    WrappedOnce

PROPERTIES
    PatchersFinish

CHECK_DEADLOCK FALSE
