SPECIFICATION FairSpec
CONSTANTS
    MaxPageId = 1
    Capacity = 2
    Checksums = {1}
    Inputs = {0}
    NewInputs = 0
    Targets = {0, 1, 2}
    MaxPins = 1
    MaxAccesses = 0
    MaxHandle = 3
    Bytes <- MCBytes
    Unallocated = Unallocated
    NoBytes <- MCNoBytes
    Garbage <- MCGarbage
    Source <- MCSource
    Checksum <- MCChecksum
    Codec <- MCCodec
    Raw <- MCRaw
    CodecTable <- ThreeTiers
    Encode <- MCEncode
    Decode <- MCDecode
    Faults <- DeviceFaults
    WithBreaker = TRUE
    RecoveryLookup = "callable"
    Watched = {1}
INVARIANTS
    BytesIntact
    AllOrNothing
    NoOrphanBuffer
PROPERTIES
    PinnedNotMoved
    NoForeignBuffer
    CallReturns
    ChargedFairly
    UsesBreakers
