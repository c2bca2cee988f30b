SPECIFICATION Spec
CONSTANTS
    MaxPageId = 0
    Capacity = 1
    Checksums = {1}
    Inputs = {0}
    NewInputs = 0
    Targets = {0, 1}
    MaxPins = 1
    MaxAccesses = 0
    MaxHandle = 4
    Bytes <- MCBytes
    Unallocated = Unallocated
    NoBytes <- MCNoBytes
    Garbage <- MCGarbage
    Source <- MCSource
    Checksum <- MCChecksum
    Codec <- MCCodec
    Raw <- MCRaw
    CodecTable <- TwoTiers
    Encode <- MCEncode
    Decode <- MCDecode
    Faults <- NoFaults
    WithBreaker = FALSE
    RecoveryLookup = "callable"
    Watched = {0}
INVARIANT
    HealthyCodecVerifies
