SPECIFICATION FairSpec
CONSTANTS
    fp8 = fp8
    bf16_fp8 = bf16_fp8
    fp8_bf16 = fp8_bf16
    Key = {bf16_fp8, fp8_bf16}
    NoKey = NoKey
    Codec = {fp8}
    CodecOf <- SharedCodec
    Threshold = 3
    Window = 2
    Cooldown = 2
INVARIANTS
    FailuresBounded
PROPERTIES
    FailingTransitionDisabled
    TripJustified
    ImplementsBreakers
    TripEnds
