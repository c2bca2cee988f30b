SPECIFICATION FairSpec

CONSTANTS
    Page = {p1}
    Weight <- DefaultWeight
    ThetaHigh = 7200
    ThetaLow = 3300
    Delta = 400
    PEmergency = 9500
    CodecConfigs <- AllConfigs
    HasFp8 = FALSE
    Registry <- Codecs
    Identity = {"bf16"}
    Features <- DefaultFeatures
    Pressures = {8000, 9500, 9800, 10000}

INVARIANTS
    GradualMoves
    EmptySlotsUnreachable
    PressureOnlyColder

PROPERTIES
    HysteresisBand
    PagesFollowScores
