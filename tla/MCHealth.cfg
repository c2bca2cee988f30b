SPECIFICATION Spec
CONSTANTS
    Pressures = {8000, 9000, 9920, NaN}
    NaN = NaN
    Elevated = 8500
    Saturated = 9900
    PEmergencies = {7000, 9000, 9950}
    Results = {0, 2, 4}
    Levels = {4}
    CodecName = {"fp8"}
    MaxLen = 4
    MinSample = 3
    CorruptRate = 50
    FailureRate = 75
    PressureRate = 25
INVARIANTS
    
    RecoversInTime
    WorseNeverHelps
