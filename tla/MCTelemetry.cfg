SPECIFICATION FairSpec
CONSTANTS
    Status = {0}
    Tier = {0, 1}
    State = {}
    Page = {1}
    Port = {9100, 9101}
    NoPort = 0
    MaxCount = 3
    MaxReports = 2
INVARIANTS
    GaugesCountPages
    NeverAhead
PROPERTIES
    CatchesUp
