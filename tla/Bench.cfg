CONSTANTS
    Ecus = {"engine", "gearbox"}
    Values = {"SPEED", "RPM"}
    Advert <- TwoEcus
    Timeout = 1
    MaxLag = 0
    MaxTime = 2
    MaxRequests = 4
    MaxQueue = 2
    Recorded = {"SPEED"}
    Window = 4
    MaxLog = 7
    U32Top <- MCU32Top
    Measured <- MCMeasured
    MaxLost = 257
    MaxSkips = 1
SPECIFICATION BenchSpec
INVARIANTS ClientInv SessionReplays ShownIsMeasured VerdictRight
PROPERTIES DiscoveryCoherent LagIsPaidFor
