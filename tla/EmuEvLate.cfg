CONSTANTS
    Hybrid = FALSE
    Fast = 1
    DiscoverTimeout = 1
    RetrySleep = 3
    IdleMax = 1
    PublishPeriod = 1
    LampWindow = 1
    Blocks <- OneBlock
    Served = {"PACK", "ASSIST"}
    Records = {"good", "short"}
    Calls <- Charging
    Lamps = {}
    Movers = {}
    Lossy = FALSE
    Late = TRUE
    MaxLag = 0
    MaxTime = 6
    MaxQueue = 2
    MaxMoves = 0
SPECIFICATION Spec
INVARIANT SpeedPolled
PROPERTIES RecordsRecent LinkHolds
