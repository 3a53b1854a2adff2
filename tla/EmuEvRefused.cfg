CONSTANTS
    Hybrid = FALSE
    Fast = 1
    DiscoverTimeout = 1
    RetrySleep = 3
    IdleMax = 1
    PublishPeriod = 1
    LampWindow = 1
    Blocks <- OneBlock
    Served <- AllDids
    Records = {"good", "refused"}
    Calls <- Charging
    Lamps = {}
    Movers = {}
    Lossy = FALSE
    Late = FALSE
    MaxLag = 0
    MaxTime = 12
    MaxQueue = 1
    MaxMoves = 0
SPECIFICATION Spec
PROPERTIES RefusedNotValid
