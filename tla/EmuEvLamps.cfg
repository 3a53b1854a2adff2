CONSTANTS
    Hybrid = FALSE
    Fast = 1
    DiscoverTimeout = 1
    RetrySleep = 4
    IdleMax = 1
    PublishPeriod = 1
    LampWindow = 1
    Blocks <- TwoBlocks
    Served = {}
    Records = {"good"}
    Calls <- Charging
    Lamps = {"ABS"}
    Movers <- EngineMoves
    Lossy = FALSE
    Late = FALSE
    MaxLag = 0
    MaxTime = 8
    MaxQueue = 1
    MaxMoves = 1
SPECIFICATION Spec
PROPERTIES LampsRecent
