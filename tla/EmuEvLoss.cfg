CONSTANTS
    Hybrid = FALSE
    Fast = 1
    DiscoverTimeout = 1
    RetrySleep = 3
    IdleMax = 1
    PublishPeriod = 1
    LampWindow = 1
    Blocks <- FuelBlocks
    Served = {"PACK"}
    Records = {"good"}
    Calls <- Charging
    Lamps = {}
    Movers <- VehicleMoves
    Lossy = FALSE
    Late = FALSE
    MaxLag = 0
    MaxTime = 11
    MaxQueue = 1
    MaxMoves = 2
SPECIFICATION Spec
INVARIANTS Inv PolledIsAdvertised
