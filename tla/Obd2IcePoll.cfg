CONSTANTS
    Fast = 1
    DiscoverTimeout = 2
    RetrySleep = 6
    IdleMax = 1
    PublishPeriod = 1
    LampWindow = 3
    Blocks <- TwoBlocks
    Fillers = {"MODULE_VOLTAGE"}
    Lamps = {}
    Lossy = TRUE
    BusErrors = TRUE
    MaxLag = 0
    MaxTime = 10
    MaxQueue = 0
    MaxMoves = 2
SPECIFICATION Spec
INVARIANTS Inv KeepsPublishing
PROPERTIES ValidRecent LayoutHolds IceSession
