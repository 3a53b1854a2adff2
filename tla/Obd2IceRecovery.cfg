CONSTANTS
    Fast = 1
    DiscoverTimeout = 1
    RetrySleep = 3
    IdleMax = 1
    PublishPeriod = 1
    LampWindow = 1
    Blocks <- OneBlock
    Fillers = {}
    Lamps = {"ABS"}
    Lossy = FALSE
    BusErrors = FALSE
    MaxLag = 1
    MaxTime = 9
    MaxQueue = 1
    MaxMoves = 2
SPECIFICATION Spec
INVARIANT RecoveryReported
PROPERTY LampsRecent
