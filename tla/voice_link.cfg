SPECIFICATION FairSpec
CONSTANTS
    Tools = {}
    Spoken = {}
    MaxReconnectAttempts = 1
    MaxPendingSayLines = 1
    MaxExtras = 1
    SemanticVad = TRUE
    FrameUnits = 1
    MaxQueuedFrames = 1
    Waiters = {"farewell"}
    Mishaps = {"terminal", "complaint", "no_echo", "refuse", "hang", "guard", "long_goodbye", "caller"}
    MaxLines = 1
    MaxNoise = 0
    MaxDrops = 1
    MaxDeltas = 1
    MaxInFlight = 2
INVARIANTS TypeOK ReadyMeansConnected
PROPERTIES ContractSpec SessionSettles ClosingEnds
CHECK_DEADLOCK FALSE
