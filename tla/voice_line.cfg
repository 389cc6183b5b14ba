SPECIFICATION Spec
CONSTANTS
    Tools = {"lookup", "end_call"}
    Spoken = {"lookup"}
    MaxReconnectAttempts = 1
    MaxPendingSayLines = 2
    MaxExtras = 1
    SemanticVad = TRUE
    FrameUnits = 1
    MaxQueuedFrames = 2
    Waiters = {"farewell"}
    Mishaps = {}
    MaxLines = 0
    MaxNoise = 2
    MaxDrops = 0
    MaxDeltas = 1
    MaxInFlight = 2
INVARIANTS SilencedStaysSilent OneRequestAtATime QueuedTurnHasAKey
PROPERTIES BargeInSilencesTheLine
CHECK_DEADLOCK FALSE
