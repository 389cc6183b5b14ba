SPECIFICATION FairSpec
CONSTANTS
    Directions = {"inbound", "outbound"}
    Providers = {"voice", "ivr"}
    Operations = {"hangup", "transfer"}
    Weather <- Survived
    MaxTransfers = 1
INVARIANTS TypeOK FinalizedMeansOver ConnectedMeansSpeaking
PROPERTIES VerdictSpec CallsAreClosed NoEndlessCall
CHECK_DEADLOCK FALSE
