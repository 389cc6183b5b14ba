SPECIFICATION Spec
CONSTANTS
    Directions = {"inbound"}
    Providers = {"voice", "ivr"}
    Operations = {}
    Weather <- Calm
    MaxTransfers = 1
PROPERTIES HandoverIsKept
CHECK_DEADLOCK FALSE
