\* This client hosts two transfers, at once or one after the other, for two
\* others.
SPECIFICATION Spec
CONSTANTS
    SIM_TRANSFERS_MAX = 2
    CMD_CAPACITY = 2
    Me = me
    Others = {p, q}
    SteadyScreen = TRUE
    OneAtATime = FALSE
    FreshNumbers = FALSE
    Chunks = 1
    MaxTransfer = 2
    MaxHost = 2
    MaxRecv = 0
    MaxCommands = 3
SYMMETRY OtherClients
INVARIANTS
    HostKnows
PROPERTIES
    DataAfterAllAnswered
CHECK_DEADLOCK FALSE
