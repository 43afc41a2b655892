\* One row of each array: the user decides, the network thread has to say so.
SPECIFICATION FairSpec
CONSTANTS
    SIM_TRANSFERS_MAX = 1
    CMD_CAPACITY = 1
    Me = me
    Others = {p}
    SteadyScreen = FALSE
    OneAtATime = FALSE
    FreshNumbers = FALSE
    Chunks = 1
    MaxTransfer = 2
    MaxHost = 1
    MaxRecv = 1
    MaxCommands = 3
PROPERTIES
    DecisionIsSent
CHECK_DEADLOCK FALSE
