\* This client receives, one transfer after the other: the user answers and
\* cancels while the hosts send, cancel and go.
SPECIFICATION Spec
CONSTANTS
    SIM_TRANSFERS_MAX = 1
    CMD_CAPACITY = 2
    Me = me
    Others = {p}
    SteadyScreen = FALSE
    OneAtATime = TRUE
    FreshNumbers = TRUE
    Chunks = 2
    MaxTransfer = 2
    MaxHost = 0
    MaxRecv = 2
    MaxCommands = 4
INVARIANTS
    TypeOK
    RecvAgrees
    NoDataDropped
    FileOpenInUse
CHECK_DEADLOCK FALSE
