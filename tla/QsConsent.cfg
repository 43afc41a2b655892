\* The number of a cancelled transfer is given again while a REPLY for it is on
\* its way.
SPECIFICATION Spec
CONSTANTS
    MAX_CLIENTS = 2
    QUEUE_LEN = 4
    TRANSFER_CLIENTS_MAX = 2
    SessionNames = {k1}
    NoSession = none
    DistinctSeconds = TRUE
    PromptAnswers = TRUE
    MaxTime = 2
    MaxTransfer = 1
    MaxRequests = 2
INVARIANT
    DataOnlyAfterConsent
