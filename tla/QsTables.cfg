\* Two transfers, one after the other or at once, by up to three clients in two
\* slots, and a process that stops and starts in between.
SPECIFICATION Spec
CONSTANTS
    MAX_CLIENTS = 2
    QUEUE_LEN = 3
    TRANSFER_CLIENTS_MAX = 2
    SessionNames = {k1}
    NoSession = none
    DistinctSeconds = TRUE
    PromptAnswers = TRUE
    MaxTime = 3
    MaxTransfer = 2
    MaxRequests = 2
INVARIANTS
    RowsHaveTransfer
    TablesMatchClients
