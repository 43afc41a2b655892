\* Three connections, two sessions and a transfer from its request to its end,
\* with every crossing of packets the queues allow.  The queue of a client that
\* does not read overflows.
SPECIFICATION Spec
CONSTANTS
    MAX_CLIENTS = 3
    QUEUE_LEN = 3
    TRANSFER_CLIENTS_MAX = 2
    SessionNames = {k1, k2}
    NoSession = none
    DistinctSeconds = TRUE
    PromptAnswers = TRUE
    MaxTime = 3
    MaxTransfer = 2
    MaxRequests = 1
SYMMETRY Keys
INVARIANTS
    TypeOK
    HostOwnsTransfer
    HostAgrees
    NoOrphanReceiver
    RosterAccurate
PROPERTIES
    EndIsAnnounced
    SessionIsolation
