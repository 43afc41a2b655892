\* Small and large records that overrun the socket but together stay below
\* the buffer: 3 * 600 < 2880.
SPECIFICATION Spec
CONSTANTS
    RecordSizes = {30, 600}
    BUF_BYTES = 2880
    SOCK_BYTES = 700
    QUEUE_LEN = 2
    MaxPackets = 3
    MaxConnections = 2
INVARIANTS
    NoByteLost
    NoUseAfterFree
PROPERTY
    EverythingIsWritten
