\* Data packets of full size, and a peer that reads slowly.
SPECIFICATION Spec
CONSTANTS
    RecordSizes = {1462}
    BUF_BYTES = 2880
    SOCK_BYTES = 1400
    QUEUE_LEN = 16
    MaxPackets = 4
    MaxConnections = 1
INVARIANTS
    RecordFits
