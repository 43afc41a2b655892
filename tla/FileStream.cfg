\* A file of a full buffer and a bit more, cut at a packet's end inside the
\* buffer, and one of a byte, which is sent after the other was completed,
\* cancelled or cut off.  A connection holds a packet and a byte of the next.
SPECIFICATION FairSpec
CONSTANTS
    FileSize <- MCFileSize
    BufferSize = 3
    DataBytes = 2
    Hdr = 2
    StateSize = 1
    SocketSize = 5
    QueueLen = 2
    MaxNotice = 1
    MaxReconnect = 1
INVARIANTS
    Framed
    OwnBytesInOrder
    FileExact
PROPERTY
    TransferEnds
