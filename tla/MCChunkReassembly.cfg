SPECIFICATION Spec
CONSTANTS
    x = x
    y = y
    z = z
    a = a
    b = b
    Chunk <- MCChunk
    Peer = {p1, p2}
    MaxTransfers = 2
    MaxPerSender = 2
    MaxPerPeer = 2
    MaxBytes = 5
    MaxBytesPerSender = 4
    MaxBytesPerPeer = 4
    MaxCompleted = 2
    TransferTtl = 2
    EnvTtl = 2
INVARIANTS TypeOK BufferedExact QuotasHold CompletesWhole CompletesOnce
PROPERTY PartialsLeave
CHECK_DEADLOCK FALSE
