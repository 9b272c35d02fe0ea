SPECIFICATION Spec
CONSTANTS
    ContentId = {c1, c2}
    Peer = {p1}
    Batch <- MCBatch
    MaxEntries = 2
    MaxPerPeer = 2
    MaxBytes = 2
    MaxBytesPerPeer = 2
    MaxAttempts = 3
    AckTimeout = 1
    Thread = {t1, t2}
    E2eId = {c1}
    NoThread = none
PROPERTY DeliveredClears
CHECK_DEADLOCK FALSE
