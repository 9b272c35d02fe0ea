SPECIFICATION Spec
CONSTANTS
    ContentId = {c1, c2, c3}
    Peer = {p1, p2, p3}
    Hop = {p1, p2}
    Batch <- MCBatch
    MaxEntries = 2
    MaxPerPeer = 1
    MaxBytes = 3
    MaxBytesPerPeer = 2
    MaxAttempts = 2
    AckTimeout = 1
    MaxChunkRetries = 1
PROPERTY EveryMessageEnds
INVARIANTS TypeOK OneEnding CountersExact CapsHold RetryOwnsAttempt
CHECK_DEADLOCK FALSE
