SPECIFICATION Spec
CONSTANTS
    s = s
    r1 = r1
    r2 = r2
    r3 = r3
    r4 = r4
    d = d
    ContentId = {c1, c2, c3}
    AckedId = {c1, c2}
    Unopenable = {c2}
    Peer = {s, r1, r2, r3, r4, d}
    Origin = s
    Recipient = d
    Link <- MCLoop
    Answers = TRUE
    Prompt = FALSE
    MaxRelayHops = 4
    EnvTtl = 2
    Behind <- MCLoopClocks
    MaxFuture = 1
    SeenTtl = 2
    MaxAge = 4
    MaxLosses = 1
    MaxSends = 1
    Batch <- MCBatch
    MaxEntries = 1
    MaxPerPeer = 1
    MaxBytes = 1
    MaxBytesPerPeer = 1
    MaxAttempts = 2
    AckTimeout = 1
INVARIANTS TypeOK AtMostOncePerWindow AckedMeansOpened OnePassPerWindow
CHECK_DEADLOCK FALSE
