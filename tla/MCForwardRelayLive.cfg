SPECIFICATION Spec
CONSTANTS
    s = s
    r1 = r1
    r2 = r2
    r3 = r3
    r4 = r4
    d = d
    ContentId = {c1, c2}
    AckedId = {c1, c2}
    Unopenable = {c2}
    Peer = {s, r1, r2, d}
    Origin = s
    Recipient = d
    Link <- MCChain
    Answers = TRUE
    Prompt = TRUE
    MaxRelayHops = 4
    EnvTtl = 4
    Behind <- MCChainClocks
    MaxFuture = 1
    SeenTtl = 5
    MaxAge = 5
    MaxLosses = 1
    MaxSends = 2
    Batch <- MCBatch
    MaxEntries = 2
    MaxPerPeer = 2
    MaxBytes = 2
    MaxBytesPerPeer = 2
    MaxAttempts = 3
    AckTimeout = 1
PROPERTY LossRecovered
CHECK_DEADLOCK FALSE
