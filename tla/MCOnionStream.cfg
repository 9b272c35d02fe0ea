SPECIFICATION Spec
CONSTANTS
    Modulus = 16
    Iss = 14
    Mss = 2
    RecvWindow = 2
    MaxRetransmits = 2
    Rewind = TRUE
    MaxReordered = 0
    MaxSacks = 1
    MaxBytes = 2
    MaxLosses = 1
    MaxRepeats = 0
    MaxAlarms = 1
    MaxResets = 1
PROPERTY ByteStreamSpec
INVARIANTS TypeOK SenderLedger SackedIsHeld ProbeOnlyFromIdle CompleteMeansReceived
