SPECIFICATION Spec
CONSTANTS
    Modulus = 16
    Iss = 14
    Mss = 2
    RecvWindow = 2
    MaxRetransmits = 2
    Rewind = TRUE
    MaxReordered = 0
    MaxSacks = 1
    MaxBytes = 1
    MaxLosses = 1
    MaxRepeats = 0
    MaxAlarms = 0
    MaxResets = 0
INVARIANT FinAckedCompletes
