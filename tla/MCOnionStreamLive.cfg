SPECIFICATION LiveSpec
CONSTANTS
    Modulus = 16
    Iss = 14
    Mss = 2
    RecvWindow = 2
    MaxRetransmits = 3
    Rewind = TRUE
    MaxReordered = 2
    MaxSacks = 2
    MaxBytes = 3
    MaxLosses = 1
    MaxRepeats = 1
    MaxAlarms = 0
    MaxResets = 0
PROPERTY AllBytesArrive
