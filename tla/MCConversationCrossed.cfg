SPECIFICATION Spec
CONSTANTS
    Device = {1, 2}
    Thread = {1, 2}
    MaxSkip = 2
    MaxSkipTotal = 2
    Interval = 1
    WedgedAfter = 2
    Pause = {0, 1}
    Repairs = 0
    MaxSeals = 3
    Faults = {}
    MaxFaults = 0
INVARIANT NothingRefused
CHECK_DEADLOCK FALSE
