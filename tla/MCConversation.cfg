SPECIFICATION Spec
CONSTANTS
    Device = {1, 2}
    Thread = {1, 2}
    MaxSkip = 1
    MaxSkipTotal = 1
    Interval = 1
    WedgedAfter = 2
    Pause = {0, 1}
    Repairs = 3
    MaxSeals = 3
    Faults = {"loss", "repeat", "restart", "reset"}
    MaxFaults = 2
INVARIANTS TypeOK OpenedOnce OnlyOvertakenRefused NextOpens
PROPERTIES RootsStay Recovers
CHECK_DEADLOCK FALSE
