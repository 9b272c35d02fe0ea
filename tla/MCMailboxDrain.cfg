SPECIFICATION Spec
CONSTANTS
    Receiver = {0, 1, 2}
    ContentId = {1, 2, 3, 4}
    Sender = {0, 9}
    NoSender = 0
    Deposit <- MCDeposit
    Legacy <- MCLegacy
    MaxTasks = 2
    RequireToken = FALSE
    RecordOverhead = 1
    QuotaReceiver = 6
    QuotaSender = 7
    QuotaGlobal = 9
    AnonDivisor = 2
    MinEvictionAge = 1
    Ttl = 1
    MaxClock = 2
    Identity = 1
    Device = 2
    Unusable = {1}
    MaxFetchCount = 2
    MaxFetchBytes = 2
    MaxFetchSkip = 1
    MaxEntries = 2
    ReplyBudget = 2
    EntryHeader = 1
    SliceWindow = 2
    MaxPuts = 3
    MaxFaults = 1
INVARIANTS TypeOK IndexesExact LedgerExact QuotasHold
PROPERTIES NoEarlyLoss EveryBlobDrains
CHECK_DEADLOCK FALSE
