SPECIFICATION CacheSpec
CONSTANTS
    Key = {k1, k2, k3, k4}
    Ttl = 2
    MaxSize = 2
    MaxNow = 6
SYMMETRY MCSymmetry
INVARIANTS CacheTypeOK HeapMatchesEntries RemembersWindow
CHECK_DEADLOCK FALSE
