SPECIFICATION FairSpec
CONSTANTS
    Threads = {t1, t2}
    Nobody = Nobody
    Gone = Gone
    MaxForks = 1
    Names = {n1, n2, m1}
    Messages = {m1}
    Capacity = 1
    MaxCalls = 4
    MaxDepth = 2
INVARIANTS MutualExclusion CachesSound SharedWhileCached
PROPERTY CallsEnd
CHECK_DEADLOCK FALSE
