SPECIFICATION MCSpec
CONSTANTS
    a = a
    b = b
    c = c
    Threads = {t1, t2}
    Outs = {a, b, c}
    Ins = {}
    NoStream = NoStream
    NoThread = NoThread
    LockOf <- MCSharedLock
    LockRank <- MCSharedRank
    FirstTies <- MCChain
    Attempts = 2
    MaxOps = 2
    MaxTies = 1
    HookAttempts = 3
    BufLen = 2
    MaxCalls = 3
INVARIANTS LocksAccounted ChainFlushed ExitDelivers
PROPERTIES InitiatorUntouched OperationsEnd PromisedIsHandedOver ExitEnds
CHECK_DEADLOCK FALSE
