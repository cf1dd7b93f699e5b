SPECIFICATION MCSpec
CONSTANTS
    a = a
    b = b
    c = c
    Threads = {t1, t2}
    Outs = {a, b, c}
    Ins = {}
    NoStream = NoStream
    NoThread = NoThread
    LockOf <- MCSharedLock
    LockRank <- MCSharedRank
    FirstTies <- MCChain
    Attempts = 2
    MaxOps = 0
    MaxTies = 0
    HookAttempts = 3
    BufLen = 2
    MaxCalls = 2
PROPERTY EndsAfterHookHandsOver
CHECK_DEADLOCK FALSE
