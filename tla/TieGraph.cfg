\* two threads tie, copy and move three output streams concurrently
SPECIFICATION FairSpec
CONSTANTS
    Threads = {t1, t2}
    Outs = {a, b, c}
    Ins = {}
    NoStream = NoStream
    NoThread = NoThread
INVARIANTS Acyclic RefusedOnlyForSelf
PROPERTY GraphLockReleased
