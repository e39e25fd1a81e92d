\* tryWriteLock released through writeUnlock, as the unit test TryWriteLock does.
CONSTANTS
    Threads = {t1, t2}
    NoThread = NoThread
    Ops = {"writeLock", "tryWriteLock"}
    MaxDepth = 1
SPECIFICATION Spec
INVARIANT LockAgreesWithGuards
CHECK_DEADLOCK FALSE
