\* Guards not nested, so no thread can block itself: every wait is on others.
CONSTANTS
    Threads = {t1, t2, t3}
    NoThread = NoThread
    Ops = {"readLock", "writeLock", "tryReadLock"}
    MaxDepth = 1
SPECIFICATION FairSpec
INVARIANT LockAgreesWithGuards
PROPERTY WaitersProgress
