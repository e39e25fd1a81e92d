\* All lock methods, guards nested two deep.  Nested readLock under a waiting
\* writer and tryWriteLock followed by writeUnlock really stop every thread,
\* so deadlock is not an error here.
CONSTANTS
    Threads = {t1, t2, t3}
    NoThread = NoThread
    Ops = {"readLock", "writeLock", "tryReadLock", "tryWriteLock"}
    MaxDepth = 2
SYMMETRY ThreadSymmetry
SPECIFICATION Spec
INVARIANT TypeOK
PROPERTY ImplementsAbstractRWLock
CHECK_DEADLOCK FALSE
