\* The code as it is: detectConflict takes a read guard on the lock addRule
\* already holds for writing.  The adder blocks for good, and so does every
\* later user of the lock: the system really stops, which this run exhibits
\* as a violation of EveryCallReturns rather than as a deadlock.
CONSTANTS
    Threads = {t1, t2}
    NoThread = NoThread
    NoRule = NoRule
    NoAction = NoAction
    RuleIds = {1, 2}
    a1 = a1
    a2 = a2
    ActionSets = {a1, a2}
    Priorities <- MC_Priorities
    Inputs <- MC_Inputs
    Header <- MC_Header
    UseBloomFilter = TRUE
    Ops = {"addRule", "classify"}
    MaxOps = 2
    DetectConflictLocks = TRUE
SPECIFICATION FairSpec
PROPERTY EveryCallReturns
CHECK_DEADLOCK FALSE
