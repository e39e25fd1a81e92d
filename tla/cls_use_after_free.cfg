\* deleteRule erases the rule after releasing specialized_structures_lock_,
\* while a classify holding that lock in read mode walks its pointer snapshot.
CONSTANTS
    Threads = {t1, t2}
    NoThread = NoThread
    NoRule = NoRule
    NoAction = NoAction
    RuleIds = {1, 2}
    a1 = a1
    a2 = a2
    ActionSets = {a1, a2}
    Priorities <- MC_Priorities
    Inputs <- MC_Inputs
    Header <- MC_Header
    UseBloomFilter = TRUE
    Ops = {"addRule", "deleteRule", "classify"}
    MaxOps = 3
    DetectConflictLocks = FALSE
SPECIFICATION Spec
INVARIANT NoUseAfterFree
