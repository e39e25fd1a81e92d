\* modifyRule assigns the rule in place while a classify reads it field by field.
CONSTANTS
    Threads = {t1, t2}
    NoThread = NoThread
    NoRule = NoRule
    NoAction = NoAction
    RuleIds = {1, 2}
    a1 = a1
    a2 = a2
    ActionSets = {a1, a2}
    Priorities <- MC_Priorities
    Inputs <- MC_Inputs
    Header <- MC_Header
    UseBloomFilter = TRUE
    Ops = {"addRule", "modifyRule", "classify"}
    MaxOps = 3
    DetectConflictLocks = FALSE
SPECIFICATION Spec
INVARIANT ClassifyLinearizable
