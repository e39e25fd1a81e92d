\* Rules are added, classified against and their statistics reset, but never
\* modified or deleted: the snapshot classify takes stays valid.
CONSTANTS
    Threads = {t1, t2, t3}
    NoThread = NoThread
    NoRule = NoRule
    NoAction = NoAction
    RuleIds = {1, 2}
    a1 = a1
    a2 = a2
    ActionSets = {a1, a2}
    Priorities <- MC_Priorities
    Inputs <- MC_MatchingInputs
    Header <- MC_Header
    UseBloomFilter = TRUE
    Ops = {"addRule", "classify", "resetRuleStatistics", "resetStatistics"}
    MaxOps = 4
    DetectConflictLocks = FALSE
SYMMETRY ThreadSymmetry
SPECIFICATION Spec
INVARIANT ClassifyLinearizable
