\* detectConflict without its read guard (threading.cpp:420), so that rules can
\* be added at all; every API call, under fair scheduling.
CONSTANTS
    Threads = {t1, t2}
    NoThread = NoThread
    NoRule = NoRule
    NoAction = NoAction
    RuleIds = {1, 2}
    a1 = a1
    a2 = a2
    ActionSets = {a1, a2}
    Priorities <- MC_Priorities
    Inputs <- MC_Inputs
    Header <- MC_Header
    UseBloomFilter = TRUE
    Ops = {"addRule", "deleteRule", "modifyRule", "classify", "resetRuleStatistics",
           "resetStatistics", "getRuleStatistics", "getStatistics"}
    MaxOps = 3
    DetectConflictLocks = FALSE
SPECIFICATION FairSpec
INVARIANT TypeOK
INVARIANT CacheMatchesRules
PROPERTY EveryCallReturns
