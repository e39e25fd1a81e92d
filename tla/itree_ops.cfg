\* Inserts, removes and queries of one IntervalTree, each range one rule.
CONSTANTS
    Intervals <- MC_Intervals
    Points <- MC_Points
    MaxOps = 7
    Nil = Nil
    Crash = Crash
SPECIFICATION Spec
INVARIANTS
    TypeOK
    IsAVLIntervalTree
    QueriesMatchContents
\* The program stops after a crashing insert, and the model after MaxOps calls.
CHECK_DEADLOCK FALSE
