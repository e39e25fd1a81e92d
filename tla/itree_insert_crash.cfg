\* The code as written: inserts of increasing ranges.
CONSTANTS
    Intervals <- MC_Intervals
    Points <- MC_Points
    MaxOps = 3
    Nil = Nil
    Crash = Crash
SPECIFICATION Spec
INVARIANT InsertNeverCrashes
CHECK_DEADLOCK FALSE
