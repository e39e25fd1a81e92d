\* One owner thread enqueues tasks to two workers and stops the pool.
CONSTANTS
    w1 = w1
    w2 = w2
    c1 = c1
    c2 = c2
    NoTask = NoTask
    Workers <- MC_Workers
    Clients <- MC_OwnerOnly
    Stoppers <- MC_OwnerOnly
    MaxCalls = 4
SPECIFICATION FairSpec
INVARIANT TypeOK
PROPERTIES StopDrainsQueue EveryQueuedTaskRuns EveryCallReturns
