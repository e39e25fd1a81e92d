\* A second thread enqueues while the owner stops the pool.
CONSTANTS
    w1 = w1
    w2 = w2
    c1 = c1
    c2 = c2
    NoTask = NoTask
    Workers <- MC_Workers
    Clients <- MC_TwoClients
    Stoppers <- MC_Owner
    MaxCalls = 2
SPECIFICATION FairSpec
PROPERTY EveryQueuedTaskRuns
