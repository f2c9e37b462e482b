CHECK_DEADLOCK FALSE
SPECIFICATION FairSpec
CONSTANTS
    Jobs = {j1}
    NoJob = NoJob
    Workers = {w1, w2}
    NoWorker = NoWorker
    MaxAttempts = 2
    MaxLosses = 1
INVARIANTS
    TypeOK
    ExecutedOnce
    StopWins
    AccessEndsWithJob
    OrphanIsFound
    SessionMatchesJobs
PROPERTIES
    QueuedJobEnds
