CHECK_DEADLOCK FALSE
SPECIFICATION FairRSpec
CONSTANTS
    Jobs = {j1}
    NoJob = NoJob
    Workers = {w1}
    NoWorker = NoWorker
    Purgers = {p1, p2}
    MaxAttempts = 1
    MaxLosses = 0
    MaxPurges = 2
    MaxDeaths = 1
INVARIANTS
    RTypeOK
    PurgedIsDeleted
PROPERTIES
    ImplementsJobs
    PurgeOnlyExpired
    PurgeEnds
