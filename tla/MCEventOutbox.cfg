\* Every job may have settled: the model then stops.
CHECK_DEADLOCK FALSE
SPECIFICATION FairSpec
CONSTANTS
    Messages = {m1}
    NoMessage = NoMessage
    Workers = {w1, w2, w3}
    Pollers = {p1, p2}
    MaxAttempts = 2
    MaxLosses = 2
    MaxSlow = 2
INVARIANTS
    TypeOK
    DeliveredWasApplied
    OneWorkerPerJob
PROPERTIES
    SettledStaysSettled
    EveryJobSettles
    TextIsDecided
