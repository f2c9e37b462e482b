\* The task may have ended and every job settled: the model then stops.
CHECK_DEADLOCK FALSE
SPECIFICATION FairSpec
CONSTANTS
    t1 = t1
    f1 = f1
    f2 = f2
    h1 = h1
    NoTask = NoTask
    NoFile = NoFile
    Tasks = {t1}
    Files = {f1, f2}
    Threads = {h1}
    Forced = {t1}
    RetryLimit = 2
    MaxUpsets = 2
INVARIANTS
    TypeOK
    
    
PROPERTIES
    
    EveryJobSettles
