\* Every row may have settled: the model then stops.
CHECK_DEADLOCK FALSE
SPECIFICATION FairSpec
CONSTANTS
    Rows = {s1, s2}
    Workers = {w1, w2}
    Sender = Sender
    NoRow = NoRow
    MaxAttempts = 2
    MaxEdits = 1
    MaxLosses = 1
    MaxSlow = 1
INVARIANTS
    TypeOK
    NeverDuplicated
    SentIsInChat
    SenderDecides
PROPERTIES
    EveryRowSettles
