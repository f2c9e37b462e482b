\* All calls may have been answered: the model then stops.
CHECK_DEADLOCK FALSE
SPECIFICATION FairSpec
CONSTANTS
    Users = {u1, u2}
    ClientIds = {c1}
    NoClientId = NoClientId
    Sources = {f1}
    Requests = {r1, r2, r3}
    NoRequest = NoRequest
INVARIANTS
    TypeOK
    SeqDense
    TipIsLastMessage
    OneMessagePerClientId
    AnswersAreDurable
PROPERTIES
    ImplementsLog
    CallsEnd
    LateRetryIsAnswered
