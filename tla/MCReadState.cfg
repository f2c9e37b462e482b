SPECIFICATION Spec
SYMMETRY Symmetry
CONSTANTS
    Users = {u1, u2}
    Tx = {t1, t2}
    NoTx = NoTx
    NoState = NoState
    NoUser = NoUser
    MaxMessages = 3
INVARIANTS
    TypeOK
    WithinLog
    OverCountNeedsOwnSend
PROPERTIES
    OnlyOwnJobMovesBack
