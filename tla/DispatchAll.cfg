SPECIFICATION Spec
CONSTANTS
    Null = Null
    Freed = Freed
    Handler = Handler
    Nobody = Nobody
    Bot = u1
    Users = {u1, u2, u3}
    Limit = 2
    Workers = {w1, w2}
    MaxMessages = 3
    Kinds = {"balance", "totals", "restart", "give", "giveall"}
    Mentions <- OneMention
    OneAtATime = FALSE
    Faults <- AllFaults
INVARIANTS
    TypeOK
    MutexesAreReleased
    OnlyTheCircleStops
PROPERTY SpendsWhatItChecked
SYMMETRY Symmetry
CHECK_DEADLOCK FALSE
