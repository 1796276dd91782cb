SPECIFICATION FairSpec
CONSTANTS
    Users = {1, 2, 3}
    Nobody = 0
    Limit = 2
    To <- TwoPayments
    MaxHeight = 2
    Scenarios <- CrashAndOne
INVARIANTS
    TypeOK
    ToldOnce
    ToldOfOwn
    HistoryIsOwn
PROPERTIES
    ToldInTheEnd
CHECK_DEADLOCK FALSE
