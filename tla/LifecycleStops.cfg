SPECIFICATION FairSpec
CONSTANTS
    Threads = {t1, t2, t3}
    MaxReady = 2
    Modulus = 4
    Faults <- AllFaults
INVARIANTS
    TypeOK
    
PROPERTIES
    OnlyLateOnesSurvive
    ShutdownEnds
    Restarts
CONSTRAINT StillCounts
