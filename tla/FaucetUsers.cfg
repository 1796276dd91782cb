SPECIFICATION Spec
CONSTANTS
    Users = {1, 2}
    Young = {1}
    Threads = {t1, t2}
    Socket = socket
    NServers = 2
    Members <- TwoServers
    Timeout = 1
    MaxTime = 3
    MaxCommands = 2
    MaxReady = 2
    AtOnce = "users"
    Faults <- AllFaults
INVARIANTS
    TypeOK
    FileHoldsList
    SentAddsUp
PROPERTIES
    OneTakePerTimeout
    OldUnlessUnknown
SYMMETRY ThreadSymmetry
CHECK_DEADLOCK FALSE
