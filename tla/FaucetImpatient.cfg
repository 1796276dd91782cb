SPECIFICATION Spec
CONSTANTS
    Users = {1}
    Young = {}
    Threads = {t1, t2}
    Socket = socket
    NServers = 1
    Members <- OneServer
    Timeout = 2
    MaxTime = 2
    MaxCommands = 2
    MaxReady = 1
    AtOnce = "all"
    Faults <- NoFaults
PROPERTY OneTakePerTimeout
CHECK_DEADLOCK FALSE
