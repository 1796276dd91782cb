SPECIFICATION Spec
CONSTANTS
    Users = {u1, u2, u3}
    Nobody = nobody
    LotteryWallet = lottery
    Limit = 2
    StartPort = 11000
    MaxPort = 11001
    Faults <- RestartFaults
INVARIANT GrantsOwnWallet
PROPERTY PoolSpec
CHECK_DEADLOCK FALSE
SYMMETRY Symmetry
