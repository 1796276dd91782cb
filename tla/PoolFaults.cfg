SPECIFICATION Spec
CONSTANTS
    Users = {u1, u2, u3}
    Nobody = nobody
    LotteryWallet = lottery
    Limit = 2
    StartPort = 11000
    MaxPort = 11002
    Faults <- ProcessFaults
INVARIANT TypeOK
INVARIANT GrantsOwnWallet
INVARIANT PortsDistinct
INVARIANT PidServesPort
INVARIANT WithinLimit
INVARIANT NeverKillsItself
PROPERTY OnlyTheCheckLosesProcesses
PROPERTY WalletStaysOpen
PROPERTY OldAccountDestroyed
PROPERTY PoolSpec
CHECK_DEADLOCK FALSE
SYMMETRY Symmetry
