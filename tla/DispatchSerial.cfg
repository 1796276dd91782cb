SPECIFICATION Spec
CONSTANTS
    Null = Null
    Freed = Freed
    Handler = Handler
    Nobody = Nobody
    Bot = u1
    Users = {u1, u2, u3, u4}
    Limit = 3
    Workers = {w1}
    MaxMessages = 3
    Kinds = {"balance", "plain", "address", "toggle", "save", "totals", "rescan", "status", "restart", "restartfaucet", "withdraw", "withdrawall", "give", "giveall"}
    Mentions <- TwoMentions
    OneAtATime = TRUE
    Faults <- CommandFaults
INVARIANT UsesLiveAccounts
PROPERTY AuthorPays
SYMMETRY BotApart
CHECK_DEADLOCK FALSE
