SPECIFICATION Spec
CONSTANTS
    Null = Null
    Freed = Freed
    Handler = Handler
    Nobody = Nobody
    Bot = u1
    Users = {u1, u2}
    Limit = 2
    Workers = {w1, w2}
    MaxMessages = 2
    Kinds = {"withdraw"}
    Mentions <- NoMention
    OneAtATime = FALSE
    Faults <- NoFaults
PROPERTY AuthorPays
CHECK_DEADLOCK FALSE
