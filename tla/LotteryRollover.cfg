SPECIFICATION Spec
CONSTANTS
    Price = 2
    Prize = 1
    Blanks = TRUE
    MaxTickets = 2
    Faults <- NoFaults
INVARIANT JackpotRollsOver
