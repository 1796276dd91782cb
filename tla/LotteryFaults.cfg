SPECIFICATION FairSpec
CONSTANTS
    Price = 2
    Prize = 1
    Blanks = TRUE
    MaxTickets = 3
    Faults <- AllFaults
INVARIANTS
    TypeOK
    OneDrawAWeek
    JackpotBacked
PROPERTIES
    NoTicketPaidTwice
    GameSpec
    TicketsAreDrawn
