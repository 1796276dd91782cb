------------------------- MODULE LotteryRefinement -------------------------
(***************************************************************************)
(* Lottery plays WeeklyGame: whatever the thread, its flags and the hours   *)
(* do, the players see the game they were told, while nothing goes wrong.   *)
(***************************************************************************)
EXTENDS Lottery

\* The draw has taken place, and its winner has been paid.
Drawn == draws # 0 /\ pc # "pay"

Stage ==
    CASE slot \in {"day", "night", "friday"}           -> "sale"
      [] slot = "closed" \/ (slot = "pick" /\ ~Drawn)  -> "closed"
      [] OTHER                                         -> "over"

\* The tickets no block holds yet, and those that were not in a paid draw.
Waiting ==
    unconfirmed + IF pc = "pay" THEN draw.to - draw.from ELSE Cardinality(Active)

\* The balance, and what will be added to it.
Fund == pot + Price * unconfirmed

Game == INSTANCE WeeklyGame
    WITH stage <- Stage, waiting <- Waiting, fund <- Fund, well <- smooth

\* Seen through this mapping, every behaviour of Lottery is one of WeeklyGame: a ticket
\* is sold only while the shop is open and is in the next draw, that draw is the week's
\* only one and pays for all of its tickets, and only then does the rest go to the
\* faucet, all of it, before tickets are sold again.
GameSpec == Game!Spec

=============================================================================
