---------------------------- MODULE WeeklyGame ----------------------------
(***************************************************************************)
(* The lottery as !gameinfo and !lotteryhelp tell it to the players         *)
(* (src/src/Lottery.cpp): tickets are sold until the lottery day's          *)
(* afternoon, at one hour all of them take part in a draw whose winner is   *)
(* paid, later what is left goes to the faucet, and a new week begins.      *)
(*                                                                         *)
(* It holds for as long as nothing goes wrong; after that, nothing is said. *)
(* The help text also says what a draw without winner leads to; what it     *)
(* says is not what happens (JackpotRollsOver in Lottery).                  *)
(***************************************************************************)
EXTENDS Naturals

CONSTANTS
    Price,  \* what one ticket pays into the wallet
    Prize   \* what one ticket adds to the winner's reward

VARIABLES
    stage,    \* how far the week is: "sale", "closed", "over"
    waiting,  \* tickets that were bought since the last draw
    fund,     \* what the lottery has
    well      \* has nothing gone wrong so far

game == <<stage, waiting, fund, well>>

Init == stage = "sale" /\ waiting = 0 /\ fund = 0 /\ well = TRUE

\* Any other day, or the lottery day before it closes.
Buy ==
    /\ stage = "sale"
    /\ waiting' = waiting + 1
    /\ fund' = fund + Price
    /\ UNCHANGED stage

Close == stage = "sale" /\ stage' = "closed" /\ UNCHANGED <<waiting, fund>>

\* All that were bought take part, and what they cost is all there is; the winner gets
\* his share for each of them.
Draw ==
    /\ stage = "closed" /\ waiting > 0
    /\ fund = Price * waiting
    /\ fund' = fund - Prize * waiting
    /\ waiting' = 0
    /\ stage' = "over"

NobodyPlayed == stage = "closed" /\ waiting = 0 /\ stage' = "over" /\ UNCHANGED <<waiting, fund>>

\* What is left goes to the faucet, after the draw only.
Donate == stage = "over" /\ fund' = 0 /\ UNCHANGED <<stage, waiting>>

\* A week begins with nothing left of the week before.
NewWeek == stage = "over" /\ fund = 0 /\ stage' = "sale" /\ UNCHANGED <<waiting, fund>>

Play == Buy \/ Close \/ Draw \/ NobodyPlayed \/ Donate \/ NewWeek

\* Something goes wrong, or has gone wrong before.
GoesWrong == ~well'

Next == (well /\ well' /\ Play) \/ GoesWrong

Spec == Init /\ [][Next]_game

=============================================================================
