------------------------------ MODULE Lottery -------------------------------
(***************************************************************************)
(* The weekly lottery (src/src/Lottery.cpp).                                *)
(*                                                                         *)
(* Tickets are payments into the lottery's own wallet.  A thread of the     *)
(* bot looks at the clock once a second: on the lottery day it draws a      *)
(* winner at one hour, and at a later one it sweeps what is left to the     *)
(* faucet.  It keeps three flags in local variables, and one number, the    *)
(* height of the newest payment that took part in a paid draw, in a file.   *)
(* Admins suspend and resume the lottery, wallets refuse requests, and the  *)
(* bot is restarted while all this goes on.                                 *)
(***************************************************************************)
EXTENDS Naturals, FiniteSets

CONSTANTS
    Price,       \* what one ticket pays into the wallet
    Prize,       \* what one ticket adds to the winner's reward; the rest is the faucet's
    Blanks,      \* does the draw mix in tickets of nobody (no_winner_chance > 0)
    MaxTickets,  \* bound: no more tickets are sold
    Faults       \* what else may happen

FaultKinds == {"query",    \* the wallet does not answer the draw's first questions
               "pay",      \* the winner's wallet, the message or the transfer fails
               "note",     \* the transfer is done, the call that follows it fails
               "sweep",    \* the sweep fails
               "toggle",   \* an admin suspends or resumes the lottery
               "restart",  \* the bot is shut down and started again
               "crash"}    \* the bot dies, and is started again

ASSUME PriceAssumption == Price \in Nat /\ Prize \in 1 .. Price
ASSUME BlanksAssumption == Blanks \in BOOLEAN
ASSUME TicketsAssumption == MaxTickets \in Nat
ASSUME FaultAssumption == Faults \subseteq FaultKinds

VARIABLES
    slot,                \* the part of the week the clock is in
    looked,              \* has the thread made a pass in this slot
    up,                  \* is the bot running
    unconfirmed,         \* tickets paid for that no block holds yet
    tickets,             \* tickets in the wallet: 1 .. tickets, in block order
    pot,                 \* the wallet's unlocked balance
    lastWinningTopBlock, \* tickets up to this one have been drawn
    prevWinner,          \* the ticket that won the last draw, or 0
    suspended,           \* lotterySuspended
    flags,               \* run's local variables rewardGivenout, sweepComplete, noWinner
    pc,                  \* where the thread is in its pass
    draw,                \* the draw being paid: its tickets and the winner
    saved,               \* LOTTERY.JSON
    draws,               \* history: draws since the week, or the bot, started
    paid,                \* history: tickets whose draw was paid out, unless a failure or a
                         \* crash kept the thread from writing that down
    smooth               \* history: no failure, blank draw, admin or stop so far

clockVars == <<slot, looked>>
walletVars == <<unconfirmed, tickets, pot>>
lotteryVars == <<lastWinningTopBlock, prevWinner, suspended>>
historyVars == <<draws, paid, smooth>>
vars == <<clockVars, up, walletVars, lotteryVars, flags, pc, draw, saved, historyVars>>

-----------------------------------------------------------------------------
(* The week.  With close, pick and faucet at 18, 21 and 23: "friday" is the    *)
(* lottery day before 18, "closed" 18 to 20, "pick" 21, "gap" 22, "sweep" 23;  *)
(* "day" and "night" stand for the six other days, before and after 18, which    *)
(* the code does not tell apart.                                              *)

Slots == {"friday", "closed", "pick", "gap", "sweep", "day", "night"}

NextSlot ==
    [friday |-> "closed", closed |-> "pick", pick |-> "gap", gap |-> "sweep",
     sweep |-> "day", day |-> "night", night |-> "friday"]

\* Variant with a mistake: the shop never closes.
AlwaysOpen == TRUE

\* BuyTicket: any other day, or the lottery day before close.
Open == slot \in {"friday", "day", "night"}

BeforeClose == slot \in {"friday", "day"}

NoFlags == [rewardGivenout |-> FALSE, sweepComplete |-> FALSE, noWinner |-> FALSE]
NoDraw == [from |-> 0, to |-> 0, winner |-> 0]

\* Variant with a mistake: the height of the last payment in the list.
OldestBlock == lastWinningTopBlock + 1

\* The height of the first payment in the list, which is sorted newest first.
TopBlock == tickets

\* The tickets that take part in the next draw.
Active == (lastWinningTopBlock + 1) .. tickets

InDraw == (draw.from + 1) .. draw.to
Reward == Prize * (draw.to - draw.from)

\* Variant with a mistake: the winner is not written.
SnapshotOfTop == [top |-> lastWinningTopBlock]

\* What AppSave writes, and what load reads back: the test of the version is
\* "major > 2 || major > 2 && minor > 1", which version 2.2 does not pass.
Snapshot == [top |-> lastWinningTopBlock, winner |-> prevWinner]
LoadedWinner == 0

Init ==
    /\ slot = "day" /\ looked = FALSE /\ up = TRUE
    /\ unconfirmed = 0 /\ tickets = 0 /\ pot = 0
    /\ lastWinningTopBlock = 0 /\ prevWinner = 0 /\ suspended = FALSE
    /\ flags = NoFlags /\ pc = "head" /\ draw = NoDraw
    /\ saved = Snapshot
    /\ draws = 0 /\ paid = {} /\ smooth = TRUE

-----------------------------------------------------------------------------
(* The clock and the players.                                                *)

\* A pass takes a second, half a minute when a sweep fails, a draw some minutes: the
\* hour does not change in the middle of one, nor before the thread has looked.  Three
\* hours after closing every payment has its ten confirmations.
Tick ==
    /\ up => pc = "head" /\ looked
    /\ slot = "closed" => unconfirmed = 0
    /\ slot' = NextSlot[slot]
    /\ looked' = FALSE
    /\ draws' = IF slot = "sweep" THEN 0 ELSE draws
    /\ UNCHANGED <<up, walletVars, lotteryVars, flags, pc, draw, saved, paid, smooth>>

\* !buytickets: a payment that carries its buyer's id.
BuyTicket ==
    /\ up /\ Open /\ ~suspended
    /\ tickets + unconfirmed < MaxTickets
    /\ unconfirmed' = unconfirmed + 1
    /\ UNCHANGED <<clockVars, up, tickets, pot, lotteryVars, flags, pc, draw, saved, historyVars>>

Confirm ==
    /\ unconfirmed > 0
    /\ unconfirmed' = unconfirmed - 1
    /\ tickets' = tickets + 1
    /\ pot' = pot + Price
    /\ UNCHANGED <<clockVars, up, lotteryVars, flags, pc, draw, saved, historyVars>>

\* !togglelotterysuspend, from its own thread, at any point of the lottery's pass.
ToggleLotterySuspend ==
    /\ up /\ "toggle" \in Faults
    /\ suspended' = ~suspended
    /\ saved' = Snapshot
    /\ looked' = FALSE
    /\ smooth' = FALSE
    /\ UNCHANGED <<slot, up, walletVars, lastWinningTopBlock, prevWinner, flags, pc, draw,
                   draws, paid>>

-----------------------------------------------------------------------------
(* The thread: one pass of run's loop.                                        *)

\* Variant with a mistake: the flags do not keep a second draw out.
DrawAllHour == slot = "pick"

DrawDue == ~flags.noWinner /\ ~flags.rewardGivenout /\ slot = "pick"

SweepDue == ~flags.sweepComplete /\ slot = "sweep"

\* Variant with a mistake: the week's flags are never cleared.
NeverReset == FALSE

ResetDue ==
    \/ flags.rewardGivenout /\ flags.sweepComplete
    \/ flags.rewardGivenout /\ flags.noWinner /\ BeforeClose

AtHead == up /\ pc = "head"
Pass == AtHead /\ ~suspended
PassEnds == pc' = "head" /\ looked' = TRUE

Suspends == suspended' = TRUE /\ PassEnds

SuspendedPass ==
    /\ AtHead /\ suspended
    /\ PassEnds
    /\ UNCHANGED <<slot, up, walletVars, lotteryVars, flags, draw, saved, historyVars>>

\* resyncAccount or getTransfers throws.
QueryThrows ==
    /\ Pass /\ DrawDue /\ "query" \in Faults
    /\ Suspends
    /\ smooth' = FALSE
    /\ UNCHANGED <<slot, up, walletVars, lastWinningTopBlock, prevWinner, flags, draw, saved,
                   draws, paid>>

NoActiveTickets ==
    /\ Pass /\ DrawDue /\ Active = {}
    /\ PassEnds
    /\ UNCHANGED <<slot, up, walletVars, lotteryVars, flags, draw, saved, historyVars>>

\* The first entry after the shuffle is somebody's.  The tickets count as drawn from
\* here on, before anything is paid.
DrawWinner ==
    /\ Pass /\ DrawDue
    /\ \E t \in Active : draw' = [from |-> lastWinningTopBlock, to |-> tickets, winner |-> t]
    /\ lastWinningTopBlock' = TopBlock
    /\ pc' = "pay"
    /\ draws' = draws + 1
    /\ UNCHANGED <<clockVars, up, walletVars, prevWinner, suspended, flags, saved, paid,
                   smooth>>

DrawBlank ==
    /\ Pass /\ DrawDue /\ Active # {} /\ Blanks
    /\ prevWinner' = 0
    /\ flags' = [flags EXCEPT !.noWinner = TRUE]
    /\ pc' = "save"
    /\ draws' = draws + 1
    /\ smooth' = FALSE
    /\ UNCHANGED <<clockVars, up, walletVars, lastWinningTopBlock, suspended, draw, saved, paid>>

\* transferMoneyToAddress up to its transfer.
PayWinner ==
    /\ up /\ pc = "pay" /\ Reward < pot
    /\ pot' = pot - Reward
    /\ paid' = paid \cup InDraw
    /\ pc' = "note"
    /\ UNCHANGED <<clockVars, up, unconfirmed, tickets, lotteryVars, flags, draw, saved, draws,
                   smooth>>

\* The winner's wallet cannot be opened, the winner not be written to, the balance does
\* not suffice, or the transfer is refused.
PayThrows ==
    /\ up /\ pc = "pay"
    /\ Reward < pot => "pay" \in Faults
    /\ Suspends
    /\ draw' = NoDraw
    /\ smooth' = (smooth /\ Reward >= pot)
    /\ UNCHANGED <<slot, up, walletVars, lastWinningTopBlock, prevWinner, flags, saved, draws,
                   paid>>

\* setTXNote throws after the money has gone.
NoteThrows ==
    /\ up /\ pc = "note" /\ "note" \in Faults
    /\ Suspends
    /\ draw' = NoDraw
    /\ paid' = paid \ InDraw /\ smooth' = FALSE
    /\ UNCHANGED <<slot, up, walletVars, lastWinningTopBlock, prevWinner, flags, saved, draws>>

WinnerPaid ==
    /\ up /\ pc = "note"
    /\ prevWinner' = draw.winner
    /\ pc' = "save"
    /\ UNCHANGED <<clockVars, up, walletVars, lastWinningTopBlock, suspended, flags, draw,
                   saved, historyVars>>

\* Variant with a mistake: the result of the draw is not written to disk.
FinishUnsaved ==
    /\ up /\ pc = "save"
    /\ flags' = [flags EXCEPT !.rewardGivenout = TRUE]
    /\ draw' = NoDraw
    /\ PassEnds
    /\ UNCHANGED <<slot, up, walletVars, lotteryVars, saved, historyVars>>

FinishDraw ==
    /\ up /\ pc = "save"
    /\ saved' = Snapshot
    /\ flags' = [flags EXCEPT !.rewardGivenout = TRUE]
    /\ draw' = NoDraw
    /\ PassEnds
    /\ UNCHANGED <<slot, up, walletVars, lotteryVars, historyVars>>

\* Everything in the wallet goes to the faucet, unless the flag says that this hour's
\* draw had no winner.  transferAllMoneyToAddress throws when there is nothing to send.
Sweep ==
    /\ Pass /\ SweepDue
    /\ \/ flags.noWinner /\ UNCHANGED pot
       \/ ~flags.noWinner /\ pot > 0 /\ pot' = 0
    /\ flags' = [flags EXCEPT !.noWinner = FALSE, !.sweepComplete = TRUE]
    /\ PassEnds
    /\ UNCHANGED <<slot, up, unconfirmed, tickets, lotteryVars, draw, saved, historyVars>>

\* The error is ignored and the sweep tried again half a minute later; with "note", it
\* was only the note of a sweep that took place.
SweepThrows ==
    /\ Pass /\ SweepDue
    /\ \/ /\ flags.noWinner \/ pot > 0 => "sweep" \in Faults
          /\ UNCHANGED pot
       \/ ~flags.noWinner /\ pot > 0 /\ "note" \in Faults /\ pot' = 0
    /\ smooth' = (smooth /\ ~flags.noWinner /\ pot = 0)
    /\ PassEnds
    /\ UNCHANGED <<slot, up, unconfirmed, tickets, lotteryVars, flags, draw, saved, draws, paid>>

OtherPass ==
    /\ Pass /\ ~DrawDue /\ ~SweepDue
    /\ flags' = IF ResetDue
                THEN [flags EXCEPT !.rewardGivenout = FALSE, !.sweepComplete = FALSE]
                ELSE flags
    /\ PassEnds
    /\ UNCHANGED <<slot, up, walletVars, lotteryVars, draw, saved, historyVars>>

-----------------------------------------------------------------------------
(* Stops and starts.                                                         *)

Stops ==
    /\ up' = FALSE /\ pc' = "head" /\ flags' = NoFlags /\ draw' = NoDraw
    /\ lastWinningTopBlock' = 0 /\ prevWinner' = 0 /\ suspended' = FALSE
    /\ smooth' = FALSE
    /\ UNCHANGED <<clockVars, walletVars, saved, draws>>

\* A shutdown waits for the thread to finish its pass.  It saves nothing.
Shutdown == AtHead /\ "restart" \in Faults /\ Stops /\ UNCHANGED paid

Crash == up /\ "crash" \in Faults /\ Stops /\ paid' = paid \ InDraw

\* Lottery() and load: only the height, and the winner, come back from disk.
Load ==
    /\ ~up /\ up' = TRUE
    /\ lastWinningTopBlock' = saved.top
    /\ prevWinner' = LoadedWinner
    /\ looked' = FALSE
    /\ draws' = 0
    /\ UNCHANGED <<slot, walletVars, suspended, flags, pc, draw, saved, paid, smooth>>

Run ==
    \/ SuspendedPass \/ QueryThrows \/ NoActiveTickets \/ DrawWinner \/ DrawBlank
    \/ PayWinner \/ PayThrows \/ NoteThrows \/ WinnerPaid \/ FinishDraw
    \/ Sweep \/ SweepThrows \/ OtherPass

Next ==
    \/ Tick \/ BuyTicket \/ Confirm \/ ToggleLotterySuspend
    \/ Run
    \/ Shutdown \/ Crash \/ Load

Spec == Init /\ [][Next]_vars

\* Time passes, blocks are found, and the thread's sleep ends.
FairSpec == Spec /\ WF_vars(Tick) /\ WF_vars(Confirm) /\ WF_vars(Run)

-----------------------------------------------------------------------------
(* Properties.                                                               *)

\* Every variable has its type.
TypeOK ==
    /\ slot \in Slots /\ looked \in BOOLEAN /\ up \in BOOLEAN
    /\ unconfirmed \in Nat /\ tickets \in Nat /\ pot \in Nat
    /\ lastWinningTopBlock \in Nat /\ prevWinner \in Nat /\ suspended \in BOOLEAN
    /\ flags \in [rewardGivenout : BOOLEAN, sweepComplete : BOOLEAN, noWinner : BOOLEAN]
    /\ pc \in {"head", "pay", "note", "save"}
    /\ draw \in [from : Nat, to : Nat, winner : Nat]
    /\ saved \in [top : Nat, winner : Nat]
    /\ draws \in Nat /\ paid \subseteq Nat /\ smooth \in BOOLEAN

\* A ticket takes part in one paid draw at most, if no failure came between a payment and
\* its record: neither the pass that follows a draw, nor an admin who suspends, resumes and
\* thereby saves in the middle of one, nor a shutdown, or a crash during a later draw,
\* bring a drawn ticket back into a draw that is paid.
NoTicketPaidTwice ==
    [][pc = "pay" /\ pc' = "note" => InDraw \cap paid = {}]_vars

\* The flags allow one draw a week, as long as the bot is not restarted in between:
\* neither a blank draw, whose tickets stay active, nor resuming a suspended lottery, nor
\* flags left over from an earlier week open a second one.
OneDrawAWeek == draws <= 1

\* Between passes, the wallet holds the price of every ticket that is still to be drawn:
\* what is swept is what an earlier draw left over, and nobody can buy between the
\* draw and the sweep.  (As long as every draw had a winner and nothing failed.)
JackpotBacked == smooth /\ pc = "head" => Price * Cardinality(Active) <= pot

\* A ticket that the wallet has received takes part in a draw sooner or later, unless
\* something fails, an admin steps in, or the draws have no winner.
TicketsAreDrawn ==
    \A t \in 1 .. MaxTickets : t <= tickets ~> t <= lastWinningTopBlock \/ ~smooth

\* "In the event of no winner the jackpot is rolled over to next drawing": once the
\* thread has settled after a blank draw's day, the jackpot is still there.
JackpotRollsOver ==
    prevWinner = 0 /\ slot = "day" => Price * Cardinality(Active) <= pot

=============================================================================
