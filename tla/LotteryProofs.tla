--------------------------- MODULE LotteryProofs ----------------------------
(***************************************************************************)
(* What the lottery's flags and its one number guarantee, proved for any    *)
(* prices, any number of tickets and every combination of failures.         *)
(***************************************************************************)
EXTENDS LotteryRefinement, FiniteSetTheorems, TLAPS

(* The numbers are numbers, the slots are those of the week, and the flags three. *)
Flags == {"rewardGivenout", "sweepComplete", "noWinner"}

WellTyped ==
    /\ slot \in Slots
    /\ unconfirmed \in Nat /\ tickets \in Nat /\ pot \in Nat
    /\ lastWinningTopBlock \in Nat /\ draws \in Nat /\ paid \subseteq Nat
    /\ draw.from \in Nat /\ draw.to \in Nat /\ saved.top \in Nat
    /\ DOMAIN flags = Flags

(* From the hour of the draw to that of the sweep the shop is closed and every payment
   confirmed, and only in these hours has the week had its draw; after it, no ticket is
   left, or the flag of a blank draw is up. *)
WeekInv ==
    /\ slot \in {"pick", "gap", "sweep"} => unconfirmed = 0
    /\ draws # 0 => slot \in {"pick", "gap", "sweep"}
    /\ draws <= 1
    /\ up /\ slot = "pick" /\ draws # 0 => tickets <= lastWinningTopBlock \/ flags.noWinner

(* Tickets that were paid out lie at or below the height on disk, apart from those of the
   draw at hand once it is paid. *)
PaidInv ==
    /\ pc = "head" => draw = NoDraw
    /\ pc # "head" => up /\ draw.to <= lastWinningTopBlock
    /\ up => saved.top <= lastWinningTopBlock
    /\ \A t \in paid : t \in InDraw \/ t <= saved.top
    /\ pc = "pay" => \A t \in paid : t <= draw.from

(* As long as nothing went wrong: no ticket is left after the draw's hour, the flag of the
   draw comes down before the next one, and the wallet holds what the tickets cost. *)
AllDrawn == tickets = lastWinningTopBlock
Owed == Price * (tickets - lastWinningTopBlock)

RewardFlag ==
    flags.rewardGivenout =>
        /\ \/ slot \in {"pick", "gap"} /\ AllDrawn
           \/ slot = "sweep" /\ (looked => flags.sweepComplete)
           \/ slot = "day" /\ ~looked /\ flags.sweepComplete
        /\ flags.sweepComplete \/ pot > 0

SmoothInv ==
    smooth =>
        /\ up /\ ~flags.noWinner
        /\ lastWinningTopBlock <= tickets
        /\ Owed <= pot
        /\ suspended => unconfirmed = 0 /\ AllDrawn /\ ~flags.rewardGivenout
        /\ pc # "head" => slot = "pick" /\ AllDrawn /\ ~flags.rewardGivenout /\ ~suspended
        /\ pc \in {"note", "save"} => pot > 0
        /\ RewardFlag
        /\ slot = "pick" /\ looked => AllDrawn
        /\ slot \in {"gap", "sweep"} => AllDrawn

-----------------------------------------------------------------------------

LEMMA Prices == Price \in Nat /\ Prize \in Nat /\ Prize \in Int
  BY PriceAssumption

LEMMA TypedInit == Init => WellTyped
  BY DEF Init, WellTyped, Slots, Flags, NoFlags, NoDraw, Snapshot

LEMMA TypedStep == WellTyped /\ [Next]_vars => WellTyped'
  <1> SUFFICES ASSUME WellTyped, [Next]_vars PROVE WellTyped'
    OBVIOUS
  <1> USE DEF WellTyped, Flags, clockVars, walletVars, lotteryVars, historyVars
  <1>1. CASE Tick
    BY <1>1 DEF Tick, NextSlot, Slots
  <1>2. CASE BuyTicket
    BY <1>2 DEF BuyTicket
  <1>3. CASE Confirm
    BY <1>3, Prices DEF Confirm
  <1>4. CASE ToggleLotterySuspend
    BY <1>4 DEF ToggleLotterySuspend, Snapshot
  <1>5. CASE SuspendedPass \/ QueryThrows \/ NoActiveTickets
    BY <1>5 DEF SuspendedPass, QueryThrows, NoActiveTickets, Suspends, PassEnds
  <1>6. CASE DrawWinner
    BY <1>6 DEF DrawWinner, TopBlock
  <1>7. CASE DrawBlank
    BY <1>7 DEF DrawBlank
  <1>8. CASE PayWinner
    <2>1. pot - Reward \in Nat /\ InDraw \subseteq Nat
      BY <1>8, Prices DEF PayWinner, Reward, InDraw
    <2> QED BY <1>8, <2>1 DEF PayWinner
  <1>9. CASE PayThrows \/ NoteThrows \/ WinnerPaid \/ FinishDraw
    BY <1>9 DEF PayThrows, NoteThrows, WinnerPaid, FinishDraw, Suspends, PassEnds, NoDraw, Snapshot
  <1>10. CASE Sweep
    BY <1>10 DEF Sweep, PassEnds
  <1>11. CASE SweepThrows
    BY <1>11 DEF SweepThrows, PassEnds
  <1>12. CASE OtherPass
    BY <1>12 DEF OtherPass, PassEnds
  <1>13. CASE Shutdown
    BY <1>13 DEF Shutdown, Stops, NoFlags, NoDraw
  <1>14. CASE Crash
    BY <1>14 DEF Crash, Stops, NoFlags, NoDraw
  <1>15. CASE Load
    BY <1>15 DEF Load
  <1>16. CASE UNCHANGED vars
    BY <1>16 DEF vars
  <1> QED BY <1>1, <1>2, <1>3, <1>4, <1>5, <1>6, <1>7, <1>8, <1>9, <1>10,
         <1>11, <1>12, <1>13, <1>14, <1>15, <1>16 DEF Next, Run

-----------------------------------------------------------------------------
(* One draw a week. *)

LEMMA WeekInit == Init => WeekInv
  BY DEF Init, WeekInv

LEMMA WeekStep == WellTyped /\ WeekInv /\ [Next]_vars => WeekInv'
  <1> SUFFICES ASSUME WellTyped, WeekInv, [Next]_vars PROVE WeekInv'
    OBVIOUS
  <1> USE DEF WeekInv, WellTyped, Flags, clockVars, walletVars, lotteryVars, historyVars
  <1>1. CASE Tick
    BY <1>1 DEF Tick, NextSlot, Slots
  <1>2. CASE BuyTicket
    BY <1>2 DEF BuyTicket, Open
  <1>3. CASE Confirm
    BY <1>3 DEF Confirm
  <1>4. CASE ToggleLotterySuspend
    BY <1>4 DEF ToggleLotterySuspend, Snapshot
  <1>5. CASE SuspendedPass
    BY <1>5 DEF SuspendedPass, PassEnds, AtHead
  <1>6. CASE QueryThrows
    BY <1>6 DEF QueryThrows, Suspends, PassEnds, Pass, AtHead
  <1>7. CASE NoActiveTickets
    BY <1>7 DEF NoActiveTickets, PassEnds, Pass, AtHead
  <1>8. CASE DrawWinner
    BY <1>8 DEF DrawWinner, Pass, AtHead, TopBlock, DrawDue, Active
  <1>9. CASE DrawBlank
    BY <1>9 DEF DrawBlank, Pass, AtHead, DrawDue, Active
  <1>10. CASE PayWinner
    BY <1>10 DEF PayWinner
  <1>11. CASE PayThrows
    BY <1>11 DEF PayThrows, Suspends, PassEnds
  <1>12. CASE NoteThrows
    BY <1>12 DEF NoteThrows, Suspends, PassEnds
  <1>13. CASE WinnerPaid
    BY <1>13 DEF WinnerPaid
  <1>14. CASE FinishDraw
    BY <1>14 DEF FinishDraw, PassEnds, Snapshot
  <1>15. CASE Sweep
    BY <1>15 DEF Sweep, PassEnds, Pass, AtHead, SweepDue
  <1>16. CASE SweepThrows
    BY <1>16 DEF SweepThrows, PassEnds, Pass, AtHead, SweepDue
  <1>17. CASE OtherPass
    BY <1>17 DEF OtherPass, PassEnds, Pass, AtHead
  <1>18. CASE Shutdown
    BY <1>18 DEF Shutdown, Stops, AtHead
  <1>19. CASE Crash
    BY <1>19 DEF Crash, Stops
  <1>20. CASE Load
    BY <1>20 DEF Load
  <1>21. CASE UNCHANGED vars
    BY <1>21 DEF vars
  <1> QED
    BY <1>1, <1>2, <1>3, <1>4, <1>5, <1>6, <1>7, <1>8, <1>9, <1>10, <1>11,
       <1>12, <1>13, <1>14, <1>15, <1>16, <1>17, <1>18, <1>19, <1>20, <1>21 DEF Next, Run

-----------------------------------------------------------------------------
(* No ticket is paid twice. *)

LEMMA PaidInit == Init => PaidInv
  BY DEF Init, PaidInv, Snapshot, NoDraw

LEMMA PaidStep == WellTyped /\ PaidInv /\ [Next]_vars => PaidInv'
  <1> SUFFICES ASSUME WellTyped, PaidInv, [Next]_vars PROVE PaidInv'
    OBVIOUS
  <1> USE DEF PaidInv, WellTyped, InDraw, clockVars, walletVars, lotteryVars, historyVars
  <1>1. CASE Tick
    BY <1>1 DEF Tick, NextSlot, Slots
  <1>2. CASE BuyTicket
    BY <1>2 DEF BuyTicket
  <1>3. CASE Confirm
    BY <1>3 DEF Confirm
  <1>4. CASE ToggleLotterySuspend
    BY <1>4 DEF ToggleLotterySuspend, Snapshot
  <1>5. CASE SuspendedPass
    BY <1>5 DEF SuspendedPass, PassEnds, AtHead
  <1>6. CASE QueryThrows
    BY <1>6 DEF QueryThrows, Suspends, PassEnds, Pass, AtHead
  <1>7. CASE NoActiveTickets
    BY <1>7 DEF NoActiveTickets, PassEnds, Pass, AtHead
  <1>8. CASE DrawWinner
    BY <1>8 DEF DrawWinner, Pass, AtHead, TopBlock, Active, NoDraw
  <1>9. CASE DrawBlank
    BY <1>9 DEF DrawBlank, Pass, AtHead, NoDraw
  <1>10. CASE PayWinner
    BY <1>10 DEF PayWinner
  <1>11. CASE PayThrows
    BY <1>11 DEF PayThrows, Suspends, PassEnds, NoDraw
  <1>12. CASE NoteThrows
    BY <1>12 DEF NoteThrows, Suspends, PassEnds, NoDraw
  <1>13. CASE WinnerPaid
    BY <1>13 DEF WinnerPaid
  <1>14. CASE FinishDraw
    BY <1>14 DEF FinishDraw, PassEnds, Snapshot, NoDraw
  <1>15. CASE Sweep
    BY <1>15 DEF Sweep, PassEnds, Pass, AtHead, SweepDue
  <1>16. CASE SweepThrows
    BY <1>16 DEF SweepThrows, PassEnds, Pass, AtHead, SweepDue
  <1>17. CASE OtherPass
    BY <1>17 DEF OtherPass, PassEnds, Pass, AtHead
  <1>18. CASE Shutdown
    BY <1>18 DEF Shutdown, Stops, AtHead, NoDraw
  <1>19. CASE Crash
    BY <1>19 DEF Crash, Stops, NoDraw
  <1>20. CASE Load
    BY <1>20 DEF Load
  <1>21. CASE UNCHANGED vars
    BY <1>21 DEF vars
  <1> QED
    BY <1>1, <1>2, <1>3, <1>4, <1>5, <1>6, <1>7, <1>8, <1>9, <1>10, <1>11,
       <1>12, <1>13, <1>14, <1>15, <1>16, <1>17, <1>18, <1>19, <1>20, <1>21 DEF Next, Run

-----------------------------------------------------------------------------
(* The jackpot. *)

LEMMA Left ==
  \A a, b \in Nat : a - b \in Int /\ (a = b => a - b = 0) /\ (a + 1) - b = (a - b) + 1
  OBVIOUS

LEMMA OwedChanges ==
  ASSUME WellTyped, WellTyped'
  PROVE  /\ Owed \in Int /\ Owed' \in Int
         /\ AllDrawn => Owed = 0
         /\ AllDrawn' => Owed' = 0
         /\ tickets' = tickets + 1 /\ UNCHANGED lastWinningTopBlock => Owed' = Owed + Price
         /\ UNCHANGED <<tickets, lastWinningTopBlock>> => Owed' = Owed
  <1> DEFINE n == tickets - lastWinningTopBlock
             m == tickets' - lastWinningTopBlock'
  <1>1. Price * 0 = 0 /\ \A k \in Int : Price * k \in Int /\ Price * (k + 1) = Price * k + Price
    BY Prices
  <1>2. Owed = Price * n /\ Owed' = Price * m
    BY DEF Owed
  <1>3. tickets \in Nat /\ lastWinningTopBlock \in Nat /\ tickets' \in Nat /\ lastWinningTopBlock' \in Nat
    BY DEF WellTyped
  <1>4. n \in Int /\ m \in Int /\ (AllDrawn => n = 0) /\ (AllDrawn' => m = 0)
    BY <1>3, Left DEF AllDrawn
  <1>5. /\ tickets' = tickets + 1 /\ UNCHANGED lastWinningTopBlock => m = n + 1
        /\ UNCHANGED <<tickets, lastWinningTopBlock>> => m = n
    BY <1>3, Left
  <1> HIDE DEF n, m
  <1> QED BY <1>1, <1>2, <1>3, <1>4, <1>5

LEMMA ActiveTickets ==
  ASSUME lastWinningTopBlock \in Nat, tickets \in Nat, lastWinningTopBlock <= tickets
  PROVE  Cardinality(Active) = tickets - lastWinningTopBlock
  <1>1. lastWinningTopBlock + 1 \in Int /\ tickets \in Int
    OBVIOUS
  <1>2. Cardinality(Active) = IF lastWinningTopBlock + 1 > tickets THEN 0
                              ELSE tickets - (lastWinningTopBlock + 1) + 1
    BY <1>1, FS_Interval DEF Active
  <1> QED BY <1>2

LEMMA SmoothInit == Init => SmoothInv
  BY Prices DEF Init, SmoothInv, RewardFlag, AllDrawn, Owed, NoFlags

LEMMA SmoothStep == WellTyped /\ WeekInv /\ SmoothInv /\ [Next]_vars => SmoothInv'
  <1> SUFFICES ASSUME WellTyped, WeekInv, SmoothInv, [Next]_vars PROVE SmoothInv'
    OBVIOUS
  <1>0. WellTyped'
    BY TypedStep
  <1> USE OwedChanges, <1>0 DEF WellTyped, WeekInv, SmoothInv, RewardFlag, AllDrawn, Flags, clockVars, walletVars, lotteryVars, historyVars
  <1>1. CASE Tick
    BY <1>1 DEF Tick, NextSlot, Slots
  <1>2. CASE BuyTicket
    BY <1>2 DEF BuyTicket, Open
  <1>3. CASE Confirm
    BY <1>3, Prices DEF Confirm
  <1>4. CASE ToggleLotterySuspend
    BY <1>4 DEF ToggleLotterySuspend, Snapshot
  <1>5. CASE SuspendedPass
    BY <1>5 DEF SuspendedPass, PassEnds, AtHead
  <1>6. CASE QueryThrows
    BY <1>6 DEF QueryThrows, Suspends, PassEnds, Pass, AtHead
  <1>7. CASE NoActiveTickets
    BY <1>7 DEF NoActiveTickets, PassEnds, Pass, AtHead, DrawDue, Active
  <1>8. CASE DrawWinner
    BY <1>8 DEF DrawWinner, Pass, AtHead, TopBlock, DrawDue, Active
  <1>9. CASE DrawBlank
    BY <1>9 DEF DrawBlank, Pass, AtHead, DrawDue, Active
  <1>10. CASE PayWinner
    <2>1. Reward \in Int
      BY Prices DEF Reward
    <2>2. pot' > 0
      BY <1>10, <2>1 DEF PayWinner
    <2> QED BY <1>10, <2>2 DEF PayWinner
  <1>11. CASE PayThrows
    BY <1>11 DEF PayThrows, Suspends, PassEnds
  <1>12. CASE NoteThrows
    BY <1>12 DEF NoteThrows, Suspends, PassEnds
  <1>13. CASE WinnerPaid
    BY <1>13 DEF WinnerPaid
  <1>14. CASE FinishDraw
    <2>1. /\ pc = "save" /\ pc' = "head"
          /\ flags'.rewardGivenout /\ flags'.sweepComplete = flags.sweepComplete
          /\ flags'.noWinner = flags.noWinner
      BY <1>14 DEF FinishDraw, PassEnds
    <2>2. UNCHANGED <<slot, up, walletVars, lotteryVars, smooth>>
      BY <1>14 DEF FinishDraw
    <2>3. smooth => slot = "pick" /\ AllDrawn /\ pot > 0 /\ ~suspended
      BY <2>1
    <2>4. smooth' => RewardFlag'
      BY <2>2, <2>3
    <2> QED BY <2>1, <2>2, <2>3, <2>4 DEF RewardFlag
  <1>15. CASE Sweep
    BY <1>15 DEF Sweep, PassEnds, Pass, AtHead, SweepDue
  <1>16. CASE SweepThrows
    <2>1. /\ ~flags.sweepComplete /\ slot = "sweep" /\ pc = "head" /\ pc' = "head"
          /\ UNCHANGED <<slot, up, unconfirmed, tickets, lotteryVars, flags>>
      BY <1>16 DEF SweepThrows, PassEnds, Pass, AtHead, SweepDue
    <2>2. smooth' => smooth /\ pot = 0 /\ pot' = 0
      BY <1>16 DEF SweepThrows
    <2> QED BY <2>1, <2>2
  <1>17. CASE OtherPass
    BY <1>17 DEF OtherPass, PassEnds, Pass, AtHead, DrawDue, SweepDue, ResetDue, BeforeClose
  <1>18. CASE Shutdown
    BY <1>18 DEF Shutdown, Stops, AtHead
  <1>19. CASE Crash
    BY <1>19 DEF Crash, Stops
  <1>20. CASE Load
    BY <1>20 DEF Load
  <1>21. CASE UNCHANGED vars
    BY <1>21 DEF vars
  <1> QED
    BY <1>1, <1>2, <1>3, <1>4, <1>5, <1>6, <1>7, <1>8, <1>9, <1>10, <1>11,
       <1>12, <1>13, <1>14, <1>15, <1>16, <1>17, <1>18, <1>19, <1>20, <1>21 DEF Next, Run

-----------------------------------------------------------------------------
(* Types. *)

FlagsType == [rewardGivenout : BOOLEAN, sweepComplete : BOOLEAN, noWinner : BOOLEAN]

(* What WellTyped leaves open. *)
FullyTyped ==
    /\ looked \in BOOLEAN /\ up \in BOOLEAN /\ suspended \in BOOLEAN /\ smooth \in BOOLEAN
    /\ prevWinner \in Nat
    /\ flags \in FlagsType
    /\ pc \in {"head", "pay", "note", "save"}
    /\ draw \in [from : Nat, to : Nat, winner : Nat]
    /\ saved \in [top : Nat, winner : Nat]

LEMMA TypeParts == WellTyped /\ FullyTyped => TypeOK
  BY DEF WellTyped, FullyTyped, FlagsType, TypeOK

(* What a step can make of each variable. *)
LEMMA Switches ==
  ASSUME Next
  PROVE  /\ looked' \in {TRUE, FALSE, looked} /\ up' \in {TRUE, FALSE, up}
         /\ suspended' \in {TRUE, FALSE, suspended, ~suspended}
         /\ pc' \in {"head", "pay", "note", "save", pc}
  BY DEF Next, Run, Tick, BuyTicket, Confirm, ToggleLotterySuspend, SuspendedPass, QueryThrows,
         NoActiveTickets, DrawWinner, DrawBlank, PayWinner, PayThrows, NoteThrows, WinnerPaid,
         FinishDraw, Sweep, SweepThrows, OtherPass, Shutdown, Crash, Load, Stops, Suspends, PassEnds,
         clockVars, walletVars, lotteryVars, historyVars

LEMMA Records ==
  ASSUME Next
  PROVE  /\ prevWinner' \in {prevWinner, 0, draw.winner}
         /\ saved' \in {saved, Snapshot}
         /\ \/ draw' \in {draw, NoDraw}
            \/ \E t \in Active : draw' = [from |-> lastWinningTopBlock, to |-> tickets, winner |-> t]
  BY DEF Next, Run, Tick, BuyTicket, Confirm, ToggleLotterySuspend, SuspendedPass, QueryThrows,
         NoActiveTickets, DrawWinner, DrawBlank, PayWinner, PayThrows, NoteThrows, WinnerPaid,
         FinishDraw, Sweep, SweepThrows, OtherPass, Shutdown, Crash, Load, Stops, Suspends, PassEnds,
         clockVars, walletVars, lotteryVars, historyVars, LoadedWinner

LEMMA FlagChanges ==
  ASSUME Next
  PROVE  \/ flags' \in {flags, NoFlags}
         \/ flags' = [flags EXCEPT !.noWinner = TRUE]
         \/ flags' = [flags EXCEPT !.rewardGivenout = TRUE]
         \/ flags' = [flags EXCEPT !.noWinner = FALSE, !.sweepComplete = TRUE]
         \/ flags' = [flags EXCEPT !.rewardGivenout = FALSE, !.sweepComplete = FALSE]
  BY DEF Next, Run, Tick, BuyTicket, Confirm, ToggleLotterySuspend, SuspendedPass, QueryThrows,
         NoActiveTickets, DrawWinner, DrawBlank, PayWinner, PayThrows, NoteThrows, WinnerPaid,
         FinishDraw, Sweep, SweepThrows, OtherPass, Shutdown, Crash, Load, Stops, Suspends, PassEnds,
         clockVars, walletVars, lotteryVars, historyVars

LEMMA SmoothChanges ==
  ASSUME Next
  PROVE  \/ smooth' = smooth \/ smooth' = FALSE
         \/ smooth' = (smooth /\ Reward >= pot)
         \/ smooth' = (smooth /\ ~flags.noWinner /\ pot = 0)
  BY DEF Next, Run, Tick, BuyTicket, Confirm, ToggleLotterySuspend, SuspendedPass, QueryThrows,
         NoActiveTickets, DrawWinner, DrawBlank, PayWinner, PayThrows, NoteThrows, WinnerPaid,
         FinishDraw, Sweep, SweepThrows, OtherPass, Shutdown, Crash, Load, Stops, Suspends, PassEnds,
         clockVars, walletVars, lotteryVars, historyVars

LEMMA FullyTypedInit == Init => FullyTyped
  <1> SUFFICES ASSUME Init PROVE FullyTyped
    OBVIOUS
  <1>1. flags \in FlagsType /\ draw \in [from : Nat, to : Nat, winner : Nat]
    BY DEF Init, FlagsType, NoFlags, NoDraw
  <1>2. saved \in [top : Nat, winner : Nat]
    BY DEF Init, Snapshot
  <1> QED BY <1>1, <1>2 DEF Init, FullyTyped

LEMMA FullyTypedStep == WellTyped /\ FullyTyped /\ [Next]_vars => FullyTyped'
  <1> SUFFICES ASSUME WellTyped, FullyTyped, [Next]_vars PROVE FullyTyped'
    OBVIOUS
  <1>1. CASE UNCHANGED vars
    BY <1>1 DEF vars, clockVars, walletVars, lotteryVars, historyVars, FullyTyped
  <1>2. CASE Next
    <2>1. looked' \in BOOLEAN /\ up' \in BOOLEAN
      BY <1>2, Switches DEF FullyTyped
    <2>2. suspended' \in BOOLEAN /\ pc' \in {"head", "pay", "note", "save"}
      BY <1>2, Switches DEF FullyTyped
    <2>3. smooth' \in BOOLEAN
      <3>1. smooth \in BOOLEAN
        BY DEF FullyTyped
      <3>2. /\ (smooth /\ Reward >= pot) \in BOOLEAN
            /\ (smooth /\ ~flags.noWinner /\ pot = 0) \in BOOLEAN
        BY Zenon
      <3> QED BY <1>2, <3>1, <3>2, SmoothChanges, Zenon
    <2>4. prevWinner' \in Nat /\ saved' \in [top : Nat, winner : Nat]
      BY <1>2, Records DEF FullyTyped, WellTyped, Snapshot
    <2>5. draw' \in [from : Nat, to : Nat, winner : Nat]
      BY <1>2, Records DEF FullyTyped, WellTyped, NoDraw, Active
    <2>6. flags' \in FlagsType
      <3>1. /\ flags \in FlagsType /\ NoFlags \in FlagsType
            /\ [flags EXCEPT !.noWinner = TRUE] \in FlagsType
            /\ [flags EXCEPT !.rewardGivenout = TRUE] \in FlagsType
            /\ [flags EXCEPT !.noWinner = FALSE, !.sweepComplete = TRUE] \in FlagsType
            /\ [flags EXCEPT !.rewardGivenout = FALSE, !.sweepComplete = FALSE] \in FlagsType
        BY DEF FullyTyped, FlagsType, NoFlags
      <3> QED BY <1>2, <3>1, FlagChanges
    <2> QED BY <2>1, <2>2, <2>3, <2>4, <2>5, <2>6 DEF FullyTyped
  <1> QED BY <1>1, <1>2

-----------------------------------------------------------------------------

LotteryInv == WellTyped /\ FullyTyped /\ WeekInv /\ PaidInv /\ SmoothInv

LEMMA LotteryInvariant == Spec => []LotteryInv
  <1>1. Init => LotteryInv
    BY TypedInit, FullyTypedInit, WeekInit, PaidInit, SmoothInit DEF LotteryInv
  <1>2. LotteryInv /\ [Next]_vars => LotteryInv'
    BY TypedStep, FullyTypedStep, WeekStep, PaidStep, SmoothStep DEF LotteryInv
  <1> QED BY <1>1, <1>2, PTL DEF Spec

(* Whatever fails, is suspended, resumed or comes out blank, Lottery::run draws once a week,  *)
(* unless the bot is started again in the hour of the draw: its three flags and the closed     *)
(* shop leave nothing for a second draw.                                                       *)
THEOREM OneDraw == Spec => []OneDrawAWeek
  <1>1. LotteryInv => OneDrawAWeek
    BY DEF LotteryInv, WeekInv, OneDrawAWeek
  <1> QED BY <1>1, LotteryInvariant, PTL

(* lastWinningTopBlock, in memory and in LOTTERY.JSON, keeps every ticket that was paid out     *)
(* in a draw of run out of every later draw that is paid.                                       *)
THEOREM PaidOnce == Spec => NoTicketPaidTwice
  <1>1. LotteryInv /\ [Next]_vars => [pc = "pay" /\ pc' = "note" => InDraw \cap paid = {}]_vars
    BY DEF LotteryInv, WellTyped, PaidInv, InDraw
  <1> QED BY <1>1, LotteryInvariant, PTL DEF Spec, NoTicketPaidTwice

(* As long as no draw was blank and nothing failed, the wallet holds the price of every ticket   *)
(* to be drawn, for all prices and numbers of tickets: the sweep at the end of run's week        *)
(* takes nothing that a later draw needs.                                                        *)
THEOREM JackpotIsThere == Spec => []JackpotBacked
  <1>1. LotteryInv => JackpotBacked
    <2> SUFFICES ASSUME LotteryInv, smooth PROVE Price * Cardinality(Active) <= pot
      BY DEF JackpotBacked
    <2>1. /\ lastWinningTopBlock \in Nat /\ tickets \in Nat /\ lastWinningTopBlock <= tickets
          /\ Price * (tickets - lastWinningTopBlock) <= pot
      BY DEF LotteryInv, WellTyped, SmoothInv, Owed
    <2>2. Cardinality(Active) = tickets - lastWinningTopBlock
      BY <2>1, ActiveTickets
    <2> QED BY <2>1, <2>2
  <1> QED BY <1>1, LotteryInvariant, PTL

(* When the hour of the draw ends, a lottery that met with no failure has drawn, or had no ticket
   to draw.  (WeeklyGame implies this where Prize < Price; here it is shown for all prices.) *)
AnnouncedOnFriday ==
    [][slot = "pick" /\ slot' # slot /\ smooth => Active = {} \/ draws = 1]_vars

(* "Winners announced on Friday 9 PM UTC": a lottery that met with no failure never passes the    *)
(* hour of the draw with tickets that it has not drawn.                                          *)
THEOREM AnnouncedInTime == Spec => AnnouncedOnFriday
  <1>1. LotteryInv /\ [Next]_vars
        => [slot = "pick" /\ slot' # slot /\ smooth => Active = {} \/ draws = 1]_vars
    <2> SUFFICES ASSUME LotteryInv, Next, slot = "pick", slot' # slot, smooth
                 PROVE  Active = {}
      OBVIOUS
    <2>1. Tick
      BY DEF Next, Run, BuyTicket, Confirm, ToggleLotterySuspend, SuspendedPass, QueryThrows,
         NoActiveTickets, DrawWinner, DrawBlank, PayWinner, PayThrows, NoteThrows, WinnerPaid,
         FinishDraw, Sweep, SweepThrows, OtherPass, Shutdown, Crash, Load, Stops, Suspends,
         PassEnds, clockVars
    <2>2. looked /\ tickets = lastWinningTopBlock /\ tickets \in Nat
      BY <2>1 DEF Tick, LotteryInv, SmoothInv, AllDrawn, WellTyped
    <2> QED BY <2>2 DEF Active
  <1> QED BY <1>1, LotteryInvariant, PTL DEF Spec, AnnouncedOnFriday

(* Every variable of the lottery keeps its type: no height, balance or count of run falls below *)
(* zero, whatever is drawn, swept, lost in a crash or read back from LOTTERY.JSON.               *)
THEOREM LotteryTypes == Spec => []TypeOK
  <1>1. LotteryInv => TypeOK
    BY TypeParts DEF LotteryInv
  <1> QED BY <1>1, LotteryInvariant, PTL
-----------------------------------------------------------------------------
(* Lottery plays WeeklyGame. *)

BeforeDraw == slot \notin {"pick", "gap", "sweep"} \/ (slot = "pick" /\ draws = 0)

Stake == Price * (draw.to - draw.from)

(* As long as nothing went wrong: the wallet holds exactly what this week's tickets cost until
   they are drawn, and a draw pays for all of them; money that is there after it has the flag of
   the draw with it, and the thread does not leave the last hour before it is gone. *)
GameInv ==
    smooth =>
        /\ ~suspended
        /\ pc # "head" => draws # 0
        /\ BeforeDraw => pot = Owed
        /\ pc = "pay" => draw.from < draw.to /\ pot = Stake
        /\ flags.sweepComplete => /\ flags.rewardGivenout
                                  /\ \/ slot = "sweep" /\ pot = 0
                                     \/ slot = "day" /\ ~looked
        /\ pc = "head" /\ ~BeforeDraw /\ pot > 0 => flags.rewardGivenout
        /\ slot = "sweep" /\ looked => pot = 0

LEMMA GameInit == Init => GameInv
  BY Prices DEF Init, GameInv, BeforeDraw, Owed, NoFlags

(* A draw that nothing went wrong with can pay for its winner. *)
LEMMA JackpotSuffices ==
  ASSUME Prize < Price, WellTyped, GameInv, smooth, pc = "pay"
  PROVE  Reward < pot
  <1>1. draw.to \in Nat /\ draw.from \in Nat /\ draw.from < draw.to /\ pot = Stake
    BY DEF WellTyped, GameInv
  <1> DEFINE n == draw.to - draw.from
  <1>2. n \in Int /\ n > 0
    BY <1>1
  <1>3. Reward = Prize * n /\ Stake = Price * n
    BY DEF Reward, Stake
  <1> HIDE DEF n
  <1>4. \A k \in Int : k > 0 => Prize * k < Price * k
    BY Prices
  <1> QED BY <1>1, <1>2, <1>3, <1>4

LEMMA GameStep ==
  ASSUME Prize < Price, WellTyped, WeekInv, SmoothInv, GameInv, [Next]_vars
  PROVE  GameInv'
  <1>0. WellTyped'
    BY TypedStep
  <1> USE OwedChanges, <1>0 DEF WellTyped, WeekInv, SmoothInv, RewardFlag, AllDrawn, GameInv, BeforeDraw, Flags, clockVars, walletVars, lotteryVars, historyVars
  <1>1. CASE Tick
    BY <1>1 DEF Tick, NextSlot, Slots, Stake
  <1>2. CASE BuyTicket
    BY <1>2 DEF BuyTicket, Open, Stake
  <1>3. CASE Confirm
    BY <1>3, Prices DEF Confirm
  <1>4. CASE ToggleLotterySuspend
    BY <1>4 DEF ToggleLotterySuspend, Snapshot
  <1>5. CASE SuspendedPass
    BY <1>5 DEF SuspendedPass, PassEnds, AtHead
  <1>6. CASE QueryThrows
    BY <1>6 DEF QueryThrows, Suspends, PassEnds, Pass, AtHead
  <1>7. CASE NoActiveTickets
    BY <1>7 DEF NoActiveTickets, PassEnds, Pass, AtHead, DrawDue, Active
  <1>8. CASE DrawWinner
    <2>1. /\ pc' = "pay" /\ draws' = draws + 1 /\ slot = "pick"
          /\ lastWinningTopBlock < tickets
          /\ draw'.from = lastWinningTopBlock /\ draw'.to = tickets
          /\ UNCHANGED <<clockVars, up, walletVars, suspended, flags, smooth>>
      BY <1>8 DEF DrawWinner, Pass, AtHead, DrawDue, Active
    <2>2. smooth => draws = 0
      BY <2>1
    <2>3. Stake' = Owed
      BY <2>1 DEF Stake, Owed
    <2> HIDE DEF AllDrawn
    <2> QED BY <2>1, <2>2, <2>3
  <1>9. CASE DrawBlank
    BY <1>9 DEF DrawBlank, Pass, AtHead, DrawDue, Active
  <1>10. CASE PayWinner
    BY <1>10 DEF PayWinner
  <1>11. CASE PayThrows
    <2>1. pc = "pay" /\ smooth' = (smooth /\ Reward >= pot)
      BY <1>11 DEF PayThrows
    <2>2. smooth => ~(Reward >= pot)
      <3>1. Reward \in Int /\ pot \in Int
        BY Prices DEF Reward
      <3> QED BY <2>1, <3>1, JackpotSuffices
    <2>3. ~smooth'
      BY <2>1, <2>2, Zenon
    <2> QED BY <2>3
  <1>12. CASE NoteThrows
    BY <1>12 DEF NoteThrows, Suspends, PassEnds
  <1>13. CASE WinnerPaid
    BY <1>13 DEF WinnerPaid
  <1>14. CASE FinishDraw
    BY <1>14 DEF FinishDraw, PassEnds
  <1>15. CASE Sweep
    BY <1>15 DEF Sweep, PassEnds, Pass, AtHead, SweepDue
  <1>16. CASE SweepThrows
    BY <1>16 DEF SweepThrows, PassEnds, Pass, AtHead, SweepDue
  <1>17. CASE OtherPass
    BY <1>17 DEF OtherPass, PassEnds, Pass, AtHead, DrawDue, SweepDue, ResetDue, BeforeClose
  <1>18. CASE Shutdown
    BY <1>18 DEF Shutdown, Stops, AtHead
  <1>19. CASE Crash
    BY <1>19 DEF Crash, Stops
  <1>20. CASE Load
    BY <1>20 DEF Load
  <1>21. CASE UNCHANGED vars
    BY <1>21 DEF vars, Stake
  <1> QED
    BY <1>1, <1>2, <1>3, <1>4, <1>5, <1>6, <1>7, <1>8, <1>9, <1>10, <1>11,
       <1>12, <1>13, <1>14, <1>15, <1>16, <1>17, <1>18, <1>19, <1>20, <1>21 DEF Next, Run

GameTyped == WellTyped /\ FullyTyped /\ WeekInv /\ SmoothInv /\ GameInv

(* What the mapping shows while nothing has gone wrong. *)
GameView ==
    /\ slot \in {"day", "night", "friday"} => Stage = "sale"
    /\ slot = "closed" => Stage = "closed"
    /\ slot = "pick" /\ (draws = 0 \/ pc = "pay") => Stage = "closed"
    /\ slot = "pick" /\ draws # 0 /\ pc # "pay" => Stage = "over"
    /\ slot \in {"gap", "sweep"} => Stage = "over"
    /\ pc # "pay" => Waiting = unconfirmed + (tickets - lastWinningTopBlock)
    /\ pc = "pay" => Waiting = draw.to - draw.from
    /\ unconfirmed = 0 => Fund = pot

LEMMA Seen == GameTyped /\ smooth => GameView
  <1> SUFFICES ASSUME GameTyped, smooth PROVE GameView
    OBVIOUS
  <1>1. /\ slot \in {"day", "night", "friday"} => Stage = "sale"
        /\ slot = "closed" => Stage = "closed"
        /\ slot = "pick" /\ (draws = 0 \/ pc = "pay") => Stage = "closed"
        /\ slot = "pick" /\ draws # 0 /\ pc # "pay" => Stage = "over"
        /\ slot \in {"gap", "sweep"} => Stage = "over"
    BY DEF Stage, Drawn
  <1>2. Cardinality(Active) = tickets - lastWinningTopBlock
    BY ActiveTickets DEF GameTyped, WellTyped, SmoothInv
  <1>3. pc = "pay" => unconfirmed = 0 /\ draw.to \in Nat /\ draw.from \in Nat
    BY DEF GameTyped, WellTyped, WeekInv, SmoothInv
  <1>4. unconfirmed = 0 => Fund = pot
    BY Prices DEF Fund, GameTyped, WellTyped
  <1> QED BY <1>1, <1>2, <1>3, <1>4 DEF Waiting, GameView

LEMMA SeenNext == GameTyped' /\ smooth' => GameView'
  BY Seen, PTL

(* The inputs of the mapping. *)
LEMMA SeenSame ==
  ASSUME UNCHANGED <<slot, unconfirmed, tickets, lastWinningTopBlock, pot, draws, pc, draw>>
  PROVE  UNCHANGED <<Stage, Waiting, Fund>>
  BY DEF Stage, Drawn, Waiting, Fund, Active

LEMMA StepRefines ==
  ASSUME Prize < Price, GameTyped, GameTyped', [Next]_vars
  PROVE  [Game!Next]_(Game!game)
  <1>1. CASE ~smooth'
    BY <1>1 DEF Game!Next, Game!GoesWrong
  <1>2. CASE UNCHANGED vars
    <2>1. UNCHANGED <<Stage, Waiting, Fund, smooth>>
      BY <1>2, SeenSame DEF vars, clockVars, walletVars, lotteryVars, historyVars
    <2> QED BY <2>1 DEF Game!game
  <1>3. ASSUME smooth', Next
        PROVE  [Game!Next]_(Game!game)
    <2>1. smooth
      BY <1>3, SmoothChanges, Zenon DEF GameTyped, FullyTyped
    <2>2. smooth' = smooth
      BY <1>3, <2>1, Zenon DEF GameTyped, FullyTyped
    <2>3. GameView /\ GameView'
      BY <1>3, <2>1, Seen, SeenNext
    <2>4. /\ slot \in Slots /\ unconfirmed \in Nat /\ tickets \in Nat /\ pot \in Nat
          /\ lastWinningTopBlock \in Nat /\ draws \in Nat
          /\ draw.from \in Nat /\ draw.to \in Nat
          /\ unconfirmed' \in Nat /\ tickets' \in Nat /\ lastWinningTopBlock' \in Nat
      BY DEF GameTyped, WellTyped
    <2>5. /\ slot \in {"pick", "gap", "sweep"} => unconfirmed = 0
          /\ draws # 0 => slot \in {"pick", "gap", "sweep"}
          /\ lastWinningTopBlock <= tickets
          /\ up /\ ~suspended
          /\ pc # "head" => slot = "pick" /\ AllDrawn /\ draws # 0
          /\ slot = "pick" /\ looked => AllDrawn
          /\ slot \in {"gap", "sweep"} => AllDrawn
          /\ slot = "sweep" /\ looked => pot = 0
          /\ pc = "pay" => draw.from < draw.to /\ pot = Stake
          /\ slot = "pick" /\ draws # 0 => tickets <= lastWinningTopBlock
      BY <2>1 DEF GameTyped, WeekInv, SmoothInv, GameInv
    <2>6. ~suspended'
      BY <1>3 DEF GameTyped, GameInv
    <2> SUFFICES UNCHANGED <<Stage, Waiting, Fund>> \/ Game!Play
      BY <1>3, <2>1, <2>2 DEF Game!Next, Game!game
    <2> USE <2>1, <2>4, <2>5 DEF clockVars, walletVars, lotteryVars, historyVars
    <2>7. CASE Tick
      <3>1. /\ slot' = NextSlot[slot] /\ looked /\ pc = "head" /\ pc' = "head"
            /\ slot = "closed" => unconfirmed = 0
            /\ draws' = IF slot = "sweep" THEN 0 ELSE draws
            /\ UNCHANGED <<unconfirmed, tickets, lastWinningTopBlock, pot>>
        BY <2>7 DEF Tick
      <3>2. UNCHANGED <<Waiting, Fund>>
        BY <3>1, <2>3 DEF GameView, Fund
      <3>3. CASE slot = "friday"
        BY <3>1, <3>2, <3>3, <2>3 DEF GameView, NextSlot, Game!Play, Game!Close
      <3>4. CASE slot \in {"closed", "day", "night", "gap"}
        BY <3>1, <3>2, <3>4, <2>3 DEF GameView, NextSlot
      <3>5. CASE slot = "pick"
        <4>1. slot' = "gap" /\ Stage' = "over"
          BY <3>1, <3>5, <2>3 DEF GameView, NextSlot
        <4>2. Waiting = 0
          BY <3>1, <3>5, <2>3 DEF GameView, AllDrawn
        <4>3. Stage \in {"closed", "over"}
          BY <3>5, <2>3 DEF GameView
        <4> QED BY <3>2, <4>1, <4>2, <4>3 DEF Game!Play, Game!NobodyPlayed
      <3>6. CASE slot = "sweep"
        BY <3>1, <3>2, <3>6, <2>3 DEF GameView, NextSlot, Game!Play, Game!NewWeek
      <3> QED BY <3>3, <3>4, <3>5, <3>6 DEF Slots
    <2>8. CASE BuyTicket
      <3>1. /\ slot \in {"friday", "day", "night"} /\ slot' = slot
            /\ unconfirmed' = unconfirmed + 1
            /\ UNCHANGED <<tickets, lastWinningTopBlock, pot, pc>>
        BY <2>8 DEF BuyTicket, Open
      <3>2. Stage = "sale" /\ Stage' = "sale" /\ pc # "pay" /\ pc' # "pay"
        BY <3>1, <2>3 DEF GameView
      <3>3. Waiting' = Waiting + 1
        BY <3>1, <3>2, <2>3 DEF GameView
      <3>4. Fund' = Fund + Price
        <4>1. \A k \in Nat : Price * (k + 1) = Price * k + Price /\ Price * k \in Nat
          BY Prices
        <4> QED BY <3>1, <4>1, Prices DEF Fund
      <3> QED BY <3>2, <3>3, <3>4 DEF Game!Play, Game!Buy
    <2>9. CASE Confirm
      <3>1. /\ unconfirmed > 0 /\ unconfirmed' = unconfirmed - 1
            /\ tickets' = tickets + 1 /\ pot' = pot + Price
            /\ UNCHANGED <<slot, lastWinningTopBlock, pc, draws>>
        BY <2>9 DEF Confirm
      <3>2. slot \notin {"pick", "gap", "sweep"} /\ pc # "pay" /\ pc' # "pay"
        BY <3>1
      <3>3. UNCHANGED Stage
        BY <3>1, <3>2, <2>3 DEF GameView, Slots
      <3>4. UNCHANGED Waiting
        BY <3>1, <3>2, <2>3 DEF GameView
      <3>5. UNCHANGED Fund
        <4>1. \A k \in Nat : k > 0 => Price * (k - 1) = Price * k - Price /\ Price * k \in Nat
          BY Prices
        <4> QED BY <3>1, <4>1, Prices DEF Fund
      <3> QED BY <3>3, <3>4, <3>5
    <2>10. CASE SuspendedPass \/ QueryThrows \/ NoActiveTickets \/ PayThrows \/ ToggleLotterySuspend
      <3>1. SuspendedPass \/ NoActiveTickets \/ QueryThrows \/ ToggleLotterySuspend
        BY <2>10, <2>6 DEF PayThrows, Suspends
      <3>2. SuspendedPass \/ NoActiveTickets
        BY <3>1, <1>3 DEF QueryThrows, ToggleLotterySuspend
      <3>3. UNCHANGED <<slot, unconfirmed, tickets, lastWinningTopBlock, pot, draws, pc, draw>>
        BY <3>2 DEF SuspendedPass, NoActiveTickets, PassEnds, Pass, AtHead
      <3> QED BY <3>3, SeenSame
    <2>11. CASE DrawWinner
      <3>1. /\ pc = "head" /\ pc' = "pay" /\ slot = "pick" /\ slot' = "pick"
            /\ lastWinningTopBlock < tickets
            /\ draw'.from = lastWinningTopBlock /\ draw'.to = tickets
            /\ UNCHANGED <<unconfirmed, pot>>
        BY <2>11 DEF DrawWinner, Pass, AtHead, DrawDue, Active
      <3>2. draws = 0
        BY <3>1
      <3>3. UNCHANGED Stage
        BY <3>1, <3>2, <2>3 DEF GameView
      <3>4. UNCHANGED Waiting
        BY <3>1, <2>3 DEF GameView
      <3>5. UNCHANGED Fund
        BY <3>1 DEF Fund
      <3> QED BY <3>3, <3>4, <3>5
    <2>12. CASE PayWinner
      <3>1. /\ pc = "pay" /\ pc' = "note" /\ slot = "pick" /\ pot' = pot - Reward
            /\ UNCHANGED <<slot, unconfirmed, tickets, lastWinningTopBlock, draws>>
        BY <2>12 DEF PayWinner
      <3>2. Stage = "closed" /\ Stage' = "over" /\ Waiting' = 0
        BY <3>1, <2>3 DEF GameView, AllDrawn
      <3>3. Waiting > 0 /\ Waiting = draw.to - draw.from
        BY <3>1, <2>3 DEF GameView
      <3>4. Fund = Price * Waiting /\ Reward = Prize * Waiting /\ Fund = pot
        BY <3>1, <3>3, <2>3 DEF GameView, Stake, Reward
      <3>5. Fund' = pot'
        BY <3>1, <2>3 DEF GameView
      <3> QED BY <3>1, <3>2, <3>3, <3>4, <3>5 DEF Game!Play, Game!Draw
    <2>13. CASE WinnerPaid \/ FinishDraw
      <3>1. /\ pc # "head" /\ pc # "pay" /\ pc' # "pay"
            /\ UNCHANGED <<slot, unconfirmed, tickets, lastWinningTopBlock, pot, draws>>
        BY <2>13 DEF WinnerPaid, FinishDraw, PassEnds
      <3>2. UNCHANGED Stage
        BY <3>1, <2>3 DEF GameView
      <3>3. UNCHANGED Waiting
        BY <3>1, <2>3 DEF GameView
      <3>4. UNCHANGED Fund
        BY <3>1 DEF Fund
      <3> QED BY <3>2, <3>3, <3>4
    <2>14. CASE Sweep
      <3>1. /\ slot = "sweep" /\ slot' = "sweep" /\ pc = "head" /\ pc' = "head"
            /\ pot' \in {pot, 0} /\ unconfirmed = 0
            /\ UNCHANGED <<unconfirmed, tickets, lastWinningTopBlock>>
        BY <2>14 DEF Sweep, Pass, AtHead, SweepDue, PassEnds
      <3>2. Stage = "over" /\ Stage' = "over" /\ UNCHANGED Waiting
        BY <3>1, <2>3 DEF GameView
      <3>3. Fund = pot /\ Fund' = pot'
        BY <3>1, <2>3 DEF GameView
      <3> QED BY <3>1, <3>2, <3>3 DEF Game!Play, Game!Donate
    <2>15. CASE SweepThrows
      <3>1. pot = 0
        BY <1>3, <2>15, Zenon DEF SweepThrows
      <3>2. UNCHANGED <<slot, unconfirmed, tickets, lastWinningTopBlock, pot, draws, pc, draw>>
        BY <3>1, <2>15 DEF SweepThrows, PassEnds, Pass, AtHead
      <3> QED BY <3>2, SeenSame
    <2>16. CASE OtherPass
      <3>1. UNCHANGED <<slot, unconfirmed, tickets, lastWinningTopBlock, pot, draws, pc, draw>>
        BY <2>16 DEF OtherPass, PassEnds, Pass, AtHead
      <3> QED BY <3>1, SeenSame
    <2>17. ~(DrawBlank \/ NoteThrows \/ Shutdown \/ Crash \/ Load)
      BY <1>3 DEF DrawBlank, NoteThrows, Shutdown, Crash, Stops, Load
    <2> QED BY <1>3, <2>7, <2>8, <2>9, <2>10, <2>11, <2>12, <2>13, <2>14, <2>15, <2>16, <2>17
            DEF Next, Run
  <1> QED BY <1>1, <1>2, <1>3

(* Where the donation is more than nothing, the players of run, BuyTicket and the wallet play   *)
(* the game they were told, for all prices and numbers of tickets, until something goes wrong:  *)
(* every ticket of a week is in that week's one draw, which pays for all of them, and only then *)
(* the rest goes to the faucet, all of it, before tickets are sold again.                       *)
THEOREM PlaysTheGame == ASSUME Prize < Price PROVE Spec => GameSpec
  <1>1. Init => LotteryInv /\ GameInv
    BY TypedInit, FullyTypedInit, WeekInit, PaidInit, SmoothInit, GameInit DEF LotteryInv
  <1>2. LotteryInv /\ GameInv /\ [Next]_vars => (LotteryInv /\ GameInv)'
    BY TypedStep, FullyTypedStep, WeekStep, PaidStep, SmoothStep, GameStep DEF LotteryInv
  <1>3. LotteryInv /\ GameInv /\ (LotteryInv /\ GameInv)' /\ [Next]_vars => [Game!Next]_(Game!game)
    BY StepRefines DEF LotteryInv, GameTyped
  <1>4. Init => Game!Init
    <2> SUFFICES ASSUME Init PROVE Game!Init
      OBVIOUS
    <2>1. GameTyped /\ smooth
      BY <1>1 DEF Init, GameTyped, LotteryInv
    <2>2. GameView
      BY <2>1, Seen
    <2>3. Stage = "sale" /\ Waiting = 0 /\ Fund = 0
      BY <2>2 DEF Init, GameView
    <2>4. smooth = TRUE
      BY DEF Init
    <2> QED BY <2>3, <2>4 DEF Game!Init
  <1> QED BY <1>1, <1>2, <1>3, <1>4, PTL DEF Spec, GameSpec, Game!Spec

=============================================================================
