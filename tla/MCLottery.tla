----------------------------- MODULE MCLottery ------------------------------
(* Values of the constants of Lottery for model checking.                    *)
EXTENDS LotteryRefinement

AllFaults == FaultKinds
NoFaults == {}

=============================================================================
