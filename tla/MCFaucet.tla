------------------------------ MODULE MCFaucet ------------------------------
(* Values of the constants of Faucet for model checking.                     *)
EXTENDS Faucet, TLC

\* User 2 is a member of both servers, and either may name him at any READY; user 1, who is
\* young, is named by neither and met only when he gives a command.
TwoServers == (1 :> {2}) @@ (2 :> {2})
OneServer == (1 :> {1})

AllFaults == FaultKinds
NoFaults == {}

ThreadSymmetry == Permutations(Threads)

=============================================================================
