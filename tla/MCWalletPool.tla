---------------------------- MODULE MCWalletPool ----------------------------
(* Instances of WalletPool for TLC: process ids, and the failures of each run. *)
EXTENDS WalletPoolRefinement, TLC

Symmetry == Permutations(Users)

\* Wallet processes fail in every way; the bot itself runs on.
ProcessFaults == {"slow", "rpc", "address", "crash"}

\* The bot is restarted or dies as well, and launching a process may throw.
RestartFaults == {"launch", "rpc", "crash", "bot", "restart"}

=============================================================================
