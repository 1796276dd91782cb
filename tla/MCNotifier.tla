----------------------------- MODULE MCNotifier -----------------------------
(* Values of the constants of Notifier for model checking.                   *)
EXTENDS Notifier

\* Two payments, in one block or in two, to a user with others before and behind him.
TwoPayments == <<2, 2>>

\* Every failure by itself, and a crash of a wallet with each of the others.
CrashAndOne == {{"crash", kind} : kind \in FaultKinds}

=============================================================================
