----------------------------- MODULE MCDispatch -----------------------------
(* Values of the constants of Dispatch for model checking.                   *)
EXTENDS Dispatch, TLC

NoMention == {<<>>}
OneMention == {<<>>} \cup {<<u>> : u \in Users}

\* Nobody is mentioned twice in a message.
TwoMentions == OneMention \cup {m \in Users \X Users : m[1] # m[2]}

AllFaults == FaultKinds

\* Nothing but the command at hand touches the accounts.
CommandFaults == FaultKinds \ {"watchdog"}
NoFaults == {}

BotApart == Permutations(Users \ {Bot})
Symmetry == Permutations(Users) \cup Permutations(Workers)

=============================================================================
