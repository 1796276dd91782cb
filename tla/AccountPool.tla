---------------------------- MODULE AccountPool ----------------------------
(***************************************************************************)
(* What RPCManager promises those who call it, without ports, processes and *)
(* files (src/src/RPCManager.cpp): one caller at a time asks for the        *)
(* account of a user and is refused, or handed an account behind which      *)
(* there is that user's wallet, until he returns.                           *)
(*                                                                         *)
(* WalletPoolRefinement shows that WalletPool implements this module.       *)
(***************************************************************************)
CONSTANTS
    Users,      \* those who own an account
    Nobody,     \* not a user
    Full(_)     \* there is no room for another one among these

VARIABLES
    members,    \* the users whose account is cached
    client,     \* the call in progress: for whom, and has the account been handed out
    wallet,     \* the wallet behind the account that is handed out; Nobody: it died
    stored,     \* the members that a restart brings back
    running     \* is the pool there

vars == <<members, client, wallet, stored, running>>

NoClient == [who |-> Nobody, at |-> "none"]
Busy(u) == [who |-> u, at |-> "busy"]
Granted(u) == [who |-> u, at |-> "granted"]

Init ==
    /\ members = {} /\ client = NoClient
    /\ wallet = Nobody /\ stored = {} /\ running = TRUE

\* A member is looked up; anybody else becomes one, and when the pool is full, only
\* then, another one may leave.
Ask(u) ==
    /\ running /\ client = NoClient
    /\ client' = Busy(u)
    /\ \/ u \in members /\ UNCHANGED members
       \/ \E gone \in {{}} \cup {{v} : v \in members} :
            /\ gone # {} => Full(members)
            /\ members' = (members \ gone) \cup {u}
    /\ UNCHANGED <<wallet, stored, running>>

\* No account could be made, but its place may stay taken.
Refuse(u) ==
    /\ running /\ client = NoClient
    /\ members' = members \cup {u}
    /\ UNCHANGED <<client, wallet, stored, running>>

\* A call ends without an account, and maybe without its place in the pool.
Fail ==
    /\ client.at = "busy"
    /\ members' \in {members, members \ {client.who}}
    /\ client' = NoClient
    /\ UNCHANGED <<wallet, stored, running>>

\* The account is handed out: its user is a member, and it is his wallet.
Grant ==
    /\ client.at = "busy" /\ client.who \in members
    /\ client' = Granted(client.who)
    /\ wallet' = client.who
    /\ UNCHANGED <<members, stored, running>>

\* The wallet's process dies; it is not replaced while the account is out.
WalletDies ==
    /\ client.at = "granted"
    /\ wallet' = Nobody
    /\ UNCHANGED <<members, client, stored, running>>

Return ==
    /\ client.at = "granted"
    /\ client' = NoClient /\ wallet' = Nobody
    /\ UNCHANGED <<members, stored, running>>

\* Between two calls a member's wallet is restarted and lost.
Drop(u) ==
    /\ running /\ client = NoClient
    /\ members' = members \ {u}
    /\ UNCHANGED <<client, wallet, stored, running>>

Save ==
    /\ running /\ client = NoClient
    /\ stored' = members
    /\ UNCHANGED <<members, client, wallet, running>>

\* The end, at any time; only an orderly one, between two calls, saves first.
Stop ==
    /\ running /\ running' = FALSE
    /\ \/ UNCHANGED stored
       \/ client = NoClient /\ stored' = members
    /\ members' = {} /\ client' = NoClient /\ wallet' = Nobody

Restore ==
    /\ ~running /\ running' = TRUE
    /\ members' = stored
    /\ UNCHANGED <<client, wallet, stored>>

Next ==
    \/ \E u \in Users : Ask(u) \/ Refuse(u) \/ Drop(u)
    \/ Fail \/ Grant \/ WalletDies \/ Return
    \/ Save \/ Stop \/ Restore

Spec == Init /\ [][Next]_vars

=============================================================================
