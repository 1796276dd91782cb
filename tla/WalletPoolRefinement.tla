------------------------ MODULE WalletPoolRefinement ------------------------
(***************************************************************************)
(* WalletPool implements AccountPool: whatever the processes behind the     *)
(* pool do, its callers see no more than what AccountPool allows.           *)
(***************************************************************************)
EXTENDS WalletPool

\* Only getAccount has a caller who gets something; a restart and the reload at the
\* start are the pool's own business.
Client ==
    IF call.op # "getAccount" THEN [who |-> Nobody, at |-> "none"]
    ELSE [who |-> call.id, at |-> IF call.at = "granted" THEN "granted" ELSE "busy"]

\* The wallet behind the account that has been handed out.
Behind ==
    IF call.at = "granted" /\ Served(MyPort) THEN server[MyPort].wallet ELSE Nobody

NoRoomIn(S) == ~(Cardinality(S) < Limit)

Pool == INSTANCE AccountPool
    WITH members <- RPCMap, client <- Client, wallet <- Behind,
         stored <- saved, running <- up, Full <- NoRoomIn

\* Seen through this mapping, every behaviour of WalletPool is one of AccountPool: an
\* account goes out only with its user's wallet behind it, that wallet and that place in
\* the pool stay while it is out, and a member leaves only for another user when the pool
\* is full, in a failed call for himself, in a restart, or when the bot ends.
PoolSpec == Pool!Spec

=============================================================================
