------------------------------ MODULE Notifier ------------------------------
(***************************************************************************)
(* The pool's background thread: it tells users of money they received      *)
(* (src/src/RPCManager.cpp: processNewTransactions, SaveWallets, watchDog). *)
(*                                                                         *)
(* Every entry of the pool keeps the list of transfers its wallet had when  *)
(* it was last asked.  A pass asks every wallet again, in the order of the  *)
(* user ids, announces what is new, and has the wallet stored.  A wallet    *)
(* scans the blocks on its own; opened again, it is where it was stored.    *)
(*                                                                         *)
(* A pass, the watchdog, getAccount and restartWallet hold the pool's mutex *)
(* to their end, so a call that sets an entry up is one step here; its      *)
(* parts are in WalletPool.  Blocks, refreshes of wallets and crashes of    *)
(* their processes come between any two steps.  The bot's own account,      *)
(* which a pass leaves out, is not in Users.                                *)
(***************************************************************************)
EXTENDS Naturals, FiniteSets, FiniteSetsExt

CONSTANTS
    Users,      \* Discord ids: numbers, for the map is sorted by them
    Nobody,     \* no wallet is open
    Limit,      \* max_rpc_limit
    To,         \* bound: the payments that are made, and to whom
    MaxHeight,  \* bound: blocks
    Scenarios   \* bound: the sets of failures that may come together, each kind once

FaultKinds == {"setup",    \* a request that sets an entry up fails
               "rpc",      \* a wallet refuses a request of the pass
               "discord",  \* a message cannot be sent
               "store",    \* a wallet is not stored
               "crash",    \* a wallet process dies
               "command",  \* a user restarts his wallet
               "reboot",   \* the bot is started again, after a shutdown or a crash
               "bot",      \* the same, after a crash in the middle of a pass
               "reorg"}    \* the newest block is replaced by another one

Payments == DOMAIN To

ASSUME UsersAssumption == Users \subseteq Nat /\ Nobody \notin Users
ASSUME LimitAssumption == Limit \in Nat \ {0}
ASSUME PaymentsAssumption == IsFiniteSet(Payments) /\ \A p \in Payments : To[p] \in Users
ASSUME BoundsAssumption == MaxHeight \in Nat
ASSUME FaultAssumption == \A S \in Scenarios : S \subseteq FaultKinds

VARIABLES
    height,    \* the newest block
    at,        \* per payment: its block, or 0
    entry,     \* RPCMap
    stored,    \* per wallet file: the transfers the wallet had found when it was stored
    pass,      \* processNewTransactions: how far it is
    told,      \* history: how often each user was told of each payment (bound: 2 is often)
    absorbed,  \* history: payments that a set-up found in a wallet, not a pass
    amiss      \* history: the failures there were

chainVars == <<height, at>>
historyVars == <<told, absorbed>>
vars == <<chainVars, entry, stored, pass, historyVars, amiss>>

-----------------------------------------------------------------------------
(* Wallets and lists of transfers.                                           *)

\* Variant with a mistake: payments that are in no block yet are listed too.
WithPool(w) == {<<p, at[p]>> : p \in {q \in Payments : To[q] = w}}

\* The transfers of a wallet: its payments, with their blocks.
OnChain(w) == {<<p, at[p]>> : p \in {q \in Payments : To[q] = w /\ at[q] # 0}}

AtHeight(list, h) == {x \in list : x[2] = h}

\* Variant with a mistake: the lists are swapped.
Vanished(new, old) == {old \ new}

\* std::set_difference of two multisets whose order knows the block only: of the
\* transfers of one block so many as there are more of, whichever these are.
Differences(new, old) ==
    {d \in SUBSET new :
       \A h \in 1 .. MaxHeight :
          LET more == Cardinality(AtHeight(new, h)) - Cardinality(AtHeight(old, h))
          IN  Cardinality(AtHeight(d, h)) = IF more > 0 THEN more ELSE 0}

NoEntry == [in |-> FALSE, alive |-> FALSE, wallet |-> Nobody, seen |-> {}, known |-> {}]
Launched == [NoEntry EXCEPT !.in = TRUE, !.alive = TRUE]
Entries == {u \in Users : entry[u].in}
Answers(u) == entry[u].alive /\ entry[u].wallet # Nobody

\* Variant with a mistake: the list is not asked for again.
OldList(found, before) == before.known

\* The list an entry gets when its set-up succeeds.
FreshList(found, before) == found

\* What a set-up makes of an entry whose process has answered.
Complete(u, before) ==
    {[Launched EXCEPT !.wallet = u, !.seen = found, !.known = FreshList(found, before)] :
       found \in {stored[u], OnChain(u)}}

\* openWallet fails, getTransfers fails, or waitForRPCToRespond gave up before.
Incomplete(u, before) ==
    {before, NoEntry}
    \cup {[before EXCEPT !.wallet = u, !.seen = found] : found \in {stored[u], OnChain(u)}}

\* !history: what the entry knows, not what the wallet has.
Shown(u) == IF u \in Entries THEN entry[u].known ELSE {}

-----------------------------------------------------------------------------
(* Failures.                                                                 *)

Strikes(kind) ==
    /\ kind \notin amiss /\ amiss' = amiss \cup {kind}
    /\ \E S \in Scenarios : amiss' \subseteq S

IdlePass == [at |-> "idle", todo |-> {}, who |-> 0, diff |-> {}, unsent |-> {}]

Init ==
    /\ height = 0 /\ at = [p \in Payments |-> 0]
    /\ entry = [u \in Users |-> NoEntry]
    /\ stored = [u \in Users |-> {}]
    /\ pass = IdlePass
    /\ told = [u \in Users |-> [p \in Payments |-> 0]]
    /\ absorbed = {} /\ amiss = {}

-----------------------------------------------------------------------------
(* The mutex is free: getAccount, restartWallet, the watchdog, SaveWallets.    *)

Free == pass.at = "idle"

\* openWallet and getTransfers of one entry; the entries in others go.
SetUp(u, before, others) ==
    /\ \E e \in Complete(u, before) \cup Incomplete(u, before) :
         /\ entry' = [v \in Users |-> IF v = u THEN e
                                      ELSE IF v \in others THEN NoEntry ELSE entry[v]]
         /\ \/ /\ e \in Complete(u, before) /\ UNCHANGED amiss
               /\ absorbed' = absorbed \cup {x[1] : x \in e.known}
            \/ e \in Incomplete(u, before) /\ Strikes("setup") /\ UNCHANGED absorbed
    /\ UNCHANGED <<chainVars, stored, pass, told>>

\* getAccount with room in the map; after a start, also ReloadSavedRPCs.
SpinUp(u) ==
    /\ Free /\ u \notin Entries /\ Cardinality(Entries) < Limit
    /\ SetUp(u, Launched, {})

\* The map is full: the new entry is a copy, with the process, the wallet that is open in
\* it and the list.  Which entry is the oldest is left open.
TakeOver(u, old) ==
    /\ Free /\ u \notin Entries /\ Cardinality(Entries) >= Limit
    /\ old \in Entries /\ entry[old].alive
    /\ SetUp(u, entry[old], {old})

\* The process taken over is dead: no answer in 30 seconds.
TakeOverDead(u, old) ==
    /\ Free /\ u \notin Entries /\ Cardinality(Entries) >= Limit
    /\ old \in Entries /\ ~entry[old].alive
    /\ entry' = [entry EXCEPT ![old] = NoEntry]
    /\ UNCHANGED <<chainVars, stored, pass, historyVars, amiss>>

\* getAccount finds an entry with another user's wallet.
CheckAborts(u) ==
    /\ Free /\ u \in Entries /\ Answers(u) /\ entry[u].wallet # u
    /\ entry' = [entry EXCEPT ![u] = NoEntry]
    /\ UNCHANGED <<chainVars, stored, pass, historyVars, amiss>>

Restarted(u) == [entry[u] EXCEPT !.alive = TRUE, !.wallet = Nobody, !.seen = {}]

\* A process that is dead may be restarted.  Nothing says that it is: nobody waits for the
\* bot's children, so the system may go on counting a dead one among those that run, and
\* then it is one that answers with errors.
WatchDog(u) == Free /\ u \in Entries /\ ~entry[u].alive /\ SetUp(u, Restarted(u), {})

\* !restartwallet, at most once; and the watchdog, about a process that runs and answers
\* with errors: its count of these is kept in a copy that nobody initialised, so after any
\* number of them, or never.  (One that fails leaves what WatchDog leaves.)
RestartWallet(u) ==
    /\ Free /\ u \in Entries /\ entry[u].alive
    /\ \/ entry[u].wallet = Nobody /\ UNCHANGED amiss
       \/ Strikes("command")
    /\ \E e \in Complete(u, Restarted(u)) :
         /\ entry' = [entry EXCEPT ![u] = e]
         /\ absorbed' = absorbed \cup {x[1] : x \in e.known}
    /\ UNCHANGED <<chainVars, stored, pass, told>>

Stored(S) ==
    [w \in Users |-> LET by == {u \in S : entry[u].wallet = w}
                     IN  IF by = {} THEN stored[w] ELSE UNION {entry[u].seen : u \in by}]

Answering == {u \in Entries : Answers(u)}

\* SaveWallets: a wallet that cannot be stored is skipped.
SaveWallets ==
    /\ Free
    /\ \/ stored' = Stored(Answering) /\ UNCHANGED amiss
       \/ \E u \in Answering : stored' = Stored(Answering \ {u}) /\ Strikes("store")
    /\ UNCHANGED <<chainVars, entry, pass, historyVars>>

\* The processes of the wallets go with the bot, and RPCMap is loaded without lists.
\* Only its destructor, which waits for the mutex, stores the wallets.
Reboot ==
    /\ \/ Free /\ Strikes("reboot") /\ stored' \in {stored, Stored(Answering)}
       \/ ~Free /\ Strikes("bot") /\ UNCHANGED stored
    /\ entry' = [u \in Users |-> NoEntry]
    /\ pass' = IdlePass
    /\ UNCHANGED <<chainVars, historyVars>>

-----------------------------------------------------------------------------
(* processNewTransactions.                                                   *)

GoOn(p) == IF p.todo = {} THEN IdlePass ELSE [p EXCEPT !.at = "visit"]
Visited == Min(pass.todo)

Begin ==
    /\ Free /\ Entries # {}
    /\ pass' = [IdlePass EXCEPT !.at = "visit", !.todo = Entries]
    /\ UNCHANGED <<chainVars, entry, stored, historyVars, amiss>>

\* The list is asked for and kept before anything is announced.
Visit ==
    /\ pass.at = "visit" /\ Answers(Visited)
    /\ LET new == entry[Visited].seen
       IN  /\ \E d \in Differences(new, entry[Visited].known) :
                LET diff == pass.diff \cup d
                    p == [pass EXCEPT !.todo = @ \ {Visited}, !.who = Visited,
                                      !.diff = diff, !.unsent = diff]
                IN  pass' = IF diff = {} THEN GoOn(p) ELSE [p EXCEPT !.at = "tell"]
           /\ entry' = [entry EXCEPT ![Visited].known = new]
    /\ UNCHANGED <<chainVars, stored, historyVars, amiss>>

\* Nobody answers, or an error does: the exception ends the pass for everybody behind.
VisitThrows ==
    /\ pass.at = "visit"
    /\ \/ ~Answers(Visited) /\ UNCHANGED amiss
       \/ Answers(Visited) /\ Strikes("rpc")
    /\ pass' = IdlePass
    /\ UNCHANGED <<chainVars, entry, stored, historyVars>>

Tell ==
    /\ pass.at = "tell"
    /\ \E x \in pass.unsent :
         /\ told' = [told EXCEPT ![pass.who][x[1]] = IF @ < 2 THEN @ + 1 ELSE @]
         /\ pass' = [pass EXCEPT !.unsent = @ \ {x},
                                 !.at = IF pass.unsent = {x} THEN "store" ELSE "tell"]
    /\ UNCHANGED <<chainVars, entry, stored, absorbed, amiss>>

\* Variant with a mistake: what was to be announced stays in the vector.
NotCleared(diff) == diff

\* diff.clear().
Cleared(diff) == {}

\* Discord's error code ends the messages, but not the work on the entry; an exception of
\* Poco ends that too.
TellThrows ==
    /\ pass.at = "tell" /\ Strikes("discord")
    /\ \/ pass' = [pass EXCEPT !.at = "store", !.unsent = {}]
       \/ pass' = GoOn([pass EXCEPT !.unsent = {}, !.diff = Cleared(@)])
    /\ UNCHANGED <<chainVars, entry, stored, historyVars>>

\* Variant with a mistake: the wallet is not stored.
NotStored(u) == stored

StoredOne(u) == Stored({u})

Store ==
    /\ pass.at = "store" /\ Answers(pass.who)
    /\ stored' = StoredOne(pass.who)
    /\ pass' = GoOn([pass EXCEPT !.diff = Cleared(@)])
    /\ UNCHANGED <<chainVars, entry, historyVars, amiss>>

\* No answer, or an error: neither is an exception of Poco, so the pass ends.
StoreThrows ==
    /\ pass.at = "store"
    /\ \/ ~Answers(pass.who) /\ amiss' = amiss \cup {"store"}
       \/ Answers(pass.who) /\ Strikes("store")
    /\ pass' = IdlePass
    /\ UNCHANGED <<chainVars, entry, stored, historyVars>>

Pass == Visit \/ VisitThrows \/ Tell \/ TellThrows \/ Store \/ StoreThrows

-----------------------------------------------------------------------------
(* The chain and the wallet processes.                                       *)

Mine ==
    /\ height < MaxHeight
    /\ height' = height + 1
    /\ \E S \in SUBSET {p \in Payments : at[p] = 0} :
         at' = [p \in Payments |-> IF p \in S THEN height' ELSE at[p]]
    /\ UNCHANGED <<entry, stored, pass, historyVars, amiss>>

Reorg ==
    /\ height > 0 /\ Strikes("reorg")
    /\ \E S \in SUBSET {p \in Payments : at[p] \in {0, height}} :
         at' = [p \in Payments |-> IF p \in S THEN height ELSE IF at[p] = height THEN 0 ELSE at[p]]
    /\ UNCHANGED <<height, entry, stored, pass, historyVars>>

Refresh(u) ==
    /\ Answers(u) /\ entry[u].seen # OnChain(entry[u].wallet)
    /\ entry' = [entry EXCEPT ![u].seen = OnChain(entry[u].wallet)]
    /\ UNCHANGED <<chainVars, stored, pass, historyVars, amiss>>

Crash(u) ==
    /\ entry[u].alive /\ Strikes("crash")
    /\ entry' = [entry EXCEPT ![u].alive = FALSE, ![u].wallet = Nobody, ![u].seen = {}]
    /\ UNCHANGED <<chainVars, stored, pass, historyVars>>

Next ==
    \/ \E u \in Users :
         \/ SpinUp(u) \/ CheckAborts(u) \/ WatchDog(u) \/ RestartWallet(u)
         \/ Refresh(u) \/ Crash(u)
         \/ \E old \in Users : TakeOver(u, old) \/ TakeOverDead(u, old)
    \/ SaveWallets \/ Reboot
    \/ Begin \/ Pass
    \/ Mine \/ Reorg

Spec == Init /\ [][Next]_vars

\* The thread runs: its pass goes on, and its timer runs out again and again.  Wallets go on
\* scanning.  Nothing is assumed of the watchdog.
FairSpec ==
    /\ Spec
    /\ WF_vars(Begin) /\ WF_vars(Pass)
    /\ \A u \in Users : WF_vars(Refresh(u))

-----------------------------------------------------------------------------
(* Properties.                                                               *)

\* Every variable has its type.
TypeOK ==
    LET Items == Payments \X (1 .. MaxHeight)
    IN  /\ height \in 0 .. MaxHeight /\ at \in [Payments -> 0 .. MaxHeight]
        /\ \A u \in Users :
             /\ entry[u].in \in BOOLEAN /\ entry[u].alive \in BOOLEAN
             /\ entry[u].wallet \in Users \cup {Nobody}
             /\ entry[u].seen \subseteq Items /\ entry[u].known \subseteq Items
             /\ stored[u] \subseteq Items
        /\ pass.at \in {"idle", "visit", "tell", "store"} /\ pass.todo \subseteq Users
        /\ pass.who \in Users \cup {0}
        /\ pass.diff \subseteq Items /\ pass.unsent \subseteq Items
        /\ told \in [Users -> [Payments -> 0 .. 2]]
        /\ absorbed \subseteq Payments /\ amiss \subseteq FaultKinds

\* Nobody is told twice of one payment: a wallet is stored as soon as its user has been
\* told, so neither a crash, nor a restart of wallet or bot, nor losing the entry and
\* getting another one makes it new again.  Not so when that store fails, the bot dies
\* before it, the messages break off, a set-up leaves no list, or a block is replaced.
ToldOnce ==
    amiss \cap {"store", "bot", "discord", "setup", "reorg"} = {} =>
        \A u \in Users, p \in Payments : told[u][p] <= 1

\* "You've recieved money!": unless a set-up failed half-way, a user is told of payments to
\* himself only, whoever had the process before him, and whatever of an earlier
\* user's messages could not be sent.
ToldOfOwn ==
    "setup" \notin amiss =>
        \A u \in Users, p \in Payments : told[u][p] > 0 => To[p] = u

\* What !history shows to a user who passes the ownership check are his own transfers,
\* unless a set-up failed half-way.
HistoryIsOwn ==
    \A u \in Entries :
        entry[u].wallet = u /\ "setup" \notin amiss =>
            \A x \in Shown(u) : To[x[1]] = u

\* Whom a pass does not get to: a wallet that does not answer ends it, and the users with
\* greater ids wait until that wallet is restarted, which nothing guarantees.
CutOff(u) == \E v \in Entries : v <= u /\ ~Answers(v)

\* A payment that reaches the wallet of a user with an entry is announced in the end, as
\* long as the wallets up to his in the pass's order answer: although others crash behind
\* him and an error ends a pass early, whatever entries come and go before him.  Not so if
\* a set-up reads it first, the entry goes, or one of three failures keeps it from him.
ToldInTheEnd ==
    \A p \in Payments :
        LET u == To[p]
        IN  at[p] # 0 /\ u \in Entries ~>
              \/ told[u][p] > 0 \/ p \in absorbed \/ u \notin Entries \/ CutOff(u)
              \/ amiss \cap {"setup", "discord", "reorg"} # {}

=============================================================================
