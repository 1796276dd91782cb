------------------------------ MODULE Dispatch ------------------------------
(***************************************************************************)
(* The commands of Tip (src/src/Discord.cpp, Tip.cpp, Account.cpp).          *)
(*                                                                         *)
(* Discord's thread, the handler, takes one message after the other.  For a *)
(* command that needs a wallet it asks the pool for the author's account    *)
(* and leaves a pointer to it in the one Tip object there is; then a        *)
(* detached thread, a worker, runs the command and reads that pointer when  *)
(* it gets that far.  A transfer locks its account, reads the balance, asks *)
(* the pool for the receiver's account, and pays.                           *)
(*                                                                         *)
(* The pool is here what WalletPool promises: it gives a user his account,  *)
(* under its own mutex, and destroys the account used least recently to     *)
(* make room.                                                               *)
(***************************************************************************)
EXTENDS Naturals, Sequences, FiniteSets

CONSTANTS
    Users,        \* Discord ids
    Bot,          \* the bot's own one, which the faucet pays from
    Null,         \* the null pointer
    Freed,        \* a pointer to an account that was destroyed
    Limit,        \* max_rpc_limit
    Handler,      \* Discord's thread
    Workers,      \* bound: threads of commands at one time
    Nobody,       \* the holder of a free mutex
    MaxMessages,  \* bound: messages received
    Kinds,        \* which commands are sent
    Mentions,     \* the lists of mentioned users that commands come with
    OneAtATime,   \* do users wait for a command to end before they send the next one
    Faults        \* which calls may fail

\* What pays, what else reads the author's account, and what opens no wallet.
Payments == {"withdraw",     \* !withdraw: pays an address outside
             "withdrawall",  \* !withdrawall: pays it all there is
             "give",         \* !give, !tip: pays every user mentioned
             "giveall"}      \* !giveall, !tipall: pays all to the first one
WalletKinds == Payments \cup
    {"balance",     \* !balance, !blockheight, !history: read the account
     "restart"}     \* !restartwallet
PlainKinds ==
    {"plain",       \* !about, !help, !whois: no wallet at all
     "address",     \* !myaddress: reads a file, which is made if need be
     "toggle",      \* !togglewithdraw, !togglegive: an admin's switches
     "save",        \* !savewallets: stores every wallet in the map
     "totals",      \* !totalbalance: resyncs every account in the map
     "rescan",      \* !rescanallwallets: asks every wallet to rescan
     "status",      \* !rpcstatus: sums up what the accounts remember
     "restartfaucet"}  \* !restartfaucet: restarts the bot's own wallet
AdminKinds == PlainKinds \ {"plain", "address"}
Walks == {"totals", "rescan", "status"}
CommandKinds == WalletKinds \cup PlainKinds
FaultKinds == {"account",     \* the pool cannot set an account up
               "rpc",         \* the wallet refuses a request
               "note",        \* the transfer is done, its note is not
               "watchdog"}    \* the watchdog gives a wallet up

ASSUME PointerAssumption == Null \notin Users /\ Freed \notin Users /\ Null # Freed
ASSUME BotAssumption == Bot \in Users
ASSUME LimitAssumption == Limit \in Nat \ {0}
ASSUME ThreadsAssumption == Handler \notin Workers /\ Nobody \notin Workers \cup {Handler}
ASSUME MessagesAssumption == MaxMessages \in Nat
ASSUME KindsAssumption == Kinds \subseteq CommandKinds /\ Mentions \subseteq Seq(Users)
ASSUME FaultAssumption == OneAtATime \in BOOLEAN /\ Faults \subseteq FaultKinds

VARIABLES
    cache,      \* the users in RPCMap
    newer,      \* their time stamps: who of them was used after each
    MyAccount,  \* Tip::MyAccount
    mu,         \* who holds RPCManager::mu
    accMu,      \* who holds each Account::mu
    th,         \* the handler and the workers: how far they are, with what
    money,      \* the balance of each user's wallet
    allowed,    \* globalSettings: which payments the admins allow
    messages    \* messages received

vars == <<cache, newer, MyAccount, mu, accMu, th, money, allowed, messages>>

-----------------------------------------------------------------------------
(* Threads, accounts and mutexes.                                            *)

Threads == Workers \cup {Handler}
Pointers == Users \cup {Null, Freed}

\* A thread with a command, before it has got an account.
Thread(at, kind, author, to, want) ==
    [at |-> at, kind |-> kind, author |-> author, to |-> to, want |-> want,
     acc |-> Null, left |-> {}, seen |-> 0]
Sleeping == Thread("idle", "plain", Null, <<>>, Null)

Cached(u) == u \in cache
Full == Cardinality(cache) >= Limit

\* Variant with a mistake: the account used last makes room.
NewestRPC == {u \in cache : newer[u] = {}}

\* The account used least recently makes room.
FindOldestRPC == {u \in cache : newer[u] = cache \ {u}}

\* The users in the cache once u is found in it, or added to it.
Found(u) == IF Cached(u) \/ ~Full THEN cache \cup {u} ELSE (cache \ FindOldestRPC) \cup {u}

\* Those of them who are used now become the newest.
Used(users) ==
    newer' = [u \in Users |-> IF u \in cache' \ users THEN (newer[u] \cup users) \cap cache' ELSE {}]

\* u's entry is a copy of the one that made room, and has its time stamp until u is used.
Copied(u) ==
    newer' = [v \in Users |-> CASE v \notin cache' -> {}
                               [] v = u          -> cache' \ {u}
                               [] OTHER          -> newer[v] \cap cache']

\* The accounts of these users are destroyed; whoever pointed to one still does.
Destroyed(p, gone) == IF p \in gone THEN Freed ELSE p
Destroy(gone, threads) ==
    /\ MyAccount' = Destroyed(MyAccount, gone)
    /\ accMu' = [u \in Users |-> IF u \in gone THEN Nobody ELSE accMu[u]]
    /\ th' = [t \in Threads |-> [threads[t] EXCEPT !.acc = Destroyed(@, gone)]]

Goto(t, at) == [th EXCEPT ![t].at = at]

\* Variant with a mistake: the account stays locked.
KeptLocked(t) == accMu

Released(t) == [u \in Users |-> IF accMu[u] = t THEN Nobody ELSE accMu[u]]
Alive(t) == th[t].acc \in Users

\* The thread leaves its command, by an exception or at its end: ScopedLock unlocks.
Leave(t) ==
    /\ th' = [th EXCEPT ![t] = Sleeping]
    /\ accMu' = Released(t)

\* An account that is not there is used: anything may happen, so nothing more is explored.
Crashes ==
    /\ th' = [t \in Threads |-> Thread("crashed", "plain", Null, <<>>, Null)]
    /\ UNCHANGED <<MyAccount, accMu>>

Init ==
    /\ cache = {} /\ newer = [u \in Users |-> {}] /\ MyAccount = Null /\ mu = Nobody
    /\ accMu = [u \in Users |-> Nobody]
    /\ th = [t \in Threads |-> Sleeping]
    /\ money = [u \in Users |-> 2] /\ allowed = {"withdraw", "give"}
    /\ messages = 0

-----------------------------------------------------------------------------
(* onMessage and dispatcher.                                                 *)

Start(t, w, acc) ==
    LET command == [th[t] EXCEPT !.at = "start"]
    IN  MyAccount' = acc /\ th' = [th EXCEPT ![t] = Sleeping, ![w] = command]

Waits == OneAtATime => \A t \in Workers : th[t].at = "idle"

\* A command that opens no wallet: the pointer is reset, and then an admin's command
\* may be refused.
ReceivePlain ==
    /\ th[Handler].at = "idle" /\ messages < MaxMessages /\ Waits
    /\ \E u \in Users, kind \in Kinds \cap PlainKinds, w \in {t \in Workers : th[t].at = "idle"} :
         \/ th' = [th EXCEPT ![w] = Thread("start", kind, u, <<>>, Null)]
         \/ kind \in AdminKinds /\ UNCHANGED th
    /\ MyAccount' = Null
    /\ messages' = messages + 1
    /\ UNCHANGED <<cache, newer, mu, accMu, money, allowed>>

\* A command that opens its author's wallet first.
Receive ==
    /\ th[Handler].at = "idle" /\ messages < MaxMessages /\ Waits
    /\ \E u \in Users, kind \in Kinds \cap WalletKinds, to \in Mentions :
         /\ (to # <<>>) <=> kind \in {"give", "giveall"}
         /\ th' = [th EXCEPT ![Handler] = Thread("pool", kind, u, to, u)]
    /\ messages' = messages + 1
    /\ UNCHANGED <<cache, newer, MyAccount, mu, accMu, money, allowed>>

-----------------------------------------------------------------------------
(* getAccount, for the handler (the author) or a worker (a receiver).         *)

GetAccount(t) ==
    /\ th[t].at = "pool" /\ mu = Nobody
    /\ mu' = t
    /\ cache' = Found(th[t].want) /\ Used({th[t].want})
    /\ Destroy(cache \ cache', Goto(t, "resync"))
    /\ UNCHANGED <<money, allowed, messages>>

\* A throw on the way: the entry that was asked for stays behind or goes.  One that was
\* there before goes if the last set-up left it with another's wallet; the account the
\* command pays from is not of that kind, since the command was given it.
GetAccountThrows(t) ==
    /\ th[t].at = "pool" /\ mu = Nobody /\ "account" \in Faults
    /\ LET want == th[t].want
       IN  \/ Cached(want) /\ UNCHANGED <<cache, newer>>
           \/ want # th[t].acc /\ cache' = Found(want) \ {want} /\ Used({})
           \/ ~Cached(want) /\ cache' = Found(want) /\ IF Full THEN Copied(want) ELSE Used({want})
    /\ LET gone == cache \ cache'
       IN  IF Destroyed(th[t].acc, gone) = Freed
           THEN Crashes
           ELSE /\ MyAccount' = Destroyed(MyAccount, gone)
                /\ accMu' = [u \in Users |-> IF u \in gone THEN Nobody ELSE Released(t)[u]]
                /\ th' = [s \in Threads |->
                            IF s = t THEN Sleeping
                            ELSE [th[s] EXCEPT !.acc = Destroyed(@, gone)]]
    /\ UNCHANGED <<mu, money, allowed, messages>>

\* Variant with a mistake: a thread cannot lock again what it has locked.
NotReentrant(t) == {Nobody}

\* Which holders of a mutex do not keep t waiting: Poco::Mutex is recursive.
FreeFor(t) == {Nobody, t}

\* resyncAccount locks the account while the pool's mutex is held.
CanResync(t) == th[t].at = "resync" /\ accMu[th[t].want] \in FreeFor(t)

\* Variants with a mistake: the pointer is set once and then kept; it is not a pointer.
KeptPointer(t) == IF MyAccount \in Users THEN MyAccount ELSE th[t].want
BadPointer(t) == Nobody

AccountOf(t) == th[t].want

HandlerResync ==
    /\ CanResync(Handler)
    /\ mu' = Nobody
    /\ \E w \in {t \in Workers : th[t].at = "idle"} : Start(Handler, w, AccountOf(Handler))
    /\ UNCHANGED <<cache, newer, accMu, money, allowed, messages>>

WorkerResync(t) ==
    /\ CanResync(t)
    /\ mu' = Nobody
    /\ \/ th[t].kind = "address" /\ Leave(t)
       \/ th[t].kind # "address" /\ th' = Goto(t, "transfer") /\ UNCHANGED accMu
    /\ UNCHANGED <<cache, newer, MyAccount, money, allowed, messages>>

ResyncThrows(t) ==
    /\ CanResync(t) /\ "rpc" \in Faults
    /\ mu' = Nobody
    /\ IF th[t].acc # Freed
       THEN Leave(t) /\ UNCHANGED MyAccount
       ELSE Crashes
    /\ UNCHANGED <<cache, newer, money, allowed, messages>>

-----------------------------------------------------------------------------
(* The commands of Tip, and the transfers of Account.                        *)

\* The answer of a command without a wallet, of one that only reads numbers of the
\* account, and of a payment of all, which reads the pointer once more for it.
Answer(t) ==
    /\ \/ th[t].at = "start" /\ th[t].kind \in {"plain", "address"}
       \/ th[t].at = "start" /\ th[t].kind = "balance" /\ MyAccount \in Users
       \/ th[t].at = "answer" /\ MyAccount \in Users
    /\ th' = [th EXCEPT ![t] = Sleeping]
    /\ UNCHANGED <<cache, newer, MyAccount, mu, accMu, money, allowed, messages>>

\* getWalletAddress finds no wallet file, so nobody has opened that wallet, and calls
\* getAccount.
OpenAddress(t) ==
    /\ th[t].at = "start" /\ th[t].kind = "address" /\ ~Cached(th[t].author)
    /\ th' = [th EXCEPT ![t].at = "pool", ![t].want = th[t].author]
    /\ UNCHANGED <<cache, newer, MyAccount, mu, accMu, money, allowed, messages>>

Toggle(t) ==
    /\ th[t].at = "start" /\ th[t].kind = "toggle"
    /\ \E switch \in {"withdraw", "give"} :
         allowed' = (allowed \ {switch}) \cup ({switch} \ allowed)
    /\ th' = [th EXCEPT ![t] = Sleeping]
    /\ UNCHANGED <<cache, newer, MyAccount, mu, accMu, money, messages>>

\* SaveWallets takes the pool's mutex; a wallet that cannot be stored is passed over.
SaveWallets(t) ==
    /\ th[t].at = "start" /\ th[t].kind = "save" /\ mu = Nobody
    /\ th' = [th EXCEPT ![t] = Sleeping]
    /\ UNCHANGED <<cache, newer, MyAccount, mu, accMu, money, allowed, messages>>

Switch(kind) == IF kind \in {"give", "giveall"} THEN "give" ELSE "withdraw"

\* A payment is allowed or not when its command starts, once for all users mentioned.
Allowed(t) == th[t].at = "start" => Switch(th[t].kind) \in allowed

Decline(t) ==
    /\ th[t].at = "start" /\ th[t].kind \in Payments /\ ~Allowed(t)
    /\ th' = [th EXCEPT ![t] = Sleeping]
    /\ UNCHANGED <<cache, newer, MyAccount, mu, accMu, money, allowed, messages>>

\* Whose account a transfer is called on is read from Tip, not from the message.
ReadPointer(t) ==
    /\ th[t].at \in {"start", "next"} /\ th[t].kind \in Payments /\ Allowed(t)
    /\ MyAccount \in Users
    /\ th' = [th EXCEPT ![t].at = "lock", ![t].acc = MyAccount]
    /\ UNCHANGED <<cache, newer, MyAccount, mu, accMu, money, allowed, messages>>

\* Whose wallet to restart: !restartwallet gets the id of that account, no more;
\* !restartfaucet takes the bot's own.
RestartedUser(t) == IF th[t].kind = "restart" THEN MyAccount ELSE Bot

ReadId(t) ==
    /\ th[t].at = "start" /\ th[t].kind \in {"restart", "restartfaucet"}
    /\ RestartedUser(t) \in Users
    /\ th' = [th EXCEPT ![t].at = "restart", ![t].want = RestartedUser(t)]
    /\ UNCHANGED <<cache, newer, MyAccount, mu, accMu, money, allowed, messages>>

ReadBadPointer(t) ==
    /\ th[t].at \in {"start", "next", "answer"} /\ th[t].kind \in WalletKinds
    /\ th[t].kind \in Payments => Allowed(t)
    /\ MyAccount \notin Users
    /\ Crashes
    /\ UNCHANGED <<cache, newer, mu, money, allowed, messages>>

UseFreed(t) ==
    /\ \/ th[t].at \in {"lock", "guard", "transfer", "note"} /\ ~Alive(t)
       \/ th[t].at \in {"walk", "visit"} /\ th[t].acc = Freed
    /\ Crashes
    /\ UNCHANGED <<cache, newer, mu, money, allowed, messages>>

\* Variant with a mistake: the account is not locked.
NoLock(t) == Nobody

\* Who holds the account's mutex from here on.
LockedBy(t) == t

\* Lock the account and read its balance.
Lock(t) ==
    /\ th[t].at = "lock" /\ Alive(t) /\ accMu[th[t].acc] = Nobody
    /\ accMu' = [accMu EXCEPT ![th[t].acc] = LockedBy(t)]
    /\ th' = [th EXCEPT ![t].at = "guard", ![t].seen = money[th[t].acc]]
    /\ UNCHANGED <<cache, newer, MyAccount, mu, money, allowed, messages>>

\* An amount of 1 needs more than 1 for the fee; paying all needs something.
PaysAll(t) == th[t].kind \in {"giveall", "withdrawall"}
Suffices(t) == IF PaysAll(t) THEN th[t].seen > 0 ELSE th[t].seen > 1
ToUser(t) == th[t].kind \in {"give", "giveall"}

Guard(t) ==
    /\ th[t].at = "guard" /\ Alive(t) /\ Suffices(t)
    /\ th' = IF ToUser(t) THEN [th EXCEPT ![t].at = "pool", ![t].want = Head(th[t].to)]
             ELSE Goto(t, "transfer")
    /\ UNCHANGED <<cache, newer, MyAccount, mu, accMu, money, allowed, messages>>

\* The guards throw, or resyncAccount before them does.
GuardThrows(t) ==
    /\ th[t].at = "guard" /\ Alive(t)
    /\ Suffices(t) => "rpc" \in Faults
    /\ Leave(t)
    /\ UNCHANGED <<cache, newer, MyAccount, mu, money, allowed, messages>>

Receiver(t) == IF ToUser(t) THEN {th[t].want} ELSE {}
ToOneself(t) == th[t].acc \in Receiver(t)
Amount(t) == IF PaysAll(t) THEN money[th[t].acc] ELSE 1

\* tranfer and sweepAll: the wallet pays if it can.
Transfer(t) ==
    /\ th[t].at = "transfer" /\ Alive(t) /\ ~ToOneself(t)
    /\ Amount(t) \in 1 .. money[th[t].acc]
    /\ money' = [u \in Users |->
                   IF u = th[t].acc THEN money[u] - Amount(t)
                   ELSE IF u \in Receiver(t) THEN money[u] + Amount(t) ELSE money[u]]
    /\ th' = Goto(t, "note")
    /\ UNCHANGED <<cache, newer, MyAccount, mu, accMu, allowed, messages>>

TransferThrows(t) ==
    /\ th[t].at = "transfer" /\ Alive(t)
    /\ ~ToOneself(t) /\ Amount(t) \in 1 .. money[th[t].acc] => "rpc" \in Faults
    /\ Leave(t)
    /\ UNCHANGED <<cache, newer, MyAccount, mu, money, allowed, messages>>

\* setTXNote ends the transfer, with or without more users to give to.
SetTXNote(t) ==
    /\ th[t].at = "note" /\ Alive(t)
    /\ accMu' = Released(t)
    /\ th' = IF th[t].kind = "give" /\ Len(th[t].to) > 1
             THEN [th EXCEPT ![t] = Thread("next", "give", th[t].author, Tail(th[t].to), Null)]
             ELSE IF PaysAll(t)
             THEN [th EXCEPT ![t] = Thread("answer", th[t].kind, th[t].author, th[t].to, Null)]
             ELSE [th EXCEPT ![t] = Sleeping]
    /\ UNCHANGED <<cache, newer, MyAccount, mu, money, allowed, messages>>

NoteThrows(t) ==
    /\ th[t].at = "note" /\ Alive(t) /\ "note" \in Faults
    /\ Leave(t)
    /\ UNCHANGED <<cache, newer, MyAccount, mu, money, allowed, messages>>

-----------------------------------------------------------------------------
(* restartWallet, and the loops over the map that take no mutex of the pool.  *)

\* The users in the cache when u is or is not given up.
Survivors(u) == cache \ {u}

\* restartWallet, for one of the two commands, all of it under the pool's mutex.
RestartWallet(t) ==
    /\ th[t].at = "restart" /\ mu = Nobody
    /\ \/ cache' = cache
       \/ "account" \in Faults /\ cache' = Survivors(th[t].want)
    /\ Used({})
    /\ Destroy(cache \ cache', [th EXCEPT ![t] = Sleeping])
    /\ UNCHANGED <<mu, money, allowed, messages>>

\* The same for the watchdog, which finds a wallet dead that does not come back.
WatchDog ==
    /\ mu = Nobody /\ "watchdog" \in Faults
    /\ \E u \in cache : cache' = Survivors(u)
    /\ Used({})
    /\ Destroy(cache \ cache', th)
    /\ UNCHANGED <<mu, money, allowed, messages>>

BeginWalk(t) ==
    /\ th[t].at = "start" /\ th[t].kind \in Walks
    /\ th' = [th EXCEPT ![t].at = "walk", ![t].left = cache]
    /\ UNCHANGED <<cache, newer, MyAccount, mu, accMu, money, allowed, messages>>

\* From one entry to another one that is still there; the order of the map is left open.
\* One that was inserted meanwhile is passed by, as it is when it lies behind.
Walk(t) ==
    /\ th[t].at = "walk" /\ th[t].acc # Freed
    /\ \E u \in th[t].left \cap cache :
         th' = [th EXCEPT ![t].at = "visit", ![t].acc = u, ![t].left = @ \ {u}]
    /\ UNCHANGED <<cache, newer, MyAccount, mu, accMu, money, allowed, messages>>

\* resyncAccount waits for the account's mutex; the other loops do not.
Visit(t) ==
    /\ th[t].at = "visit" /\ Alive(t)
    /\ th[t].kind = "totals" => accMu[th[t].acc] = Nobody
    /\ th' = Goto(t, "walk")
    /\ UNCHANGED <<cache, newer, MyAccount, mu, accMu, money, allowed, messages>>

VisitThrows(t) ==
    /\ th[t].at = "visit" /\ Alive(t)
    /\ th[t].kind # "status" /\ "rpc" \in Faults
    /\ th[t].kind = "totals" => accMu[th[t].acc] = Nobody
    /\ Leave(t)
    /\ UNCHANGED <<cache, newer, MyAccount, mu, money, allowed, messages>>

EndWalk(t) ==
    /\ th[t].at = "walk" /\ th[t].acc # Freed
    /\ th[t].left \cap cache = {}
    /\ th' = [th EXCEPT ![t] = Sleeping]
    /\ UNCHANGED <<cache, newer, MyAccount, mu, accMu, money, allowed, messages>>

-----------------------------------------------------------------------------

Command(t) ==
    \/ GetAccount(t) \/ GetAccountThrows(t) \/ WorkerResync(t) \/ ResyncThrows(t)
    \/ Answer(t) \/ OpenAddress(t) \/ Toggle(t) \/ SaveWallets(t) \/ Decline(t)
    \/ ReadPointer(t) \/ ReadId(t) \/ ReadBadPointer(t) \/ UseFreed(t)
    \/ RestartWallet(t) \/ BeginWalk(t) \/ Walk(t) \/ Visit(t) \/ VisitThrows(t) \/ EndWalk(t)
    \/ Lock(t) \/ Guard(t) \/ GuardThrows(t)
    \/ Transfer(t) \/ TransferThrows(t) \/ SetTXNote(t) \/ NoteThrows(t)

HandlerStep ==
    GetAccount(Handler) \/ GetAccountThrows(Handler) \/ HandlerResync \/ ResyncThrows(Handler)

Next == ReceivePlain \/ Receive \/ HandlerStep \/ WatchDog \/ \E t \in Workers : Command(t)

Spec == Init /\ [][Next]_vars

-----------------------------------------------------------------------------
(* Properties.                                                               *)

Stages == {"idle", "start", "lock", "guard", "pool", "resync", "transfer", "note", "next",
           "answer", "restart", "walk", "visit", "crashed"}
ThreadStates == [at : Stages, kind : CommandKinds, author : Users \cup {Null}, to : Seq(Users),
                 acc : Pointers, want : Users \cup {Null}, left : SUBSET Users, seen : Nat]

\* Every variable has its type.
TypeOK ==
    /\ cache \subseteq Users /\ newer \in [Users -> SUBSET Users] /\ MyAccount \in Pointers
    /\ mu \in Threads \cup {Nobody}
    /\ accMu \in [Users -> Threads \cup {Nobody}]
    /\ th \in [Threads -> ThreadStates]
    /\ money \in [Users -> Nat] /\ messages \in Nat
    /\ allowed \subseteq {"withdraw", "give"}

Pays(t) == th[t].at = "transfer" /\ th'[t].at = "note"

\* "author: Giving amount to user": a command takes money from its author's wallet only.
AuthorPays == [][\A t \in Workers : Pays(t) => th[t].acc = th[t].author]_vars

\* No command works on an account that was destroyed to make room, or on none at all.
UsesLiveAccounts == th[Handler].at # "crashed"

\* What a transfer checked is still there when it pays: of two commands that spend from
\* one account the second reads the balance after the first has paid.
SpendsWhatItChecked == [][\A t \in Workers : Pays(t) => th[t].seen <= money[th[t].acc]]_vars

\* No mutex outlives the work it was locked for, whatever throws on the way: a thread
\* that is between commands holds none.
MutexesAreReleased ==
    \A t \in Threads :
        th[t].at \in {"idle", "start"} => mu # t /\ \A u \in Users : accMu[u] # t

\* Who keeps t waiting for a mutex: the pool's, or the one of an account that it resyncs
\* or pays from.
NeedsPool(t) == th[t].at \in {"pool", "restart"} \/ (th[t].at = "start" /\ th[t].kind = "save")
NeedsAccount(t) ==
    {u \in Users : \/ th[t].at = "resync" /\ th[t].want = u
                   \/ th[t].at = "lock" /\ th[t].acc = u
                   \/ th[t].at = "visit" /\ th[t].kind = "totals" /\ th[t].acc = u}
WaitsFor(t, h) ==
    \/ NeedsPool(t) /\ mu = h
    \/ \E u \in NeedsAccount(t) : accMu[u] = h /\ h \notin FreeFor(t)

\* The circle in the code: t asks the pool for the account that h pays from, and h asks
\* the pool for its receiver's.
Circle(t, h) ==
    /\ mu = t /\ th[t].at = "resync" /\ accMu[th[t].want] = h
    /\ h # t /\ th[h].at = "pool"

\* Commands stop each other in that circle and in no other way: wherever threads wait for
\* each other, it is among them.
OnlyTheCircleStops ==
    \A waiting \in (SUBSET Threads) \ {{}} :
        (\A t \in waiting : \E h \in waiting : WaitsFor(t, h))
            => \E t, h \in waiting : Circle(t, h)

=============================================================================
