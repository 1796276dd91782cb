----------------------------- MODULE WalletPool -----------------------------
(***************************************************************************)
(* The pool of wallet processes kept by RPCManager (src/src/RPCManager.cpp, *)
(* with the wallet files of RPC.cpp and Account.cpp).                       *)
(*                                                                         *)
(* Every Discord user owns one wallet file.  A wallet is served by an       *)
(* external wallet-rpc process bound to a TCP port.  RPCMap caches at most  *)
(* max_rpc_limit of these; a user who is not cached gets a new process or   *)
(* takes over the process of the entry that was used least recently.        *)
(*                                                                         *)
(* getAccount, restartWallet and the start-up reload all hold RPCManager's  *)
(* mutex for their whole duration, so at most one of them is running; call  *)
(* says which, for whom and how far it got.  What the mutex does not keep   *)
(* out (a wallet process that dies, the bot that dies) interleaves with     *)
(* every step of it.                                                        *)
(***************************************************************************)
EXTENDS Naturals, FiniteSets

CONSTANTS
    Users,          \* Discord ids that own a wallet (the bot's own id is one of them)
    Nobody,         \* DiscordID 0; also "no wallet is open"
    LotteryWallet,  \* the wallet file named LOTTERY
    Limit,          \* GlobalConfig.RPCManager.max_rpc_limit
    StartPort,      \* GlobalConfig.RPCManager.starting_port_number
    MaxPort,        \* bound: ports above it are not explored
    Faults          \* which failures the environment may inject

FaultKinds == {"launch",    \* Poco::Process::launch throws
               "slow",      \* a live wallet process needs more than 30 s
               "rpc",       \* a live wallet process answers with an error
               "address",   \* the .address.txt file cannot be written
               "crash",     \* a wallet process dies by itself
               "bot",       \* the bot dies without running its destructors
               "restart"}   \* the bot is shut down, and started again after it went down

ASSUME NobodyAssumption == Nobody \notin Users
ASSUME LotteryAssumption == LotteryWallet \notin Users /\ LotteryWallet # Nobody
ASSUME LimitAssumption == Limit \in Nat \ {0}
ASSUME PortAssumption == StartPort \in Nat \ {0, 1} /\ MaxPort \in Nat
ASSUME FaultAssumption == Faults \subseteq FaultKinds

VARIABLES
    RPCMap,         \* the users that have an entry in the map
    Proc,           \* the RPCProc of each entry: pid, port and account owner
    older,          \* <<u, v>> : u's timestamp is before v's
    currPortNum,    \* the next port to give out
    server,         \* per port: the process bound to it and the wallet it has open
    files,          \* per user: is there a wallet file, and its .address.txt
    saved,          \* the users listed in RPCDATA.json
    up,             \* is the bot running
    ready,          \* has Discord reported READY, and the Lottery been constructed
    call,           \* the operation that holds the mutex
    todo            \* entries that the start-up reload has not reached yet

poolVars == <<RPCMap, Proc, older, currPortNum>>
diskVars == <<files, saved>>
botVars == <<up, ready>>
vars == <<poolVars, server, diskVars, botVars, call, todo>>

-----------------------------------------------------------------------------
(* Processes, ports and wallets.                                             *)

LotteryPort == StartPort - 1
Ports == LotteryPort .. MaxPort
Wallets == Users \cup {LotteryWallet, Nobody}

\* Process ids are told apart as far as the code can: the pid of an entry is 0, or the
\* id of the process that is bound to the entry's port ("live"), or the id of a process
\* that no longer exists ("gone").
NewEntry == [pid |-> "none", port |-> 0, owner |-> Nobody]
Entry == [pid : {"none", "live", "gone"}, port : Ports \cup {0}, owner : Users \cup {Nobody}]

Free == [alive |-> FALSE, wallet |-> Nobody]
Process == [alive : BOOLEAN, wallet : Wallets]

Served(port) == port \in Ports /\ server[port].alive

\* LaunchRPC: the process exits at once if its port is bound already.
Bind(srv, port) ==
    [p \in Ports |-> IF p = port /\ ~srv[p].alive
                     THEN [alive |-> TRUE, wallet |-> Nobody] ELSE srv[p]]
NewPid(srv, port) == IF port \in Ports /\ ~srv[port].alive THEN "live" ELSE "gone"

\* The processes on these ports die, and their ids name nothing from now on.
Freed(srv, ports) == [p \in Ports |-> IF p \in ports THEN Free ELSE srv[p]]
Orphaned(procs, ports) ==
    [u \in Users |-> IF procs[u].pid = "live" /\ procs[u].port \in ports
                     THEN [procs[u] EXCEPT !.pid = "gone"] ELSE procs[u]]

\* Variant with a mistake: the process is not killed.
KillPortsForgotten(u) == {}

\* Poco::Process::kill(RPCMap[u].pid) ends the process on these ports.
KillPorts(u) == IF Proc[u].pid = "live" THEN {Proc[u].port} ELSE {}

\* Variant with a mistake: the request names the wrong thing.
OpenedByPort(srv, port, w) ==
    [p \in Ports |-> IF p = port THEN [srv[p] EXCEPT !.wallet = port] ELSE srv[p]]

\* open_wallet and create_wallet: the process has this wallet open afterwards.
Opened(srv, port, w) ==
    [p \in Ports |-> IF p = port THEN [srv[p] EXCEPT !.wallet = w] ELSE srv[p]]

-----------------------------------------------------------------------------
(* The map and the timestamps.                                               *)

\* FindOldestRPC: no entry has an earlier timestamp.
IsOldest(u) == u \in RPCMap /\ \A v \in RPCMap : <<v, u>> \notin older

\* Variants with a mistake: one entry too many, a port given out twice, the id of the
\* new user is erased instead of the old one's.
HasRoomForOneMore == Cardinality(RPCMap) <= Limit
SamePort == currPortNum
NoVictim(old) == Nobody

HasRoom == Cardinality(RPCMap) < Limit
NextPort == currPortNum + 1

\* The id that is erased when old's process is handed on: the owner its account names.
Victim(old) == Proc[old].owner

Without(u) == {p \in older : u \notin {p[1], p[2]}}
Newest(u) == Without(u) \cup {<<v, u>> : v \in RPCMap \ {u}}

\* RPCMap.erase(u), while the processes on these ports die.
Erase(u, ports) ==
    /\ RPCMap' = RPCMap \ {u}
    /\ Proc' = [Orphaned(Proc, ports) EXCEPT ![u] = NewEntry]
    /\ older' = Without(u)

-----------------------------------------------------------------------------
(* The operation that holds the mutex.                                       *)

Idle == [op |-> "none", id |-> Nobody, at |-> "idle"]
Step(at) == [call EXCEPT !.at = at]
Begin(op, u, at) == [op |-> op, id |-> u, at |-> at]

NextReload(rest) == IF rest = {} THEN Idle ELSE Begin("reload", Nobody, "launch")

\* The operation is over, normally or by an exception.  Only the reload catches
\* the exception and goes on with the next entry.
Over ==
    IF call.op = "reload"
    THEN todo' = todo \ {call.id} /\ call' = NextReload(todo')
    ELSE UNCHANGED todo /\ call' = Idle

\* The bot process is gone and so is everything in its memory; srv says which
\* wallet processes outlive it.
BotDies(srv) ==
    /\ up' = FALSE /\ ready' = FALSE
    /\ call' = Idle
    /\ todo' = {}
    /\ RPCMap' = {}
    /\ Proc' = [u \in Users |-> NewEntry]
    /\ older' = {}
    /\ currPortNum' = StartPort
    /\ server' = srv
    /\ UNCHANGED diskVars

Init ==
    /\ RPCMap = {} /\ older = {} /\ todo = {} /\ saved = {}
    /\ Proc = [u \in Users |-> NewEntry]
    /\ currPortNum = StartPort
    /\ server = [p \in Ports |-> Free]
    /\ files = [u \in Users |-> "none"]
    /\ up = TRUE /\ ready = FALSE
    /\ call = Idle

-----------------------------------------------------------------------------
(* getAccount: find the entry, or make one.                                  *)

Available == up /\ call = Idle

\* No account is asked for before READY: commands come from Discord, and onReady
\* constructs the Lottery before it opens the bot's own account.
Asked == Available /\ ready

\* The user is cached: go straight to the ownership check.
GetAccountHit(u) ==
    /\ Asked /\ u \in RPCMap
    /\ call' = Begin("getAccount", u, "check")
    /\ UNCHANGED <<poolVars, server, diskVars, botVars, todo>>

\* SpinUpNewRPC: there is room for one more process, on the next port.
SpinUp(u) ==
    /\ Asked /\ u \notin RPCMap /\ HasRoom
    /\ currPortNum <= MaxPort
    /\ server' = Bind(server, currPortNum)
    /\ Proc' = [Proc EXCEPT ![u] =
                  [pid |-> NewPid(server, currPortNum), port |-> currPortNum, owner |-> u]]
    /\ RPCMap' = RPCMap \cup {u}
    /\ older' = Newest(u)
    /\ currPortNum' = NextPort
    /\ call' = Begin("getAccount", u, "wait")
    /\ UNCHANGED <<diskVars, botVars, todo>>

\* The launch throws.  RPCMap[id] = SpinUpNewRPC(id) may have evaluated RPCMap[id]
\* first (C++14 leaves the order open); a default entry then stays behind.
SpinUpThrows(u) ==
    /\ Asked /\ u \notin RPCMap /\ HasRoom
    /\ "launch" \in Faults
    /\ RPCMap' = RPCMap \cup {u}
    /\ Proc' = [Proc EXCEPT ![u] = NewEntry]
    /\ older' = Newest(u)
    /\ UNCHANGED <<currPortNum, server, diskVars, botVars, call, todo>>

\* Variant with a mistake: the copy of an entry leaves the pid out.
HandedOnWithoutPid(old, u) == [Proc[old] EXCEPT !.owner = u, !.pid = "none"]

\* RPCProc's copy: process, port and timestamp; the account is made for u.
HandedOn(old, u) == [Proc[old] EXCEPT !.owner = u]

\* The map is full: u's entry becomes a copy of the oldest one (process, port and
\* timestamp), and the entry of the account that one says it belongs to is erased.
TakeOver(u, old) ==
    /\ Asked /\ u \notin RPCMap /\ ~HasRoom
    /\ IsOldest(old)
    /\ LET victim == Victim(old)
           origin == [v \in Users |-> IF v = u THEN old ELSE v]
       IN  /\ RPCMap' = (RPCMap \ {victim}) \cup {u}
           /\ Proc' = [v \in Users |->
                         IF v = u THEN HandedOn(old, u)
                         ELSE IF v = victim THEN NewEntry ELSE Proc[v]]
           /\ older' = {p \in RPCMap' \X RPCMap' : <<origin[p[1]], origin[p[2]]>> \in older}
    /\ call' = Begin("getAccount", u, "wait")
    /\ UNCHANGED <<currPortNum, server, diskVars, botVars, todo>>

-----------------------------------------------------------------------------
(* Setting an entry up: waitForRPCToRespond, openWallet, getTransfers.  The   *)
(* same three calls end getAccount's miss, restartWallet and the reload.      *)

MyPort == Proc[call.id].port

\* Any answer counts, "no wallet file" included.
Responds ==
    /\ call.at = "wait" /\ Served(MyPort)
    /\ call' = Step("wallet")
    /\ UNCHANGED <<poolVars, server, diskVars, botVars, todo>>

\* More than 30 s have passed, even if the answer came just now: kill the process,
\* erase the entry, throw.  Killing a process that is gone may throw first, and the
\* entry then stays.  In the reload, and in a restart by the watchdog, the erased entry
\* is the one that a loop stands on, so advancing that iterator is undefined.
GivesUp ==
    /\ call.at = "wait"
    /\ Served(MyPort) => "slow" \in Faults
    /\ \/ /\ Proc[call.id].pid # "none"
          /\ server' = Freed(server, KillPorts(call.id))
          /\ Erase(call.id, KillPorts(call.id))
          /\ Over
          /\ UNCHANGED <<currPortNum, diskVars, botVars>>
       \/ /\ Proc[call.id].pid # "live"
          /\ Over
          /\ UNCHANGED <<poolVars, server, diskVars, botVars>>
       \/ /\ Proc[call.id].pid # "none" /\ call.op # "getAccount"
          /\ BotDies(Freed(server, KillPorts(call.id)))

\* createWallet: the wallet and its address file are written, the wallet is open.
CreateWallet ==
    /\ call.at = "wallet" /\ Served(MyPort) /\ files[call.id] = "none"
    /\ files' = [files EXCEPT ![call.id] = "ok"]
    /\ server' = Opened(server, MyPort, call.id)
    /\ UNCHANGED <<poolVars, saved, botVars, call, todo>>

\* createWallet: the wallet is written, its address file is not.
CreateWithoutAddress ==
    /\ call.at = "wallet" /\ Served(MyPort) /\ files[call.id] = "none"
    /\ "address" \in Faults
    /\ files' = [files EXCEPT ![call.id] = "noaddress"]
    /\ server' = Opened(server, MyPort, call.id)
    /\ Over
    /\ UNCHANGED <<poolVars, saved, botVars>>

OpenWallet ==
    /\ call.at = "wallet" /\ Served(MyPort) /\ files[call.id] # "none"
    /\ server' = Opened(server, MyPort, call.id)
    /\ call' = Step("transfers")
    /\ UNCHANGED <<poolVars, diskVars, botVars, todo>>

\* The last call of a set-up.  Only now does the reload take the next port.
LoadTransfers ==
    /\ call.at = "transfers" /\ Served(MyPort)
    /\ \/ call.op = "getAccount" /\ call' = Step("check") /\ UNCHANGED <<todo, currPortNum>>
       \/ call.op = "restart" /\ Over /\ UNCHANGED currPortNum
       \/ call.op = "reload" /\ Over /\ currPortNum' = NextPort
    /\ UNCHANGED <<RPCMap, Proc, older, server, diskVars, botVars>>

\* A request of the set-up, or of the final resync, has no answer or an error for an
\* answer; the entry, and whatever wallet its process has open, stay as they are.
RequestFails ==
    /\ call.at \in {"wallet", "transfers", "resync"}
    /\ Served(MyPort) => "rpc" \in Faults
    /\ Over
    /\ UNCHANGED <<poolVars, server, diskVars, botVars>>

-----------------------------------------------------------------------------
(* getAccount: the ownership check and the end.                              *)

\* Variant with a mistake: any wallet will do.
OwnsAnyWallet == files[call.id] = "ok"

\* The address in the user's file is the address of the wallet that is open.  An
\* address file that is missing reads as "", which no wallet has for an address.
OwnsWallet == files[call.id] = "ok" /\ server[MyPort].wallet = call.id

CheckPasses ==
    /\ call.at = "check" /\ Served(MyPort) /\ OwnsWallet
    /\ older' = Newest(call.id)
    /\ call' = Step("resync")
    /\ UNCHANGED <<RPCMap, Proc, currPortNum, server, diskVars, botVars, todo>>

\* "You do not own this account!": the entry goes, its process stays.
CheckAborts ==
    /\ call.at = "check" /\ Served(MyPort) /\ files[call.id] # "none"
    /\ server[MyPort].wallet # Nobody /\ ~OwnsWallet
    /\ Erase(call.id, {})
    /\ call' = Idle
    /\ UNCHANGED <<currPortNum, server, diskVars, botVars, todo>>

\* getAddress throws: nobody answers, no wallet is open, or an error comes back.
CheckThrows ==
    /\ call.at = "check"
    /\ (Served(MyPort) /\ server[MyPort].wallet # Nobody) => "rpc" \in Faults
    /\ call' = Idle
    /\ UNCHANGED <<poolVars, server, diskVars, botVars, todo>>

\* getWalletAddress finds no wallet file and calls getAccount for the same user, which
\* finds the same entry and calls getWalletAddress, and so on.
CheckRecurses ==
    /\ call.at = "check" /\ files[call.id] = "none"
    /\ call' = Step("recursion")
    /\ UNCHANGED <<poolVars, server, diskVars, botVars, todo>>

StackOverflow == call.at = "recursion" /\ BotDies(server)

Resync ==
    /\ call.at = "resync" /\ Served(MyPort)
    /\ call' = Step("granted")
    /\ UNCHANGED <<poolVars, server, diskVars, botVars, todo>>

\* getAccount returns the account and unlocks.
Return ==
    /\ call.at = "granted"
    /\ call' = Idle
    /\ UNCHANGED <<poolVars, server, diskVars, botVars, todo>>

-----------------------------------------------------------------------------
(* restartWallet: from a command, or from the watchdog for a dead process.    *)

RestartWallet(u) ==
    /\ Available /\ u \in RPCMap
    /\ LET port == Proc[u].port
           killed == Freed(server, KillPorts(u))
       IN  /\ server' = Bind(killed, port)
           /\ Proc' = [Orphaned(Proc, KillPorts(u)) EXCEPT ![u] =
                         [pid |-> NewPid(killed, port), port |-> port, owner |-> u]]
    /\ call' = Begin("restart", u, "wait")
    /\ UNCHANGED <<RPCMap, older, currPortNum, diskVars, botVars, todo>>

RestartThrows(u) ==
    /\ Available /\ u \in RPCMap /\ "launch" \in Faults
    /\ server' = Freed(server, KillPorts(u))
    /\ Proc' = Orphaned(Proc, KillPorts(u))
    /\ UNCHANGED <<RPCMap, older, currPortNum, diskVars, botVars, call, todo>>

\* Process::kill on the pid 0 of a default entry: to the operating system that is the
\* bot's own process group.
KillsOwnGroup ==
    /\ \/ call.at = "wait" /\ ~Served(MyPort) /\ Proc[call.id].pid = "none"
       \/ Available /\ \E u \in RPCMap : Proc[u].pid = "none"
    /\ BotDies([p \in Ports |-> Free])

-----------------------------------------------------------------------------
(* The lottery's own process, save, shutdown, start-up reload.               *)

\* onReady, manuallyCreateRPC: takes no lock, is not in the map, keeps one fixed port.
ManuallyCreateRPC ==
    /\ up /\ ~ready
    /\ \E answers \in BOOLEAN :
         /\ ~answers => Faults \cap {"slow", "rpc", "crash"} # {}
         /\ LET bound == Bind(server, LotteryPort)
            IN  server' = IF answers THEN Opened(bound, LotteryPort, LotteryWallet) ELSE bound
         /\ ready' = answers
    /\ UNCHANGED <<poolVars, diskVars, up, call, todo>>

\* Only a later start reads what is saved; without one it is not worth a state.
Save ==
    /\ Available /\ "restart" \in Faults
    /\ saved' = RPCMap
    /\ UNCHANGED <<poolVars, server, files, botVars, call, todo>>

\* ~Lottery and ~RPCManager: save, then stop every process by a request to its port,
\* or by its pid when the request fails.
Shutdown ==
    /\ Available /\ "restart" \in Faults
    /\ saved' = RPCMap
    /\ up' = FALSE /\ ready' = FALSE
    /\ \E refused \in SUBSET (RPCMap \cup {LotteryWallet}) :
         /\ refused # {} => "rpc" \in Faults
         /\ server' = Freed(server,
                {Proc[u].port : u \in RPCMap \ refused}
                \cup UNION {KillPorts(u) : u \in RPCMap \cap refused}
                \cup {LotteryPort : w \in {LotteryWallet} \ refused})
    /\ RPCMap' = {} /\ older' = {} /\ Proc' = [u \in Users |-> NewEntry]
    /\ currPortNum' = StartPort
    /\ UNCHANGED <<files, call, todo>>

\* main, RPCManager(), load: the entries come back without process and timestamp.
Start ==
    /\ ~up /\ "restart" \in Faults
    /\ up' = TRUE
    /\ RPCMap' = saved /\ older' = {} /\ Proc' = [u \in Users |-> NewEntry]
    /\ currPortNum' = StartPort
    /\ todo' = saved
    /\ call' = NextReload(saved)
    /\ UNCHANGED <<server, diskVars, ready>>

\* ReloadSavedRPCs, one turn of its loop.
ReloadLaunch(u) ==
    /\ call.at = "launch" /\ u \in todo
    /\ currPortNum <= MaxPort
    /\ server' = Bind(server, currPortNum)
    /\ Proc' = [Proc EXCEPT ![u] =
                  [pid |-> NewPid(server, currPortNum), port |-> currPortNum, owner |-> u]]
    /\ call' = Begin("reload", u, "wait")
    /\ UNCHANGED <<RPCMap, older, currPortNum, diskVars, botVars, todo>>

ReloadThrows(u) ==
    /\ call.at = "launch" /\ u \in todo /\ "launch" \in Faults
    /\ todo' = todo \ {u}
    /\ call' = NextReload(todo')
    /\ UNCHANGED <<poolVars, server, diskVars, botVars>>

-----------------------------------------------------------------------------
(* The environment.                                                          *)

ProcessCrash(p) ==
    /\ "crash" \in Faults /\ Served(p)
    /\ server' = Freed(server, {p})
    /\ Proc' = Orphaned(Proc, {p})
    /\ UNCHANGED <<RPCMap, older, currPortNum, diskVars, botVars, call, todo>>

BotCrash == up /\ "bot" \in Faults /\ BotDies(server)

GetAccount(u) ==
    GetAccountHit(u) \/ SpinUp(u) \/ SpinUpThrows(u) \/ \E old \in Users : TakeOver(u, old)

SetUp ==
    \/ Responds \/ GivesUp \/ CreateWallet \/ CreateWithoutAddress
    \/ OpenWallet \/ LoadTransfers \/ RequestFails

Check == CheckPasses \/ CheckAborts \/ CheckThrows \/ CheckRecurses \/ StackOverflow

Next ==
    \/ \E u \in Users : GetAccount(u) \/ RestartWallet(u) \/ RestartThrows(u)
    \/ SetUp \/ Check \/ Resync \/ Return
    \/ KillsOwnGroup
    \/ ManuallyCreateRPC \/ Save \/ Shutdown \/ Start
    \/ \E u \in Users : ReloadLaunch(u) \/ ReloadThrows(u)
    \/ \E p \in Ports : ProcessCrash(p)
    \/ BotCrash

Spec == Init /\ [][Next]_vars

-----------------------------------------------------------------------------
(* Properties.                                                               *)

\* Every variable has its type.
TypeOK ==
    /\ RPCMap \subseteq Users
    /\ Proc \in [Users -> Entry]
    /\ older \subseteq Users \X Users
    /\ currPortNum \in Nat /\ currPortNum >= StartPort
    /\ server \in [Ports -> Process]
    /\ files \in [Users -> {"none", "noaddress", "ok"}]
    /\ saved \subseteq Users
    /\ up \in BOOLEAN /\ ready \in BOOLEAN
    /\ call \in [op : {"none", "getAccount", "restart", "reload"},
                 id : Users \cup {Nobody},
                 at : {"idle", "launch", "wait", "wallet", "transfers", "check",
                       "recursion", "resync", "granted"}]
    /\ todo \subseteq Users

\* What getAccount promises its caller: the account it returns is in the map, belongs
\* to the user it was asked for, and the process behind it, if it is still alive, has
\* that user's wallet open -- whatever failed in earlier calls, whoever owned the
\* process before, and whether or not two entries came to share a port.
GrantsOwnWallet ==
    call.at \in {"resync", "granted"} =>
        /\ call.id \in RPCMap
        /\ Proc[call.id].owner = call.id
        /\ Served(MyPort) => server[MyPort].wallet = call.id

\* Two cached users never talk to the same wallet process: SpinUpNewRPC gives every
\* port out once and a take-over hands it from one entry to another.
PortsDistinct ==
    \A u, v \in RPCMap : u # v => Proc[u].port # Proc[v].port

\* An entry's pid is the process its port leads to, so killing the one (give-up,
\* restart) frees the other.
PidServesPort ==
    \A u \in RPCMap : Served(Proc[u].port) => Proc[u].pid = "live"

\* The wallet of a cached user stays open until its process dies, or is handed on, or the
\* entry goes: no other user's call opens another wallet in it.
WalletStaysOpen ==
    [][\A u \in RPCMap \cap RPCMap' :
          LET port == Proc[u].port
          IN  Served(port) /\ Served(port)' /\ Proc'[u].port = port
                => (server[port].wallet = u => server'[port].wallet \in {u, Nobody})]_vars

\* Every entry has had a process: Poco::Process::kill is never called with the pid 0,
\* which would end the bot's own process group, by a give-up or a restart.
NeverKillsItself == \A u \in RPCMap : Proc[u].pid # "none"

\* No more than max_rpc_limit users are cached.
WithinLimit == Cardinality(RPCMap) <= Limit

\* A live wallet process that some entry leads to.
Kept(p) == \E u \in RPCMap : Proc[u].port = p

\* As long as the bot is up, the only step that loses track of a live wallet process
\* is the ownership check's abort, which erases the entry without killing anything.
OnlyTheCheckLosesProcesses ==
    [][up /\ up' =>
        \A p \in Ports : Served(p) /\ Kept(p) /\ server'[p].alive /\ ~Kept(p)' =>
            call.at = "check"]_vars

\* "Ensure we destroy the old account": when the map is full, the new user's entry
\* comes with the process of an entry that goes.
OldAccountDestroyed ==
    [][\A u \in Users \ RPCMap :
          ~HasRoom /\ u \in RPCMap' =>
              \E old \in RPCMap \ RPCMap' : Proc'[u].port = Proc[old].port]_vars

=============================================================================
