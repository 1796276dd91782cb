-------------------------- MODULE WalletPoolProofs --------------------------
(***************************************************************************)
(* What getAccount promises, proved for any number of users, ports and      *)
(* entries and for every combination of failures.                           *)
(***************************************************************************)
EXTENDS WalletPool, TLAPS

(* An account names the user its entry belongs to, or nobody if the entry never got a
   process; no entry uses the lottery's port; what happens to a getAccount call happens
   to an entry that is in the map. *)
OwnersMatch ==
    \A u \in Users : \/ Proc[u].owner = u
                     \/ Proc[u].owner = Nobody /\ Proc[u].port = 0
PortsAbove == \A u \in Users : Proc[u].port = 0 \/ Proc[u].port >= StartPort
CallHasEntry ==
    /\ call.op = "getAccount" => call.id \in RPCMap
    /\ call.at \in {"check", "recursion", "resync", "granted"} => call.op = "getAccount"

GrantInv == TypeOK /\ OwnersMatch /\ PortsAbove /\ CallHasEntry /\ GrantsOwnWallet

(* Every port is a positive number. *)
LEMMA PortsPositive == Ports \subseteq Nat \ {0} /\ LotteryPort \in Nat /\ LotteryPort < StartPort
  BY PortAssumption DEF Ports, LotteryPort

(* The operators on the processes keep their types. *)
LEMMA ServerOperators ==
  ASSUME NEW srv \in [Ports -> Process], NEW procs \in [Users -> Entry],
         NEW port, NEW ports, NEW w \in Wallets
  PROVE  /\ Bind(srv, port) \in [Ports -> Process]
         /\ Freed(srv, ports) \in [Ports -> Process]
         /\ Opened(srv, port, w) \in [Ports -> Process]
         /\ Orphaned(procs, ports) \in [Users -> Entry]
         /\ NewPid(srv, port) \in {"live", "gone"}
         /\ Free \in Process /\ NewEntry \in Entry
  <1>1. Free \in Process /\ NewEntry \in Entry
    BY DEF Free, Process, NewEntry, Entry, Wallets
  <1>2. Bind(srv, port) \in [Ports -> Process] /\ Freed(srv, ports) \in [Ports -> Process]
    BY <1>1 DEF Bind, Freed, Process, Wallets
  <1>3. Opened(srv, port, w) \in [Ports -> Process]
    BY DEF Opened, Process
  <1>4. Orphaned(procs, ports) \in [Users -> Entry]
    BY DEF Orphaned, Entry
  <1>5. NewPid(srv, port) \in {"live", "gone"}
    BY DEF NewPid
  <1> QED BY <1>1, <1>2, <1>3, <1>4, <1>5

(* Orphaning an entry changes neither its port nor its owner. *)
LEMMA OrphanedKeeps ==
  ASSUME NEW procs \in [Users -> Entry], NEW ports, NEW u \in Users
  PROVE  /\ Orphaned(procs, ports)[u].port = procs[u].port
         /\ Orphaned(procs, ports)[u].owner = procs[u].owner
  BY DEF Orphaned, Entry

LEMMA TimestampsType ==
  ASSUME TypeOK, NEW u \in Users
  PROVE  Newest(u) \subseteq Users \X Users /\ Without(u) \subseteq Users \X Users
  BY DEF TypeOK, Newest, Without

LEMMA GrantInit == Init => GrantInv
  <1> SUFFICES ASSUME Init PROVE GrantInv OBVIOUS
  <1>1. Free \in Process /\ NewEntry \in Entry
    BY DEF Free, Process, NewEntry, Entry, Wallets
  <1>2. TypeOK
    <2>1. call \in [op : {"none"}, id : {Nobody}, at : {"idle"}]
      BY DEF Init, Idle
    <2>2. currPortNum \in Nat /\ currPortNum >= StartPort
      BY PortAssumption DEF Init
    <2>3. Proc \in [Users -> Entry] /\ server \in [Ports -> Process]
      BY <1>1 DEF Init
    <2>4. up \in BOOLEAN /\ ready \in BOOLEAN
      BY DEF Init
    <2> QED BY <2>1, <2>2, <2>3, <2>4 DEF Init, TypeOK
  <1>3. OwnersMatch /\ PortsAbove /\ CallHasEntry /\ GrantsOwnWallet
    BY DEF Init, OwnersMatch, PortsAbove, CallHasEntry, GrantsOwnWallet, NewEntry, Idle
  <1> QED BY <1>2, <1>3 DEF GrantInv

(* The parts of the invariant that a step must restore, apart from TypeOK. *)
Rest == OwnersMatch /\ PortsAbove /\ CallHasEntry /\ GrantsOwnWallet

LEMMA BotDiesKeeps ==
  ASSUME TypeOK, NEW srv \in [Ports -> Process], BotDies(srv)
  PROVE  TypeOK' /\ Rest'
  <1>1. NewEntry \in Entry
    BY DEF NewEntry, Entry
  <1>2. Proc' \in [Users -> Entry] /\ server' \in [Ports -> Process]
    BY <1>1 DEF BotDies
  <1>3. currPortNum' \in Nat /\ currPortNum' >= StartPort
    BY PortAssumption DEF BotDies
  <1>4. up' \in BOOLEAN /\ ready' \in BOOLEAN
    BY DEF BotDies
  <1>5. TypeOK'
    BY <1>2, <1>3, <1>4 DEF TypeOK, BotDies, diskVars, Idle
  <1>6. Rest'
    BY DEF BotDies, Rest, OwnersMatch, PortsAbove, CallHasEntry, GrantsOwnWallet, NewEntry, Idle
  <1> QED BY <1>5, <1>6

(* How an operation ends: in no step that getAccount's promise speaks of. *)
LEMMA OverKeeps ==
  ASSUME TypeOK, Over
  PROVE  /\ todo' \subseteq Users
         /\ call' \in [op : {"none", "reload"}, id : {Nobody}, at : {"idle", "launch"}]
  BY DEF TypeOK, Over, NextReload, Idle, Begin

LEMMA GetAccountKeeps ==
  ASSUME GrantInv, NEW u \in Users, GetAccount(u)
  PROVE  TypeOK' /\ Rest'
  <1> USE DEF GrantInv
  <1>1. CASE GetAccountHit(u)
    <2>1. TypeOK'
      BY <1>1 DEF GetAccountHit, Begin, TypeOK, poolVars, diskVars, botVars
    <2>2. Rest'
      BY <1>1 DEF GetAccountHit, Begin, Rest, OwnersMatch, PortsAbove, CallHasEntry, GrantsOwnWallet, poolVars
    <2> QED BY <2>1, <2>2
  <1>2. CASE SpinUp(u)
    <2>1. NewPid(server, currPortNum) \in {"live", "gone"} /\ Bind(server, currPortNum) \in [Ports -> Process]
      BY ServerOperators DEF TypeOK, Wallets
    <2>2. currPortNum \in Ports /\ currPortNum # 0
      BY <1>2, PortAssumption DEF SpinUp, TypeOK, Ports, LotteryPort
    <2>3. Proc' \in [Users -> Entry]
      BY <1>2, <2>1, <2>2 DEF SpinUp, TypeOK, Entry
    <2>4. currPortNum' \in Nat /\ currPortNum' >= StartPort
      BY <1>2, PortAssumption DEF SpinUp, TypeOK, NextPort
    <2>5. TypeOK'
      BY <1>2, <2>1, <2>3, <2>4, TimestampsType DEF SpinUp, Begin, TypeOK, diskVars, botVars
    <2>6. Rest'
      BY <1>2, <2>2 DEF SpinUp, Begin, TypeOK, Rest, OwnersMatch, PortsAbove, CallHasEntry, GrantsOwnWallet, Entry
    <2> QED BY <2>5, <2>6
  <1>3. CASE SpinUpThrows(u)
    <2>1. TypeOK'
      BY <1>3 DEF SpinUpThrows, TypeOK, NewEntry, Entry, Newest, Without, diskVars, botVars
    <2>2. Rest'
      BY <1>3 DEF SpinUpThrows, Asked, Available, Idle, TypeOK, Rest, OwnersMatch, PortsAbove, CallHasEntry, GrantsOwnWallet, NewEntry
    <2> QED BY <2>1, <2>2
  <1>4. ASSUME NEW old \in Users, TakeOver(u, old) PROVE TypeOK' /\ Rest'
    <2>1. TypeOK'
      BY <1>4 DEF TakeOver, HandedOn, Victim, Begin, TypeOK, NewEntry, Entry, diskVars, botVars
    <2>2. Rest'
      BY <1>4 DEF TakeOver, HandedOn, Victim, Begin, TypeOK, Rest, OwnersMatch, PortsAbove, CallHasEntry, GrantsOwnWallet, NewEntry, Entry
    <2> QED BY <2>1, <2>2
  <1> QED BY <1>1, <1>2, <1>3, <1>4 DEF GetAccount

LEMMA SetUpKeeps ==
  ASSUME GrantInv, SetUp
  PROVE  TypeOK' /\ Rest'
  <1> USE DEF GrantInv
  <1>0. call.id \in Users \/ call.id = Nobody
    BY DEF TypeOK
  <1>1. CASE Responds
    <2>1. TypeOK'
      BY <1>1 DEF Responds, Step, TypeOK, poolVars, diskVars, botVars
    <2>2. Rest'
      BY <1>1 DEF Responds, Step, TypeOK, Rest, OwnersMatch, PortsAbove, CallHasEntry, GrantsOwnWallet, poolVars
    <2> QED BY <2>1, <2>2
  <1>2. CASE GivesUp
    <2>1. Freed(server, KillPorts(call.id)) \in [Ports -> Process]
      BY ServerOperators DEF TypeOK, Wallets
    <2>2. CASE /\ server' = Freed(server, KillPorts(call.id))
               /\ Erase(call.id, KillPorts(call.id))
               /\ Over
               /\ UNCHANGED <<currPortNum, diskVars, botVars>>
      <3> DEFINE procs == Orphaned(Proc, KillPorts(call.id))
      <3>1. procs \in [Users -> Entry]
        BY ServerOperators DEF TypeOK, Wallets
      <3>2. NewEntry \in Entry
        BY DEF NewEntry, Entry
      <3>3. Proc' = [procs EXCEPT ![call.id] = NewEntry] /\ Proc' \in [Users -> Entry]
        BY <2>2, <3>1, <3>2 DEF Erase
      <3>4. RPCMap' \subseteq Users /\ older' \subseteq Users \X Users
        BY <2>2 DEF Erase, Without, TypeOK
      <3>5. TypeOK'
        BY <2>1, <2>2, <3>3, <3>4, OverKeeps DEF TypeOK, diskVars, botVars
      <3>6. \A v \in Users : \/ Proc'[v] = NewEntry
                             \/ Proc'[v].port = Proc[v].port /\ Proc'[v].owner = Proc[v].owner
        BY <3>1, <3>3, OrphanedKeeps DEF TypeOK
      <3>7. OwnersMatch' /\ PortsAbove'
        BY <3>6 DEF OwnersMatch, PortsAbove, NewEntry
      <3>8. CallHasEntry' /\ GrantsOwnWallet'
        BY <2>2, OverKeeps DEF CallHasEntry, GrantsOwnWallet
      <3> QED BY <3>5, <3>7, <3>8 DEF Rest
    <2>3. CASE Over /\ UNCHANGED <<poolVars, server, diskVars, botVars>>
      <3>1. TypeOK'
        BY <2>3, OverKeeps DEF TypeOK, poolVars, diskVars, botVars
      <3>2. Rest'
        BY <2>3, OverKeeps DEF Rest, OwnersMatch, PortsAbove, CallHasEntry, GrantsOwnWallet, poolVars
      <3> QED BY <3>1, <3>2
    <2>4. CASE BotDies(Freed(server, KillPorts(call.id)))
      BY <2>1, <2>4, BotDiesKeeps
    <2> QED BY <1>2, <2>2, <2>3, <2>4 DEF GivesUp
  <1>3. CASE CreateWallet
    <2>1. Opened(server, MyPort, call.id) \in [Ports -> Process]
      BY <1>0, ServerOperators DEF TypeOK, Wallets
    <2>2. TypeOK'
      BY <1>3, <2>1 DEF CreateWallet, TypeOK, poolVars, botVars
    <2>3. Rest'
      BY <1>3 DEF CreateWallet, TypeOK, Rest, OwnersMatch, PortsAbove, CallHasEntry, GrantsOwnWallet, poolVars
    <2> QED BY <2>2, <2>3
  <1>4. CASE CreateWithoutAddress
    <2>1. Opened(server, MyPort, call.id) \in [Ports -> Process]
      BY <1>0, ServerOperators DEF TypeOK, Wallets
    <2>2. TypeOK'
      BY <1>4, <2>1, OverKeeps DEF CreateWithoutAddress, TypeOK, poolVars, botVars
    <2>3. Rest'
      BY <1>4, OverKeeps DEF CreateWithoutAddress, TypeOK, Rest, OwnersMatch, PortsAbove, CallHasEntry, GrantsOwnWallet, poolVars
    <2> QED BY <2>2, <2>3
  <1>5. CASE OpenWallet
    <2>1. Opened(server, MyPort, call.id) \in [Ports -> Process]
      BY <1>0, ServerOperators DEF TypeOK, Wallets
    <2>2. TypeOK'
      BY <1>5, <2>1 DEF OpenWallet, Step, TypeOK, poolVars, diskVars, botVars
    <2>3. Rest'
      BY <1>5 DEF OpenWallet, Step, TypeOK, Rest, OwnersMatch, PortsAbove, CallHasEntry, GrantsOwnWallet, poolVars
    <2> QED BY <2>2, <2>3
  <1>6. CASE LoadTransfers
    <2>1. currPortNum' \in Nat /\ currPortNum' >= StartPort
      BY <1>6, PortAssumption DEF LoadTransfers, TypeOK, NextPort
    <2>2. /\ todo' \subseteq Users
          /\ \/ call' \in [op : {"none", "reload"}, id : {Nobody}, at : {"idle", "launch"}]
             \/ call.op = "getAccount" /\ call' = Step("check")
      BY <1>6, OverKeeps DEF LoadTransfers, TypeOK
    <2>3. TypeOK'
      BY <1>6, <2>1, <2>2 DEF LoadTransfers, Step, TypeOK, diskVars, botVars
    <2>4. Rest'
      BY <1>6, <2>2 DEF LoadTransfers, Step, TypeOK, Rest, OwnersMatch, PortsAbove, CallHasEntry, GrantsOwnWallet
    <2> QED BY <2>3, <2>4
  <1>7. CASE RequestFails
    <2>1. TypeOK'
      BY <1>7, OverKeeps DEF RequestFails, TypeOK, poolVars, diskVars, botVars
    <2>2. Rest'
      BY <1>7, OverKeeps DEF RequestFails, Rest, OwnersMatch, PortsAbove, CallHasEntry, GrantsOwnWallet, poolVars
    <2> QED BY <2>1, <2>2
  <1> QED BY <1>1, <1>2, <1>3, <1>4, <1>5, <1>6, <1>7 DEF SetUp

LEMMA CheckKeeps ==
  ASSUME GrantInv, Check \/ Resync \/ Return
  PROVE  TypeOK' /\ Rest'
  <1> USE DEF GrantInv
  <1>1. CASE CheckPasses
    <2>1. TypeOK'
      BY <1>1, TimestampsType DEF CheckPasses, Step, TypeOK, diskVars, botVars, CallHasEntry
    <2>2. call.id \in RPCMap /\ call.id \in Users /\ MyPort # 0
      BY <1>1, PortsPositive DEF CheckPasses, CallHasEntry, Served, TypeOK
    <2>3. Proc[call.id].owner = call.id
      BY <2>2 DEF OwnersMatch, MyPort
    <2>4. Rest'
      BY <1>1, <2>2, <2>3 DEF CheckPasses, OwnsWallet, Step, TypeOK, Rest, OwnersMatch, PortsAbove,
                         CallHasEntry, GrantsOwnWallet, MyPort, Served
    <2> QED BY <2>1, <2>4
  <1>2. CASE CheckAborts
    <2>1. Proc' = [Orphaned(Proc, {}) EXCEPT ![call.id] = NewEntry] /\ Orphaned(Proc, {}) \in [Users -> Entry]
      BY <1>2, ServerOperators DEF CheckAborts, Erase, TypeOK, Wallets
    <2>2. /\ Proc' \in [Users -> Entry]
          /\ RPCMap' \subseteq Users /\ older' \subseteq Users \X Users
      <3>1. NewEntry \in Entry
        BY DEF NewEntry, Entry
      <3>2. Proc' \in [Users -> Entry]
        BY <2>1, <3>1
      <3>3. RPCMap' \subseteq Users /\ older' \subseteq Users \X Users
        BY <1>2 DEF CheckAborts, Erase, Without, TypeOK
      <3> QED BY <3>2, <3>3
    <2>3. TypeOK'
      BY <1>2, <2>2 DEF CheckAborts, TypeOK, Idle, diskVars, botVars
    <2>4. \A v \in Users : \/ Proc'[v] = NewEntry
                           \/ Proc'[v].port = Proc[v].port /\ Proc'[v].owner = Proc[v].owner
      BY <2>1, OrphanedKeeps DEF TypeOK
    <2>5. Rest'
      BY <1>2, <2>4 DEF CheckAborts, Idle, Rest, OwnersMatch, PortsAbove, CallHasEntry, GrantsOwnWallet, NewEntry
    <2> QED BY <2>3, <2>5
  <1>3. CASE CheckThrows \/ Return
    <2>1. TypeOK'
      BY <1>3 DEF CheckThrows, Return, TypeOK, Idle, poolVars, diskVars, botVars
    <2>2. Rest'
      BY <1>3 DEF CheckThrows, Return, Idle, Rest, OwnersMatch, PortsAbove, CallHasEntry, GrantsOwnWallet, poolVars
    <2> QED BY <2>1, <2>2
  <1>4. CASE CheckRecurses
    <2>1. TypeOK'
      BY <1>4 DEF CheckRecurses, Step, TypeOK, poolVars, diskVars, botVars
    <2>2. Rest'
      BY <1>4 DEF CheckRecurses, Step, TypeOK, Rest, OwnersMatch, PortsAbove, CallHasEntry, GrantsOwnWallet, poolVars
    <2> QED BY <2>1, <2>2
  <1>5. CASE StackOverflow
    BY <1>5, BotDiesKeeps DEF StackOverflow, TypeOK
  <1>6. CASE Resync
    <2>1. TypeOK'
      BY <1>6 DEF Resync, Step, TypeOK, poolVars, diskVars, botVars
    <2>2. Rest'
      BY <1>6 DEF Resync, Step, TypeOK, Rest, OwnersMatch, PortsAbove, CallHasEntry, GrantsOwnWallet,
                  MyPort, Served, poolVars
    <2> QED BY <2>1, <2>2
  <1> QED BY <1>1, <1>2, <1>3, <1>4, <1>5, <1>6 DEF Check

LEMMA RestartKeeps ==
  ASSUME GrantInv, NEW u \in Users, RestartWallet(u) \/ RestartThrows(u)
  PROVE  TypeOK' /\ Rest'
  <1> USE DEF GrantInv
  <1> DEFINE killed == Freed(server, KillPorts(u))
             procs == Orphaned(Proc, KillPorts(u))
  <1>1. killed \in [Ports -> Process] /\ procs \in [Users -> Entry]
    BY ServerOperators DEF TypeOK, Wallets
  <1>2. \A v \in Users : procs[v].port = Proc[v].port /\ procs[v].owner = Proc[v].owner
    BY OrphanedKeeps DEF TypeOK
  <1>3. CASE RestartWallet(u)
    <2> DEFINE port == Proc[u].port
               entry == [pid |-> NewPid(killed, port), port |-> port, owner |-> u]
    <2>1. Bind(killed, port) \in [Ports -> Process] /\ NewPid(killed, port) \in {"live", "gone"}
      BY <1>1, ServerOperators DEF TypeOK, Wallets
    <2>2. port \in Ports \cup {0}
      BY DEF TypeOK, Entry
    <2>3. entry \in Entry
      BY <2>1, <2>2 DEF Entry
    <2>4. Proc' = [procs EXCEPT ![u] = entry] /\ server' = Bind(killed, port)
      BY <1>3 DEF RestartWallet
    <2>5. Proc' \in [Users -> Entry] /\ server' \in [Ports -> Process]
      BY <1>1, <2>1, <2>3, <2>4
    <2>6. TypeOK'
      BY <1>3, <2>5 DEF RestartWallet, Begin, TypeOK, diskVars, botVars
    <2>7. \A v \in Users : /\ Proc'[v].port = Proc[v].port
                           /\ Proc'[v].owner = Proc[v].owner \/ Proc'[v].owner = v
      BY <1>1, <1>2, <2>4
    <2>8. Rest'
      BY <1>3, <2>7 DEF RestartWallet, Begin, Rest, OwnersMatch, PortsAbove, CallHasEntry, GrantsOwnWallet
    <2> QED BY <2>6, <2>8
  <1>4. CASE RestartThrows(u)
    <2>1. TypeOK'
      BY <1>1, <1>4 DEF RestartThrows, TypeOK, diskVars, botVars
    <2>2. Rest'
      BY <1>2, <1>4 DEF RestartThrows, Available, Idle, Rest, OwnersMatch, PortsAbove, CallHasEntry,
                        GrantsOwnWallet
    <2> QED BY <2>1, <2>2
  <1> QED BY <1>3, <1>4

LEMMA LifeKeeps ==
  ASSUME GrantInv, KillsOwnGroup \/ ManuallyCreateRPC \/ Save \/ Shutdown \/ Start \/ BotCrash
  PROVE  TypeOK' /\ Rest'
  <1> USE DEF GrantInv
  <1>1. CASE KillsOwnGroup
    <2>1. [p \in Ports |-> Free] \in [Ports -> Process]
      BY ServerOperators DEF TypeOK, Wallets
    <2> QED BY <1>1, <2>1, BotDiesKeeps DEF KillsOwnGroup
  <1>2. CASE ManuallyCreateRPC
    <2> DEFINE bound == Bind(server, LotteryPort)
    <2>1. /\ bound \in [Ports -> Process]
          /\ Opened(bound, LotteryPort, LotteryWallet) \in [Ports -> Process]
      BY ServerOperators DEF TypeOK, Wallets
    <2>2. server' \in [Ports -> Process] /\ ready' \in BOOLEAN
      BY <1>2, <2>1 DEF ManuallyCreateRPC
    <2>3. TypeOK'
      BY <1>2, <2>2 DEF ManuallyCreateRPC, TypeOK, poolVars, diskVars
    <2>4. \A p \in Ports : p # LotteryPort => server'[p] = server[p]
      BY <1>2 DEF ManuallyCreateRPC, Bind, Opened, TypeOK
    <2>5. \A v \in Users : Proc[v].port # LotteryPort
      BY PortsPositive, PortAssumption DEF PortsAbove, TypeOK, LotteryPort
    <2>6. GrantsOwnWallet'
      <3> SUFFICES ASSUME call.at \in {"resync", "granted"}
                   PROVE  GrantsOwnWallet'
        BY <1>2 DEF ManuallyCreateRPC, GrantsOwnWallet
      <3>1. call.id \in Users /\ MyPort # LotteryPort
        BY <2>5 DEF GrantsOwnWallet, TypeOK, MyPort
      <3>2. MyPort' = MyPort /\ (Served(MyPort)' => server'[MyPort] = server[MyPort] /\ Served(MyPort))
        BY <1>2, <2>4, <3>1 DEF ManuallyCreateRPC, MyPort, Served, poolVars
      <3> QED BY <1>2, <3>2 DEF ManuallyCreateRPC, GrantsOwnWallet, poolVars
    <2>7. OwnersMatch' /\ PortsAbove' /\ CallHasEntry'
      BY <1>2 DEF ManuallyCreateRPC, OwnersMatch, PortsAbove, CallHasEntry, poolVars
    <2> QED BY <2>3, <2>6, <2>7 DEF Rest
  <1>3. CASE Save
    <2>1. TypeOK'
      BY <1>3 DEF Save, TypeOK, poolVars, botVars
    <2>2. Rest'
      BY <1>3 DEF Save, Rest, OwnersMatch, PortsAbove, CallHasEntry, GrantsOwnWallet, poolVars, MyPort, Served
    <2> QED BY <2>1, <2>2
  <1>4. CASE Shutdown
    <2>1. server' \in [Ports -> Process]
      BY <1>4, ServerOperators DEF Shutdown, TypeOK, Wallets
    <2>2. Proc' \in [Users -> Entry]
      BY <1>4, ServerOperators DEF Shutdown, TypeOK, Wallets
    <2>3. currPortNum' \in Nat /\ currPortNum' >= StartPort
      BY <1>4, PortAssumption DEF Shutdown
    <2>4. up' \in BOOLEAN /\ ready' \in BOOLEAN
      BY <1>4 DEF Shutdown
    <2>5. TypeOK'
      BY <1>4, <2>1, <2>2, <2>3, <2>4 DEF Shutdown, TypeOK
    <2>6. Rest'
      BY <1>4 DEF Shutdown, Available, Idle, Rest, OwnersMatch, PortsAbove, CallHasEntry, GrantsOwnWallet,
                  NewEntry
    <2> QED BY <2>5, <2>6
  <1>5. CASE Start
    <2>1. Proc' \in [Users -> Entry]
      BY <1>5, ServerOperators DEF Start, TypeOK, Wallets
    <2>2. currPortNum' \in Nat /\ currPortNum' >= StartPort
      BY <1>5, PortAssumption DEF Start
    <2>3. up' \in BOOLEAN
      BY <1>5 DEF Start
    <2>4. TypeOK'
      BY <1>5, <2>1, <2>2, <2>3 DEF Start, TypeOK, NextReload, Idle, Begin, diskVars
    <2>5. Rest'
      BY <1>5 DEF Start, NextReload, Idle, Begin, Rest, OwnersMatch, PortsAbove, CallHasEntry,
                  GrantsOwnWallet, NewEntry
    <2> QED BY <2>4, <2>5
  <1>6. CASE BotCrash
    BY <1>6, BotDiesKeeps DEF BotCrash, TypeOK
  <1> QED BY <1>1, <1>2, <1>3, <1>4, <1>5, <1>6

LEMMA ReloadKeeps ==
  ASSUME GrantInv, NEW u \in Users, ReloadLaunch(u) \/ ReloadThrows(u)
  PROVE  TypeOK' /\ Rest'
  <1> USE DEF GrantInv
  <1>1. CASE ReloadLaunch(u)
    <2> DEFINE entry == [pid |-> NewPid(server, currPortNum), port |-> currPortNum, owner |-> u]
    <2>1. Bind(server, currPortNum) \in [Ports -> Process] /\ NewPid(server, currPortNum) \in {"live", "gone"}
      BY ServerOperators DEF TypeOK, Wallets
    <2>2. currPortNum \in Ports /\ currPortNum >= StartPort
      BY <1>1, PortAssumption DEF ReloadLaunch, TypeOK, Ports, LotteryPort
    <2>3. entry \in Entry
      BY <2>1, <2>2 DEF Entry
    <2>4. Proc' = [Proc EXCEPT ![u] = entry]
      BY <1>1 DEF ReloadLaunch
    <2>5. Proc' \in [Users -> Entry]
      BY <2>3, <2>4 DEF TypeOK
    <2>6. TypeOK'
      BY <1>1, <2>1, <2>5 DEF ReloadLaunch, Begin, TypeOK, diskVars, botVars
    <2>7. Rest'
      BY <1>1, <2>2, <2>4 DEF ReloadLaunch, Begin, TypeOK, Rest, OwnersMatch, PortsAbove, CallHasEntry,
                              GrantsOwnWallet
    <2> QED BY <2>6, <2>7
  <1>2. CASE ReloadThrows(u)
    <2>1. TypeOK'
      BY <1>2 DEF ReloadThrows, NextReload, Idle, Begin, TypeOK, poolVars, diskVars, botVars
    <2>2. Rest'
      BY <1>2 DEF ReloadThrows, NextReload, Idle, Begin, Rest, OwnersMatch, PortsAbove, CallHasEntry,
                  GrantsOwnWallet, poolVars
    <2> QED BY <2>1, <2>2
  <1> QED BY <1>1, <1>2

LEMMA CrashKeeps ==
  ASSUME GrantInv, NEW p \in Ports, ProcessCrash(p)
  PROVE  TypeOK' /\ Rest'
  <1> USE DEF GrantInv
  <1>1. Freed(server, {p}) \in [Ports -> Process] /\ Orphaned(Proc, {p}) \in [Users -> Entry]
    BY ServerOperators DEF TypeOK, Wallets
  <1>2. \A v \in Users : Proc'[v].port = Proc[v].port /\ Proc'[v].owner = Proc[v].owner
    BY OrphanedKeeps DEF ProcessCrash, TypeOK
  <1>3. TypeOK'
    BY <1>1 DEF ProcessCrash, TypeOK, diskVars, botVars
  <1>4. OwnersMatch' /\ PortsAbove' /\ CallHasEntry'
    BY <1>2 DEF ProcessCrash, OwnersMatch, PortsAbove, CallHasEntry
  <1>5. GrantsOwnWallet'
    <2> SUFFICES ASSUME call.at \in {"resync", "granted"}
                 PROVE  GrantsOwnWallet'
      BY DEF ProcessCrash, GrantsOwnWallet
    <2>1. call' = call /\ call.id \in RPCMap /\ call.id \in Users
      BY DEF ProcessCrash, GrantsOwnWallet, TypeOK
    <2>2. MyPort' = MyPort
      BY <1>2, <2>1 DEF MyPort
    <2>3. Served(MyPort)' => Served(MyPort) /\ server'[MyPort] = server[MyPort]
      BY <2>2 DEF ProcessCrash, Served, Freed, Free
    <2> QED BY <1>2, <2>1, <2>2, <2>3 DEF ProcessCrash, GrantsOwnWallet
  <1> QED BY <1>3, <1>4, <1>5 DEF Rest

LEMMA GrantStep == GrantInv /\ [Next]_vars => GrantInv'
  <1> SUFFICES ASSUME GrantInv, [Next]_vars PROVE TypeOK' /\ Rest'
    BY DEF GrantInv, Rest
  <1>1. ASSUME NEW u \in Users, GetAccount(u) PROVE TypeOK' /\ Rest'
    BY <1>1, GetAccountKeeps
  <1>2. ASSUME NEW u \in Users, RestartWallet(u) \/ RestartThrows(u) PROVE TypeOK' /\ Rest'
    BY <1>2, RestartKeeps
  <1>3. CASE SetUp
    BY <1>3, SetUpKeeps
  <1>4. CASE Check \/ Resync \/ Return
    BY <1>4, CheckKeeps
  <1>5. CASE KillsOwnGroup \/ ManuallyCreateRPC \/ Save \/ Shutdown \/ Start \/ BotCrash
    BY <1>5, LifeKeeps
  <1>6. ASSUME NEW u \in Users, ReloadLaunch(u) \/ ReloadThrows(u) PROVE TypeOK' /\ Rest'
    BY <1>6, ReloadKeeps
  <1>7. ASSUME NEW p \in Ports, ProcessCrash(p) PROVE TypeOK' /\ Rest'
    BY <1>7, CrashKeeps
  <1>8. CASE UNCHANGED vars
    <2>1. TypeOK'
      BY <1>8 DEF GrantInv, TypeOK, vars, poolVars, diskVars, botVars
    <2>2. Rest'
      BY <1>8 DEF GrantInv, Rest, OwnersMatch, PortsAbove, CallHasEntry, GrantsOwnWallet, MyPort, Served,
                  vars, poolVars, diskVars, botVars
    <2> QED BY <2>1, <2>2
  <1> QED BY <1>1, <1>2, <1>3, <1>4, <1>5, <1>6, <1>7, <1>8 DEF Next

(* getAccount never hands out an account whose process has somebody else's wallet open,
   for any number of users and whatever combination of launches, requests, processes,
   restarts and crashes fails (RPCManager::getAccount with its ownership check). *)
THEOREM GrantsOwnWalletAlways == Spec => [](TypeOK /\ GrantsOwnWallet)
  <1>1. GrantInv => TypeOK /\ GrantsOwnWallet
    BY DEF GrantInv
  <1> QED BY <1>1, GrantInit, GrantStep, PTL DEF Spec

=============================================================================
