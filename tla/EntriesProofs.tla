--------------------------- MODULE EntriesProofs ---------------------------
(***************************************************************************)
(* How entries, ports and processes belong together as long as the bot      *)
(* itself is not restarted and launching a process does not throw: proved   *)
(* for any number of users, ports and entries, whatever becomes of the      *)
(* wallet processes.                                                        *)
(***************************************************************************)
EXTENDS WalletPoolProofs, FiniteSetTheorems

(* What the restarts and the throwing launches would break. *)
BotRunsOn == Faults \cap {"launch", "bot", "restart"} = {}

(* Every entry has had a process, on a port that was given out once. *)
Launched ==
    \A u \in RPCMap : /\ Proc[u].pid # "none"
                      /\ Proc[u].port >= StartPort /\ Proc[u].port < currPortNum

(* Nobody listens yet on the ports that come next. *)
NextPortsFree == up => \A p \in Ports : p >= currPortNum => ~server[p].alive

(* Nothing is ever reloaded, and an operation has an entry. *)
NoReload ==
    /\ call.op \notin {"reload"} /\ call.at # "launch" /\ todo = {}
    /\ call.op # "none" => call.id \in RPCMap
    /\ call.op = "none" => call.at = "idle"

EntriesOK == Launched /\ PortsDistinct /\ PidServesPort /\ NextPortsFree
Bounded == IsFiniteSet(RPCMap) /\ WithinLimit
EntryInv == GrantInv /\ EntriesOK /\ NoReload /\ Bounded

LEMMA EntryInit == Init => EntryInv
  <1> SUFFICES ASSUME Init PROVE EntryInv OBVIOUS
  <1>1. GrantInv
    BY GrantInit
  <1>2. EntriesOK
    BY DEF Init, EntriesOK, Launched, PortsDistinct, PidServesPort, NextPortsFree, Free
  <1>3. NoReload
    BY DEF Init, NoReload, Idle
  <1>4. Bounded
    BY FS_EmptySet, LimitAssumption DEF Init, Bounded, WithinLimit
  <1> QED BY <1>1, <1>2, <1>3, <1>4 DEF EntryInv

-----------------------------------------------------------------------------
(* The ways in which steps touch the entries. *)

(* A step that keeps the entries, and starts no process but the lottery's. *)
LEMMA SameEntries ==
  ASSUME EntryInv, UNCHANGED <<RPCMap, Proc, currPortNum>>, up' => up,
         \A p \in Ports : p >= StartPort /\ server'[p].alive => server[p].alive
  PROVE  EntriesOK' /\ Bounded'
  <1> USE DEF EntryInv, EntriesOK
  <1>1. Launched' /\ PortsDistinct' /\ Bounded'
    BY DEF Launched, PortsDistinct, Bounded, WithinLimit
  <1>2. PidServesPort'
    BY DEF PidServesPort, Served, Launched
  <1>3. NextPortsFree'
    BY PortAssumption DEF NextPortsFree, GrantInv, TypeOK, Ports, LotteryPort
  <1> QED BY <1>1, <1>2, <1>3

(* Processes die, and the entries that led to them know; u's entry may go. *)
LEMMA FewerEntries ==
  ASSUME EntryInv, NEW ports, NEW gone \in SUBSET Users, UNCHANGED currPortNum, up' => up,
         server' = Freed(server, ports), RPCMap' = RPCMap \ gone,
         \A v \in Users \ gone : Proc'[v] = Orphaned(Proc, ports)[v]
  PROVE  EntriesOK' /\ Bounded'
  <1> USE DEF EntryInv, EntriesOK
  <1>1. RPCMap' \subseteq RPCMap /\ RPCMap \subseteq Users
    BY DEF GrantInv, TypeOK
  <1>2. \A v \in RPCMap' :
          /\ v \in Users
          /\ Proc'[v].port = Proc[v].port
          /\ Proc[v].pid # "none" => Proc'[v].pid # "none"
          /\ Proc'[v].pid = Proc[v].pid \/ Proc[v].port \in ports
    <2> SUFFICES ASSUME NEW v \in Users, Proc'[v] = Orphaned(Proc, ports)[v]
                 PROVE  /\ Proc'[v].port = Proc[v].port
                        /\ Proc[v].pid # "none" => Proc'[v].pid # "none"
                        /\ Proc'[v].pid = Proc[v].pid \/ Proc[v].port \in ports
      BY <1>1
    <2>1. Proc[v] \in Entry
      BY DEF GrantInv, TypeOK
    <2> QED BY <2>1 DEF Orphaned, Entry
  <1>3. \A p \in Ports : server'[p].alive => server[p].alive /\ p \notin ports
    BY DEF Freed, Free
  <1>4. Launched' /\ PortsDistinct'
    BY <1>1, <1>2 DEF Launched, PortsDistinct
  <1>5. PidServesPort'
    BY <1>1, <1>2, <1>3 DEF PidServesPort, Served
  <1>6. NextPortsFree'
    BY <1>3 DEF NextPortsFree
  <1>7. Bounded'
    <2>1. IsFiniteSet(RPCMap') /\ Cardinality(RPCMap') <= Cardinality(RPCMap)
      BY <1>1, FS_Subset DEF Bounded
    <2>2. Cardinality(RPCMap) \in Nat /\ Cardinality(RPCMap') \in Nat
      BY <2>1, FS_CardinalityType DEF Bounded
    <2> QED BY <2>1, <2>2, LimitAssumption DEF Bounded, WithinLimit
  <1> QED BY <1>4, <1>5, <1>6, <1>7

LEMMA NoEntries ==
  ASSUME EntryInv, NEW srv, BotDies(srv)
  PROVE  EntriesOK' /\ Bounded' /\ NoReload'
  <1>1. EntriesOK'
    BY DEF BotDies, EntriesOK, Launched, PortsDistinct, PidServesPort, NextPortsFree
  <1>2. Bounded'
    BY FS_EmptySet, LimitAssumption DEF BotDies, Bounded, WithinLimit
  <1>3. NoReload'
    BY DEF BotDies, NoReload, Idle
  <1> QED BY <1>1, <1>2, <1>3

(* Without a reload, an operation that is over leaves nothing. *)
LEMMA OverIsIdle == ASSUME NoReload, Over PROVE call' = Idle /\ todo' = {}
  BY DEF NoReload, Over

LEMMA IdleNoReload == ASSUME call' = Idle, todo' = {} PROVE NoReload'
  BY DEF NoReload, Idle

-----------------------------------------------------------------------------
(* Every step keeps the invariant. *)

LEMMA AskEntries ==
  ASSUME BotRunsOn, EntryInv, NEW u \in Users, GetAccount(u)
  PROVE  EntriesOK' /\ Bounded' /\ NoReload'
  <1> USE DEF EntryInv
  <1>1. ~SpinUpThrows(u)
    BY DEF BotRunsOn, SpinUpThrows
  <1>2. CASE GetAccountHit(u)
    <2>1. EntriesOK' /\ Bounded'
      BY <1>2, SameEntries DEF GetAccountHit, poolVars, botVars
    <2>2. NoReload'
      BY <1>2 DEF GetAccountHit, Begin, NoReload, poolVars
    <2> QED BY <2>1, <2>2
  <1>3. CASE SpinUp(u)
    <2>1. /\ up /\ u \notin RPCMap /\ RPCMap' = RPCMap \cup {u}
          /\ currPortNum \in Nat /\ StartPort \in Nat /\ currPortNum >= StartPort
          /\ currPortNum \in Ports /\ ~server[currPortNum].alive
          /\ currPortNum' = currPortNum + 1
      BY <1>3, PortAssumption DEF SpinUp, Asked, Available, EntriesOK, NextPortsFree, GrantInv, TypeOK, Ports,
                                  LotteryPort, NextPort
    <2>2. /\ Proc'[u] = [pid |-> "live", port |-> currPortNum, owner |-> u]
          /\ \A v \in Users \ {u} : Proc'[v] = Proc[v]
      <3>1. NewPid(server, currPortNum) = "live"
        BY <2>1 DEF NewPid
      <3> QED BY <1>3, <3>1 DEF SpinUp, GrantInv, TypeOK
    <2>3. \A p \in Ports : server'[p].alive => server[p].alive \/ p = currPortNum
      BY <1>3 DEF SpinUp, Bind
    <2>4. RPCMap \subseteq Users /\ \A v \in RPCMap : Proc[v].port \in Nat
      <3>1. RPCMap \subseteq Users /\ Proc \in [Users -> Entry]
        BY DEF GrantInv, TypeOK
      <3>2. ASSUME NEW e \in Entry PROVE e.port \in Nat
        <4>1. e.port \in Ports \cup {0}
          BY DEF Entry
        <4>2. 0 \in Nat /\ \A p \in Ports : p \in Nat
          BY PortsPositive
        <4> QED BY <4>1, <4>2
      <3> QED BY <3>1, <3>2
    <2>5. Launched'
      BY <2>1, <2>2, <2>4 DEF EntriesOK, Launched
    <2>6. PortsDistinct'
      BY <2>1, <2>2, <2>4 DEF EntriesOK, Launched, PortsDistinct
    <2>7. PidServesPort'
      BY <2>1, <2>2, <2>3, <2>4 DEF EntriesOK, Launched, PidServesPort, Served
    <2>8. NextPortsFree'
      BY <2>1, <2>3, PortsPositive DEF EntriesOK, NextPortsFree
    <2>9. Bounded'
      <3>1. IsFiniteSet(RPCMap') /\ Cardinality(RPCMap') = Cardinality(RPCMap) + 1
        BY <2>1, FS_AddElement DEF Bounded
      <3>2. Cardinality(RPCMap) \in Nat /\ Cardinality(RPCMap) < Limit
        BY <1>3, FS_CardinalityType DEF SpinUp, HasRoom, Bounded
      <3> QED BY <3>1, <3>2, LimitAssumption DEF Bounded, WithinLimit
    <2>10. NoReload'
      BY <1>3 DEF SpinUp, Begin, NoReload
    <2> QED BY <2>5, <2>6, <2>7, <2>8, <2>9, <2>10 DEF EntriesOK
  <1>4. ASSUME NEW old \in Users, TakeOver(u, old) PROVE EntriesOK' /\ Bounded' /\ NoReload'
    <2>1. old \in RPCMap /\ u \notin RPCMap /\ RPCMap \subseteq Users
      BY <1>4 DEF TakeOver, IsOldest, GrantInv, TypeOK
    <2>2. Victim(old) = old
      <3>1. Proc[old].port # 0
        BY <2>1, PortAssumption DEF EntriesOK, Launched
      <3> QED BY <2>1, <3>1 DEF Victim, GrantInv, OwnersMatch
    <2>3. /\ RPCMap' = (RPCMap \ {old}) \cup {u} /\ UNCHANGED <<currPortNum, server, up, todo>>
          /\ Proc'[u].pid = Proc[old].pid /\ Proc'[u].port = Proc[old].port
          /\ \A v \in RPCMap \ {old} : Proc'[v] = Proc[v]
      BY <1>4, <2>1, <2>2 DEF TakeOver, HandedOn, GrantInv, TypeOK, Entry, botVars
    <2>4. EntriesOK'
      BY <2>1, <2>3 DEF EntriesOK, Launched, PortsDistinct, PidServesPort, NextPortsFree, Served
    <2>5. Bounded'
      <3>1. IsFiniteSet(RPCMap \ {old}) /\ Cardinality(RPCMap \ {old}) = Cardinality(RPCMap) - 1
        BY <2>1, FS_RemoveElement DEF Bounded
      <3>2. IsFiniteSet(RPCMap') /\ Cardinality(RPCMap') = Cardinality(RPCMap \ {old}) + 1
        BY <2>1, <2>3, <3>1, FS_AddElement
      <3>3. Cardinality(RPCMap) \in Nat
        BY FS_CardinalityType DEF Bounded
      <3> QED BY <3>1, <3>2, <3>3 DEF Bounded, WithinLimit
    <2>6. NoReload'
      BY <1>4, <2>3 DEF TakeOver, Begin, NoReload
    <2> QED BY <2>4, <2>5, <2>6
  <1> QED BY <1>1, <1>2, <1>3, <1>4 DEF GetAccount

LEMMA SetUpEntries ==
  ASSUME EntryInv, SetUp
  PROVE  EntriesOK' /\ Bounded' /\ NoReload'
  <1> USE DEF EntryInv
  <1>1. call.op \in {"getAccount", "restart"} /\ call.id \in RPCMap /\ call.id \in Users
    BY DEF NoReload, GrantInv, TypeOK, SetUp, Responds, GivesUp, CreateWallet, CreateWithoutAddress,
           OpenWallet, LoadTransfers, RequestFails
  <1>2. ASSUME NEW w, NEW port PROVE \A p \in Ports : Opened(server, port, w)[p].alive = server[p].alive
    BY DEF Opened, GrantInv, TypeOK, Process
  <1>3. CASE Responds \/ CreateWallet \/ OpenWallet
    <2>1. EntriesOK' /\ Bounded'
      BY <1>2, <1>3, SameEntries DEF Responds, CreateWallet, OpenWallet, poolVars, botVars
    <2>2. NoReload'
      BY <1>3 DEF Responds, CreateWallet, OpenWallet, Step, NoReload, GrantInv, TypeOK, poolVars
    <2> QED BY <2>1, <2>2
  <1>4. CASE CreateWithoutAddress \/ RequestFails
    <2>1. EntriesOK' /\ Bounded'
      BY <1>2, <1>4, SameEntries DEF CreateWithoutAddress, RequestFails, poolVars, botVars
    <2>2. NoReload'
      BY <1>4, OverIsIdle, IdleNoReload DEF CreateWithoutAddress, RequestFails
    <2> QED BY <2>1, <2>2
  <1>5. CASE LoadTransfers
    <2>1. EntriesOK' /\ Bounded'
      BY <1>1, <1>5, SameEntries DEF LoadTransfers, botVars
    <2>2. NoReload'
      BY <1>1, <1>5, OverIsIdle, IdleNoReload DEF LoadTransfers, Step, NoReload, GrantInv, TypeOK
    <2> QED BY <2>1, <2>2
  <1>6. CASE GivesUp
    <2>1. CASE /\ server' = Freed(server, KillPorts(call.id))
               /\ Erase(call.id, KillPorts(call.id))
               /\ Over
               /\ UNCHANGED <<currPortNum, diskVars, botVars>>
      <3>1. \A v \in Users \ {call.id} : Proc'[v] = Orphaned(Proc, KillPorts(call.id))[v]
        BY <2>1 DEF Erase, Orphaned
      <3>2. EntriesOK' /\ Bounded'
        <4> DEFINE gone == {call.id}
        <4> HIDE DEF gone
        <4>1. gone \in SUBSET Users /\ RPCMap' = RPCMap \ gone
          BY <1>1, <2>1 DEF Erase, gone
        <4>2. \A v \in Users \ gone : Proc'[v] = Orphaned(Proc, KillPorts(call.id))[v]
          BY <3>1 DEF gone
        <4> QED BY <2>1, <4>1, <4>2, FewerEntries DEF botVars
      <3>3. NoReload'
        BY <2>1, OverIsIdle, IdleNoReload
      <3> QED BY <3>2, <3>3
    <2>2. CASE Over /\ UNCHANGED <<poolVars, server, diskVars, botVars>>
      <3>1. EntriesOK' /\ Bounded'
        BY <2>2, SameEntries DEF poolVars, botVars
      <3> QED BY <2>2, <3>1, OverIsIdle, IdleNoReload
    <2>3. CASE BotDies(Freed(server, KillPorts(call.id)))
      BY <2>3, NoEntries
    <2> QED BY <1>6, <2>1, <2>2, <2>3 DEF GivesUp
  <1> QED BY <1>3, <1>4, <1>5, <1>6 DEF SetUp

LEMMA CheckEntries ==
  ASSUME EntryInv, Check \/ Resync \/ Return
  PROVE  EntriesOK' /\ Bounded' /\ NoReload'
  <1> USE DEF EntryInv
  <1>1. CASE CheckPasses \/ CheckThrows \/ CheckRecurses \/ Resync \/ Return
    <2>1. EntriesOK' /\ Bounded'
      BY <1>1, SameEntries DEF CheckPasses, CheckThrows, CheckRecurses, Resync, Return, poolVars, botVars
    <2>2. NoReload'
      BY <1>1 DEF CheckPasses, CheckThrows, CheckRecurses, Resync, Return, Step, Idle, NoReload,
                  GrantInv, TypeOK, poolVars
    <2> QED BY <2>1, <2>2
  <1>2. CASE CheckAborts
    <2> DEFINE gone == {call.id}
    <2>1. call.id \in Users
      BY <1>2 DEF CheckAborts, NoReload, GrantInv, CallHasEntry, TypeOK
    <2>2. server' = Freed(server, {})
      BY <1>2 DEF CheckAborts, Freed, GrantInv, TypeOK
    <2>3. /\ gone \in SUBSET Users /\ RPCMap' = RPCMap \ gone
          /\ \A v \in Users \ gone : Proc'[v] = Orphaned(Proc, {})[v]
          /\ UNCHANGED <<currPortNum, up>>
      BY <1>2, <2>1 DEF CheckAborts, Erase, Orphaned, botVars
    <2> HIDE DEF gone
    <2>4. EntriesOK' /\ Bounded'
      BY <2>2, <2>3, FewerEntries
    <2>5. NoReload'
      BY <1>2, IdleNoReload DEF CheckAborts, NoReload
    <2> QED BY <2>4, <2>5
  <1>3. CASE StackOverflow
    BY <1>3, NoEntries DEF StackOverflow
  <1> QED BY <1>1, <1>2, <1>3 DEF Check

(* A restarted process has its entry's port again: the port was free, or what held it was
   the entry's own process, which is killed first. *)
LEMMA RestartEntries ==
  ASSUME BotRunsOn, EntryInv, NEW u \in Users, RestartWallet(u) \/ RestartThrows(u)
  PROVE  EntriesOK' /\ Bounded' /\ NoReload'
  <1> USE DEF EntryInv
  <1> DEFINE port == Proc[u].port
             killed == Freed(server, KillPorts(u))
  <1>1. RestartWallet(u)
    BY DEF BotRunsOn, RestartThrows
  <1>2. u \in RPCMap /\ RPCMap \subseteq Users /\ UNCHANGED <<RPCMap, currPortNum, up>>
    BY <1>1 DEF RestartWallet, GrantInv, TypeOK, botVars
  <1>3. ~Served(port) \/ Proc[u].pid = "live"
    BY <1>2 DEF EntriesOK, PidServesPort
  <1>4. port \in Ports => ~killed[port].alive
    BY <1>3 DEF Served, KillPorts, Freed, Free
  <1>5. port >= StartPort /\ port < currPortNum /\ port \in Ports \cup {0}
    BY <1>2 DEF EntriesOK, Launched, GrantInv, TypeOK, Entry
  <1>6. port \in Ports /\ NewPid(killed, port) = "live"
    BY <1>4, <1>5, PortAssumption DEF NewPid
  <1>7. /\ Proc'[u].pid = "live" /\ Proc'[u].port = port
        /\ \A v \in RPCMap \ {u} : Proc'[v] = Proc[v]
    <2>1. Proc' = [Orphaned(Proc, KillPorts(u)) EXCEPT
                     ![u] = [pid |-> NewPid(killed, port), port |-> port, owner |-> u]]
      BY <1>1 DEF RestartWallet
    <2>2. \A v \in RPCMap \ {u} : Proc[v].port \notin KillPorts(u)
      BY <1>2 DEF EntriesOK, PortsDistinct, KillPorts
    <2>3. \A v \in RPCMap \ {u} : Orphaned(Proc, KillPorts(u))[v] = Proc[v]
      BY <1>2, <2>2 DEF Orphaned
    <2>4. Proc'[u] = [pid |-> NewPid(killed, port), port |-> port, owner |-> u]
      BY <2>1 DEF Orphaned
    <2>5. \A v \in Users \ {u} : Proc'[v] = Orphaned(Proc, KillPorts(u))[v]
      BY <2>1 DEF Orphaned
    <2> QED BY <1>2, <1>6, <2>3, <2>4, <2>5
  <1>8. \A p \in Ports : server'[p].alive => server[p].alive \/ p = port
    BY <1>1 DEF RestartWallet, Bind, Freed, Free
  <1> HIDE DEF port, killed
  <1>9. Launched'
    BY <1>2, <1>5, <1>7 DEF EntriesOK, Launched
  <1>10. PortsDistinct'
    BY <1>2, <1>7 DEF EntriesOK, PortsDistinct, port
  <1>11. PidServesPort'
    BY <1>2, <1>7, <1>8, <1>10 DEF EntriesOK, PidServesPort, PortsDistinct, Served, port
  <1>12. NextPortsFree'
    <2>1. \A p \in Ports : p >= currPortNum => p # port
      BY <1>5, <1>6, PortsPositive DEF GrantInv, TypeOK
    <2> QED BY <1>2, <1>8, <2>1 DEF EntriesOK, NextPortsFree
  <1>13. Bounded' /\ NoReload'
    BY <1>1, <1>2 DEF RestartWallet, Begin, Bounded, WithinLimit, NoReload
  <1> QED BY <1>9, <1>10, <1>11, <1>12, <1>13 DEF EntriesOK

LEMMA LifeEntries ==
  ASSUME BotRunsOn, EntryInv, KillsOwnGroup \/ ManuallyCreateRPC \/ Save \/ Shutdown \/ Start \/ BotCrash
  PROVE  EntriesOK' /\ Bounded' /\ NoReload'
  <1> USE DEF EntryInv
  <1>1. ~Save /\ ~Shutdown /\ ~Start /\ ~BotCrash
    BY DEF BotRunsOn, Save, Shutdown, Start, BotCrash
  <1>2. CASE KillsOwnGroup
    BY <1>2, NoEntries DEF KillsOwnGroup
  <1>3. CASE ManuallyCreateRPC
    <2>1. \A p \in Ports : p >= StartPort /\ server'[p].alive => server[p].alive
      BY <1>3, PortsPositive, PortAssumption DEF ManuallyCreateRPC, Bind, Opened, LotteryPort
    <2>2. EntriesOK' /\ Bounded'
      BY <1>3, <2>1, SameEntries DEF ManuallyCreateRPC, poolVars
    <2>3. NoReload'
      BY <1>3 DEF ManuallyCreateRPC, NoReload, poolVars
    <2> QED BY <2>2, <2>3
  <1> QED BY <1>1, <1>2, <1>3

LEMMA CrashEntries ==
  ASSUME EntryInv, NEW p \in Ports, ProcessCrash(p)
  PROVE  EntriesOK' /\ Bounded' /\ NoReload'
  <1> USE DEF EntryInv
  <1>1. EntriesOK' /\ Bounded'
    <2> DEFINE ports == {p}
               gone == {}
    <2> HIDE DEF ports, gone
    <2>1. /\ gone \in SUBSET Users /\ RPCMap' = RPCMap \ gone
          /\ server' = Freed(server, ports) /\ UNCHANGED <<currPortNum, up>>
          /\ \A v \in Users \ gone : Proc'[v] = Orphaned(Proc, ports)[v]
      BY DEF ProcessCrash, ports, gone, botVars
    <2> QED BY <2>1, FewerEntries
  <1>2. NoReload'
    BY DEF ProcessCrash, NoReload
  <1> QED BY <1>1, <1>2

LEMMA EntryStep == BotRunsOn /\ EntryInv /\ [Next]_vars => EntryInv'
  <1> SUFFICES ASSUME BotRunsOn, EntryInv, [Next]_vars PROVE EntriesOK' /\ Bounded' /\ NoReload'
    BY GrantStep DEF EntryInv
  <1>1. ASSUME NEW u \in Users, GetAccount(u) PROVE EntriesOK' /\ Bounded' /\ NoReload'
    BY <1>1, AskEntries
  <1>2. ASSUME NEW u \in Users, RestartWallet(u) \/ RestartThrows(u) PROVE EntriesOK' /\ Bounded' /\ NoReload'
    BY <1>2, RestartEntries
  <1>3. CASE SetUp
    BY <1>3, SetUpEntries
  <1>4. CASE Check \/ Resync \/ Return
    BY <1>4, CheckEntries
  <1>5. CASE KillsOwnGroup \/ ManuallyCreateRPC \/ Save \/ Shutdown \/ Start \/ BotCrash
    BY <1>5, LifeEntries
  <1>6. ASSUME NEW u \in Users PROVE ~ReloadLaunch(u) /\ ~ReloadThrows(u)
    BY DEF EntryInv, NoReload, ReloadLaunch, ReloadThrows
  <1>7. ASSUME NEW p \in Ports, ProcessCrash(p) PROVE EntriesOK' /\ Bounded' /\ NoReload'
    BY <1>7, CrashEntries
  <1>8. CASE UNCHANGED vars
    <2>1. EntriesOK' /\ Bounded'
      BY <1>8, SameEntries DEF vars, poolVars, botVars
    <2>2. NoReload'
      BY <1>8 DEF EntryInv, NoReload, vars, poolVars
    <2> QED BY <2>1, <2>2
  <1> QED BY <1>1, <1>2, <1>3, <1>4, <1>5, <1>6, <1>7, <1>8 DEF Next

(* As long as no launch throws and the bot is not restarted: the entries have different
   processes, the pid of an entry is the process on its port and never 0, and there are
   no more entries than max_rpc_limit, for any number of users, ports and entries and
   whatever the wallet processes do (SpinUpNewRPC, getAccount's take-over, restartWallet
   and waitForRPCToRespond). *)
THEOREM EntriesStayApart ==
  ASSUME BotRunsOn
  PROVE  Spec => [](PortsDistinct /\ PidServesPort /\ NeverKillsItself /\ WithinLimit)
  <1>1. EntryInv => PortsDistinct /\ PidServesPort /\ NeverKillsItself /\ WithinLimit
    BY DEF EntryInv, EntriesOK, Launched, Bounded, NeverKillsItself
  <1>2. EntryInv /\ [Next]_vars => EntryInv'
    BY EntryStep
  <1> QED BY <1>1, <1>2, EntryInit, PTL DEF Spec

-----------------------------------------------------------------------------
(* What a step may do to the processes. *)

Destroys ==
    \A u \in Users \ RPCMap :
        ~HasRoom /\ u \in RPCMap' =>
            \E old \in RPCMap \ RPCMap' : Proc'[u].port = Proc[old].port

Loses ==
    up /\ up' =>
        \A p \in Ports : Served(p) /\ Kept(p) /\ server'[p].alive /\ ~Kept(p)' => call.at = "check"

LEMMA DestroysStep == BotRunsOn /\ EntryInv /\ Next => Destroys
  <1> SUFFICES ASSUME BotRunsOn, EntryInv, Next, NEW u \in Users \ RPCMap, ~HasRoom, u \in RPCMap'
               PROVE  \E old \in RPCMap \ RPCMap' : Proc'[u].port = Proc[old].port
    BY DEF Destroys
  <1> USE DEF EntryInv
  <1>1. CASE \E v, old \in Users : TakeOver(v, old)
    <2>1. PICK v \in Users, old \in Users : TakeOver(v, old)
      BY <1>1
    <2>2. old \in RPCMap /\ v \notin RPCMap /\ Proc[old].port # 0
      BY <2>1, PortAssumption DEF TakeOver, IsOldest, EntriesOK, Launched
    <2>3. Victim(old) = old
      BY <2>2 DEF Victim, GrantInv, OwnersMatch
    <2>4. RPCMap' = (RPCMap \ {old}) \cup {v}
      BY <2>1, <2>3 DEF TakeOver
    <2>5. u = v /\ old \in RPCMap \ RPCMap'
      BY <2>2, <2>4
    <2>6. Proc'[u].port = Proc[old].port
      BY <2>1, <2>5 DEF TakeOver, HandedOn, GrantInv, TypeOK, Entry
    <2> QED BY <2>5, <2>6
  <1>2. CASE ~\E v, old \in Users : TakeOver(v, old)
    <2>1. RPCMap' \subseteq RPCMap
      BY <1>2 DEF Next, GetAccount, GetAccountHit, SpinUp, SpinUpThrows, RestartWallet, RestartThrows,
           SetUp, Responds, GivesUp, CreateWallet, CreateWithoutAddress, OpenWallet, LoadTransfers, RequestFails,
           Check, CheckPasses, CheckAborts, CheckThrows, CheckRecurses, StackOverflow, Resync, Return,
           KillsOwnGroup, ManuallyCreateRPC, Save, Shutdown, Start, ReloadLaunch, ReloadThrows, ProcessCrash,
           BotCrash, BotDies, Erase, BotRunsOn, poolVars
    <2> QED BY <2>1
  <1> QED BY <1>1, <1>2

LEMMA LosesStep == BotRunsOn /\ EntryInv /\ Next => Loses
  <1> SUFFICES ASSUME BotRunsOn, EntryInv, Next, up, up', NEW p \in Ports, Served(p), server'[p].alive,
                      NEW u \in RPCMap, Proc[u].port = p, call.at # "check"
               PROVE  Kept(p)'
    BY DEF Loses, Kept
  <1> USE DEF EntryInv
  <1>1. u \in Users /\ Proc[u] \in Entry /\ Proc[u].pid = "live"
    BY DEF GrantInv, TypeOK, EntriesOK, PidServesPort
  <1>2. u \in RPCMap' /\ Proc'[u].port = p => Kept(p)'
    BY DEF Kept
  <1>3. ASSUME NEW ports, Proc'[u] = Orphaned(Proc, ports)[u] PROVE Proc'[u].port = p
    BY <1>1, <1>3 DEF Orphaned, Entry
  <1>4. CASE SetUp
    <2>1. CASE /\ server' = Freed(server, KillPorts(call.id))
               /\ Erase(call.id, KillPorts(call.id))
      <3>1. p \notin KillPorts(call.id)
        BY <2>1 DEF Freed, Free
      <3>2. u # call.id
        BY <1>1, <3>1 DEF KillPorts
      <3>3. u \in RPCMap' /\ Proc'[u] = Orphaned(Proc, KillPorts(call.id))[u]
        BY <1>1, <2>1, <3>2 DEF Erase, Orphaned
      <3> QED BY <1>2, <1>3, <3>3
    <2>2. CASE UNCHANGED <<RPCMap, Proc>>
      BY <1>2, <2>2
    <2> QED BY <1>4, <2>1, <2>2 DEF SetUp, Responds, GivesUp, CreateWallet, CreateWithoutAddress, OpenWallet,
                  LoadTransfers, RequestFails, BotDies, poolVars
  <1>5. CASE \E v \in Users : GetAccount(v)
    <2>1. CASE \E v, old \in Users : TakeOver(v, old)
      <3>1. PICK v \in Users, old \in Users : TakeOver(v, old)
        BY <2>1
      <3>2. old \in RPCMap /\ v \notin RPCMap /\ Proc[old].port # 0
        BY <3>1, PortAssumption DEF TakeOver, IsOldest, EntriesOK, Launched
      <3>3. Victim(old) = old
        BY <3>2 DEF Victim, GrantInv, OwnersMatch
      <3>4. /\ v \in RPCMap' /\ Proc'[v].port = Proc[old].port
            /\ u # old => u \in RPCMap' /\ Proc'[u] = Proc[u]
        BY <1>1, <3>1, <3>2, <3>3 DEF TakeOver, HandedOn, GrantInv, TypeOK, Entry
      <3> QED BY <1>2, <3>4 DEF Kept
    <2>2. CASE \E v \in Users : GetAccountHit(v) \/ SpinUp(v)
      <3>1. u \in RPCMap' /\ Proc'[u] = Proc[u]
        BY <1>1, <2>2 DEF GetAccountHit, SpinUp, GrantInv, TypeOK, poolVars
      <3> QED BY <1>2, <3>1
    <2> QED BY <1>5, <2>1, <2>2 DEF GetAccount, SpinUpThrows, BotRunsOn
  <1>6. CASE \E v \in Users : RestartWallet(v)
    <2>1. PICK v \in Users : RestartWallet(v)
      BY <1>6
    <2>2. u \in RPCMap' /\ Proc'[u].port = p
      BY <1>1, <2>1 DEF RestartWallet, Orphaned, Entry
    <2> QED BY <1>2, <2>2
  <1>7. CASE \E q \in Ports : ProcessCrash(q)
    BY <1>1, <1>2, <1>3, <1>7 DEF ProcessCrash
  <1>8. CASE Resync \/ Return \/ ManuallyCreateRPC \/ StackOverflow \/ KillsOwnGroup
    BY <1>2, <1>8 DEF Resync, Return, ManuallyCreateRPC, StackOverflow, KillsOwnGroup, BotDies, poolVars
  <1>9. ~\E v \in Users : RestartThrows(v) \/ ReloadLaunch(v) \/ ReloadThrows(v)
    BY DEF BotRunsOn, RestartThrows, ReloadLaunch, ReloadThrows, NoReload
  <1>10. ~Save /\ ~Shutdown /\ ~Start /\ ~BotCrash
    BY DEF BotRunsOn, Save, Shutdown, Start, BotCrash
  <1>11. ~CheckPasses /\ ~CheckAborts /\ ~CheckThrows /\ ~CheckRecurses
    BY DEF CheckPasses, CheckAborts, CheckThrows, CheckRecurses
  <1> QED BY <1>4, <1>5, <1>6, <1>7, <1>8, <1>9, <1>10, <1>11 DEF Next, Check

Stays ==
    \A u \in RPCMap \cap RPCMap' :
        LET port == Proc[u].port
        IN  Served(port) /\ Served(port)' /\ Proc'[u].port = port
              => (server[port].wallet = u => server'[port].wallet \in {u, Nobody})

(* A step that opens no wallet, starts processes only on free ports. *)
LEMMA StaysStep == BotRunsOn /\ EntryInv /\ Next => Stays
  <1> SUFFICES ASSUME BotRunsOn, EntryInv, Next, NEW u \in RPCMap, u \in RPCMap', NEW port \in Ports,
                      port = Proc[u].port, Proc'[u].port = port,
                      server[port].alive, server'[port].alive, server[port].wallet = u
               PROVE  server'[port].wallet \in {u, Nobody}
    BY DEF Stays, Served
  <1> USE DEF EntryInv
  <1>1. u \in Users /\ port # LotteryPort
    BY PortsPositive, PortAssumption DEF GrantInv, TypeOK, EntriesOK, Launched, LotteryPort
  <1>2. ASSUME NEW q, server' = Bind(server, q) PROVE server'[port] = server[port]
    BY <1>2 DEF Bind
  <1>3. ASSUME NEW ports, server' = Freed(server, ports) PROVE server'[port] = server[port]
    BY <1>3 DEF Freed, Free
  <1>4. ASSUME call.op # "none", server' = Opened(server, MyPort, call.id)
        PROVE  server'[port].wallet = u
    <2>1. call.id \in RPCMap
      BY <1>4 DEF NoReload
    <2>2. CASE call.id = u
      BY <1>4, <2>2 DEF Opened, GrantInv, TypeOK, Process
    <2>3. CASE call.id # u
      <3>1. MyPort # port
        BY <2>1, <2>3 DEF EntriesOK, PortsDistinct, MyPort
      <3> QED BY <1>4, <3>1 DEF Opened
    <2> QED BY <2>2, <2>3
  <1>5. CASE SetUp
    <2>1. call.op # "none"
      BY <1>5 DEF NoReload, SetUp, Responds, GivesUp, CreateWallet, CreateWithoutAddress, OpenWallet,
                  LoadTransfers, RequestFails
    <2>2. CASE GivesUp
      BY <1>3, <2>2 DEF GivesUp, BotDies
    <2> QED BY <1>4, <1>5, <2>1, <2>2 DEF SetUp, Responds, CreateWallet, CreateWithoutAddress, OpenWallet,
                  LoadTransfers, RequestFails
  <1>6. CASE \E v \in Users : GetAccount(v)
    BY <1>2, <1>6 DEF GetAccount, GetAccountHit, SpinUp, SpinUpThrows, TakeOver
  <1>7. CASE \E v \in Users : RestartWallet(v) \/ RestartThrows(v)
    <2>1. PICK v \in Users : RestartWallet(v) \/ RestartThrows(v)
      BY <1>7
    <2> DEFINE killed == Freed(server, KillPorts(v))
    <2>2. killed[port] \in {server[port], Free}
      BY DEF Freed
    <2>3. server'[port] \in {killed[port], [alive |-> TRUE, wallet |-> Nobody]}
      BY <2>1 DEF RestartWallet, RestartThrows, Bind
    <2> QED BY <2>2, <2>3 DEF Free
  <1>8. CASE ManuallyCreateRPC
    BY <1>1, <1>8 DEF ManuallyCreateRPC, Bind, Opened
  <1>9. CASE Check \/ Resync \/ Return
    BY <1>9 DEF Check, CheckPasses, CheckAborts, CheckThrows, CheckRecurses, StackOverflow, Resync, Return, BotDies
  <1>10. CASE KillsOwnGroup \/ \E q \in Ports : ProcessCrash(q)
    BY <1>3, <1>10 DEF KillsOwnGroup, ProcessCrash, BotDies, Free
  <1>11. ~Save /\ ~Shutdown /\ ~Start /\ ~BotCrash /\ ~\E v \in Users : ReloadLaunch(v) \/ ReloadThrows(v)
    BY DEF BotRunsOn, Save, Shutdown, Start, BotCrash, ReloadLaunch, ReloadThrows, NoReload
  <1> QED BY <1>5, <1>6, <1>7, <1>8, <1>9, <1>10, <1>11 DEF Next

(* Under the same condition a new user's entry comes with the process of an entry that
   goes, only the ownership check loses track of a process, and nobody's call opens
   another wallet in a cached user's process. *)
THEOREM ProcessesAreKept ==
  ASSUME BotRunsOn
  PROVE  Spec => OldAccountDestroyed /\ OnlyTheCheckLosesProcesses /\ WalletStaysOpen
  <1>1. EntryInv /\ [Next]_vars => EntryInv'
    BY EntryStep
  <1>2. EntryInv /\ [Next]_vars => [Destroys]_vars /\ [Loses]_vars /\ [Stays]_vars
    BY DestroysStep, LosesStep, StaysStep
  <1> QED BY <1>1, <1>2, EntryInit, PTL
          DEF Spec, OldAccountDestroyed, OnlyTheCheckLosesProcesses, WalletStaysOpen, Destroys, Loses, Stays

=============================================================================
