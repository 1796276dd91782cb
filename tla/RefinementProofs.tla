-------------------------- MODULE RefinementProofs --------------------------
(***************************************************************************)
(* That WalletPool implements AccountPool, proved for any number of users,  *)
(* ports and entries and for every combination of failures.                 *)
(***************************************************************************)
EXTENDS WalletPoolRefinement, WalletPoolProofs

(* A bot that is down has no entries and no call in progress. *)
DownIsIdle == ~up => RPCMap = {} /\ call = Idle

(* Only the reload waits for a launch. *)
LaunchInReload == call.at = "launch" => call.op # "getAccount"

RefInv == GrantInv /\ DownIsIdle /\ LaunchInReload

LEMMA RefInit == Init => RefInv
  BY GrantInit DEF Init, RefInv, DownIsIdle, LaunchInReload, Idle

(* Over ends a call: nothing of getAccount's is left. *)
LEMMA DownStep == RefInv /\ [Next]_vars => DownIsIdle'
  <1> SUFFICES ASSUME RefInv, [Next]_vars PROVE DownIsIdle'
    OBVIOUS
  <1> USE DEF RefInv, DownIsIdle
  <1>1. ASSUME NEW u \in Users, GetAccount(u) PROVE DownIsIdle'
    BY <1>1 DEF GetAccount, GetAccountHit, SpinUp, SpinUpThrows, TakeOver, Asked, Available, botVars
  <1>2. ASSUME NEW u \in Users, RestartWallet(u) \/ RestartThrows(u) PROVE DownIsIdle'
    BY <1>2 DEF RestartWallet, RestartThrows, Available, botVars
  <1>3. ASSUME NEW srv, BotDies(srv) PROVE DownIsIdle'
    BY <1>3 DEF BotDies
  <1>4. CASE SetUp
    <2>1. up
      BY <1>4 DEF SetUp, Responds, GivesUp, CreateWallet, CreateWithoutAddress, OpenWallet, LoadTransfers,
                  RequestFails, Idle
    <2> QED BY <1>3, <1>4, <2>1 DEF SetUp, Responds, GivesUp, CreateWallet, CreateWithoutAddress, OpenWallet,
                  LoadTransfers, RequestFails, botVars
  <1>5. CASE Check \/ Resync \/ Return
    <2>1. up
      BY <1>5 DEF Check, CheckPasses, CheckAborts, CheckThrows, CheckRecurses, StackOverflow, Resync, Return, Idle
    <2> QED BY <1>3, <1>5, <2>1 DEF Check, CheckPasses, CheckAborts, CheckThrows, CheckRecurses, StackOverflow,
                  Resync, Return, botVars
  <1>6. CASE KillsOwnGroup \/ BotCrash
    BY <1>3, <1>6 DEF KillsOwnGroup, BotCrash
  <1>7. CASE ManuallyCreateRPC \/ Save \/ Shutdown \/ Start
    BY <1>7 DEF ManuallyCreateRPC, Save, Shutdown, Start, Available, poolVars, botVars
  <1>8. ASSUME NEW u \in Users, ReloadLaunch(u) \/ ReloadThrows(u) PROVE DownIsIdle'
    <2>1. up
      BY <1>8 DEF ReloadLaunch, ReloadThrows, Idle
    <2> QED BY <1>8, <2>1 DEF ReloadLaunch, ReloadThrows, botVars
  <1>9. ASSUME NEW p \in Ports, ProcessCrash(p) PROVE DownIsIdle'
    BY <1>9 DEF ProcessCrash, botVars
  <1>10. CASE UNCHANGED vars
    BY <1>10 DEF vars, poolVars, botVars
  <1> QED BY <1>1, <1>2, <1>4, <1>5, <1>6, <1>7, <1>8, <1>9, <1>10 DEF Next

LEMMA LaunchStep == RefInv /\ [Next]_vars => LaunchInReload'
  <1> SUFFICES ASSUME RefInv, [Next]_vars, call'.at = "launch" PROVE call'.op # "getAccount"
    BY DEF LaunchInReload
  <1> USE DEF RefInv, LaunchInReload
  <1>1. Over => call'.op # "getAccount"
    BY OverKeeps DEF GrantInv
  <1>2. ASSUME NEW u \in Users, GetAccount(u) PROVE call'.op # "getAccount"
    BY <1>2 DEF GetAccount, GetAccountHit, SpinUp, SpinUpThrows, TakeOver, Begin
  <1>3. ASSUME NEW u \in Users, RestartWallet(u) \/ RestartThrows(u) PROVE call'.op # "getAccount"
    BY <1>3 DEF RestartWallet, RestartThrows, Begin
  <1>4. ASSUME NEW srv, BotDies(srv) PROVE call'.op # "getAccount"
    BY <1>4 DEF BotDies, Idle
  <1>5. CASE SetUp
    <2>1. CASE Responds \/ CreateWallet \/ OpenWallet
      BY <2>1 DEF Responds, CreateWallet, OpenWallet, Step, GrantInv, TypeOK
    <2>2. CASE CreateWithoutAddress \/ RequestFails
      BY <1>1, <2>2 DEF CreateWithoutAddress, RequestFails
    <2>3. CASE LoadTransfers
      BY <1>1, <2>3 DEF LoadTransfers, Step, GrantInv, TypeOK
    <2>4. CASE GivesUp
      BY <1>1, <1>4, <2>4 DEF GivesUp
    <2> QED BY <1>5, <2>1, <2>2, <2>3, <2>4 DEF SetUp
  <1>6. CASE Check \/ Resync \/ Return
    BY <1>4, <1>6 DEF Check, CheckPasses, CheckAborts, CheckThrows, CheckRecurses, StackOverflow, Resync, Return,
                      Step, Idle, GrantInv, TypeOK
  <1>7. CASE KillsOwnGroup \/ BotCrash
    BY <1>4, <1>7 DEF KillsOwnGroup, BotCrash
  <1>8. CASE ManuallyCreateRPC \/ Save \/ Shutdown \/ Start
    BY <1>8 DEF ManuallyCreateRPC, Save, Shutdown, Start, NextReload, Begin, Idle
  <1>9. ASSUME NEW u \in Users, ReloadLaunch(u) \/ ReloadThrows(u) PROVE call'.op # "getAccount"
    BY <1>9 DEF ReloadLaunch, ReloadThrows, NextReload, Begin, Idle
  <1>10. ASSUME NEW p \in Ports, ProcessCrash(p) PROVE call'.op # "getAccount"
    BY <1>10 DEF ProcessCrash
  <1>11. CASE UNCHANGED vars
    BY <1>11 DEF vars
  <1> QED BY <1>2, <1>3, <1>5, <1>6, <1>7, <1>8, <1>9, <1>10, <1>11 DEF Next

LEMMA RefStep == RefInv /\ [Next]_vars => RefInv'
  BY GrantStep, DownStep, LaunchStep DEF RefInv

-----------------------------------------------------------------------------
(* What a caller sees before and after a step. *)

LEMMA Views ==
  ASSUME GrantInv
  PROVE  /\ call.op # "getAccount" => Client = Pool!NoClient /\ Behind = Nobody
         /\ call.op = "getAccount" /\ call.at # "granted" =>
              Client = Pool!Busy(call.id) /\ Behind = Nobody
         /\ call.at = "granted" =>
              /\ call.op = "getAccount"
              /\ Client = Pool!Granted(call.id) /\ Behind \in {call.id, Nobody}
         /\ call.op = "getAccount" => call.id \in RPCMap /\ call.id \in Users
  BY DEF GrantInv, CallHasEntry, GrantsOwnWallet, TypeOK, Client, Behind, Pool!NoClient, Pool!Busy, Pool!Granted

LEMMA ViewsAfter ==
  ASSUME GrantInv'
  PROVE  /\ call'.op # "getAccount" => Client' = Pool!NoClient /\ Behind' = Nobody
         /\ call'.op = "getAccount" /\ call'.at # "granted" =>
              Client' = Pool!Busy(call'.id) /\ Behind' = Nobody
         /\ call'.at = "granted" =>
              /\ call'.op = "getAccount"
              /\ Client' = Pool!Granted(call'.id) /\ Behind' \in {call'.id, Nobody}
  BY DEF GrantInv, CallHasEntry, GrantsOwnWallet, TypeOK, Client, Behind, Pool!NoClient, Pool!Busy, Pool!Granted

PoolStep == [Pool!Next]_(Pool!vars)

(* A step that keeps the map, the call, the file and the bot, and whatever wallet is behind
   the account that is out, is not seen. *)
LEMMA Unseen ==
  ASSUME UNCHANGED <<RPCMap, Client, Behind, saved, up>>
  PROVE  PoolStep
  BY DEF PoolStep, Pool!vars

LEMMA BotDiesStops ==
  ASSUME GrantInv', up, NEW srv, BotDies(srv)
  PROVE  PoolStep
  <1>1. Client' = Pool!NoClient /\ Behind' = Nobody
    BY ViewsAfter DEF BotDies, Idle
  <1>2. Pool!Stop
    BY <1>1 DEF BotDies, diskVars, Pool!Stop
  <1> QED BY <1>2 DEF PoolStep, Pool!Next

-----------------------------------------------------------------------------
(* Every step of WalletPool is a step of AccountPool, or is not seen. *)

LEMMA AskRefines ==
  ASSUME RefInv, GrantInv', NEW u \in Users, GetAccount(u)
  PROVE  PoolStep
  <1> USE DEF RefInv
  <1>1. up /\ Client = Pool!NoClient /\ Behind = Nobody
    BY Views DEF GetAccount, GetAccountHit, SpinUp, SpinUpThrows, TakeOver, Asked, Available, Idle
  <1>2. CASE GetAccountHit(u) \/ SpinUp(u) \/ \E old \in Users : TakeOver(u, old)
    <2>1. /\ call' = Begin("getAccount", u, call'.at) /\ call'.at \in {"check", "wait"}
          /\ UNCHANGED <<saved, up>>
      BY <1>2 DEF GetAccountHit, SpinUp, TakeOver, Begin, diskVars, botVars
    <2>2. Client' = Pool!Busy(u) /\ Behind' = Nobody
      BY <2>1, ViewsAfter DEF Begin
    <2>3. \/ u \in RPCMap /\ UNCHANGED RPCMap
          \/ \E gone \in {{}} \cup {{v} : v \in RPCMap} :
               /\ gone # {} => NoRoomIn(RPCMap)
               /\ RPCMap' = (RPCMap \ gone) \cup {u}
      <3>1. CASE GetAccountHit(u)
        BY <3>1 DEF GetAccountHit, poolVars
      <3>2. CASE SpinUp(u)
        <4>1. RPCMap' = (RPCMap \ {}) \cup {u}
          BY <3>2 DEF SpinUp
        <4> QED BY <4>1
      <3>3. ASSUME NEW old \in Users, TakeOver(u, old)
            PROVE  \E gone \in {{}} \cup {{v} : v \in RPCMap} :
                     /\ gone # {} => NoRoomIn(RPCMap)
                     /\ RPCMap' = (RPCMap \ gone) \cup {u}
        <4>1. NoRoomIn(RPCMap) /\ RPCMap' = (RPCMap \ {Victim(old)}) \cup {u}
          BY <3>3 DEF TakeOver, HasRoom, NoRoomIn
        <4>2. CASE Victim(old) \in RPCMap
          <5>1. {Victim(old)} \in {{}} \cup {{v} : v \in RPCMap}
            BY <4>2
          <5> QED BY <4>1, <5>1
        <4>3. CASE Victim(old) \notin RPCMap
          <5>1. RPCMap' = (RPCMap \ {}) \cup {u}
            BY <4>1, <4>3
          <5> QED BY <5>1
        <4> QED BY <4>2, <4>3
      <3> QED BY <1>2, <3>1, <3>2, <3>3
    <2>4. Pool!Ask(u)
      BY <1>1, <2>1, <2>2, <2>3 DEF Pool!Ask
    <2> QED BY <2>4 DEF PoolStep, Pool!Next
  <1>3. CASE SpinUpThrows(u)
    <2>1. Client' = Client /\ Behind' = Behind
      BY <1>1, <1>3, ViewsAfter DEF SpinUpThrows, Asked, Available, Idle
    <2>2. Pool!Refuse(u)
      BY <1>1, <1>3, <2>1 DEF SpinUpThrows, diskVars, botVars, Pool!Refuse
    <2> QED BY <2>2 DEF PoolStep, Pool!Next
  <1> QED BY <1>2, <1>3 DEF GetAccount

(* The end of an operation that is not an account handed out. *)
LEMMA EndRefines ==
  ASSUME RefInv, GrantInv', up, call.at \notin {"granted", "idle"},
         call'.op # "getAccount", UNCHANGED <<saved, up>>,
         call.id \in Users \/ UNCHANGED RPCMap,
         RPCMap' \in {RPCMap, RPCMap \ {call.id}}
  PROVE  PoolStep
  <1> USE DEF RefInv
  <1>1. Client' = Pool!NoClient /\ Behind' = Nobody /\ Behind = Nobody
    BY Views, ViewsAfter
  <1>2. CASE call.op = "getAccount"
    <2>1. Pool!Fail
      BY <1>1, <1>2, Views DEF Pool!Fail, Pool!Busy
    <2> QED BY <2>1 DEF PoolStep, Pool!Next
  <1>3. CASE call.op # "getAccount" /\ RPCMap' = RPCMap
    BY <1>1, <1>3, Views, Unseen
  <1>4. CASE call.op # "getAccount" /\ call.id \in Users /\ RPCMap' = RPCMap \ {call.id}
    <2>1. Pool!Drop(call.id)
      BY <1>1, <1>4, Views DEF Pool!Drop
    <2> QED BY <1>4, <2>1 DEF PoolStep, Pool!Next
  <1> QED BY <1>2, <1>3, <1>4

(* A step within an operation. *)
LEMMA InnerRefines ==
  ASSUME RefInv, GrantInv', call.at # "granted", call'.at # "granted",
         call'.op = call.op, call'.id = call.id, UNCHANGED <<RPCMap, saved, up>>
  PROVE  PoolStep
  <1>1. UNCHANGED <<Client, Behind>>
    BY Views, ViewsAfter DEF RefInv
  <1> QED BY <1>1, Unseen

LEMMA SetUpRefines ==
  ASSUME RefInv, GrantInv', SetUp
  PROVE  PoolStep
  <1> USE DEF RefInv
  <1>1. up /\ call.at \in {"wait", "wallet", "transfers", "resync"}
    BY DEF SetUp, Responds, GivesUp, CreateWallet, CreateWithoutAddress, OpenWallet, LoadTransfers,
           RequestFails, DownIsIdle, Idle
  <1>2. Over => call'.op # "getAccount"
    BY OverKeeps DEF GrantInv
  <1>3. CASE Responds \/ CreateWallet \/ OpenWallet
    BY <1>1, <1>3, InnerRefines DEF Responds, CreateWallet, OpenWallet, Step, TypeOK, GrantInv,
                                    poolVars, diskVars, botVars
  <1>4. CASE CreateWithoutAddress \/ RequestFails
    BY <1>1, <1>2, <1>4, EndRefines DEF CreateWithoutAddress, RequestFails, poolVars, diskVars, botVars
  <1>5. CASE LoadTransfers
    <2>1. CASE call.op = "getAccount" /\ call' = Step("check")
      BY <1>1, <1>5, <2>1, InnerRefines DEF LoadTransfers, Step, TypeOK, GrantInv, diskVars, botVars
    <2>2. CASE Over
      BY <1>1, <1>2, <1>5, <2>2, EndRefines DEF LoadTransfers, diskVars, botVars
    <2> QED BY <1>5, <2>1, <2>2 DEF LoadTransfers
  <1>6. CASE GivesUp
    <2>1. CASE Over /\ UNCHANGED <<poolVars, server, diskVars, botVars>>
      BY <1>1, <1>2, <2>1, EndRefines DEF poolVars, diskVars, botVars
    <2>2. CASE /\ Erase(call.id, KillPorts(call.id))
               /\ Over
               /\ UNCHANGED <<currPortNum, diskVars, botVars>>
      <3>1. call.id \in Users \/ UNCHANGED RPCMap
        BY <2>2 DEF Erase, GrantInv, TypeOK
      <3> QED BY <1>1, <1>2, <2>2, <3>1, EndRefines DEF Erase, diskVars, botVars
    <2>3. CASE BotDies(Freed(server, KillPorts(call.id)))
      BY <1>1, <2>3, BotDiesStops
    <2> QED BY <1>6, <2>1, <2>2, <2>3 DEF GivesUp
  <1> QED BY <1>3, <1>4, <1>5, <1>6 DEF SetUp

LEMMA CheckRefines ==
  ASSUME RefInv, GrantInv', Check \/ Resync \/ Return
  PROVE  PoolStep
  <1> USE DEF RefInv
  <1>1. up /\ call.at # "idle"
    BY DEF Check, CheckPasses, CheckAborts, CheckThrows, CheckRecurses, StackOverflow, Resync, Return,
           DownIsIdle, Idle
  <1>2. CASE CheckPasses \/ CheckRecurses
    BY <1>2, InnerRefines DEF CheckPasses, CheckRecurses, Step, TypeOK, GrantInv, poolVars, diskVars, botVars
  <1>3. CASE CheckAborts \/ CheckThrows
    <2>1. call.id \in Users /\ call.at = "check"
      BY <1>3, Views DEF CheckAborts, CheckThrows, GrantInv, CallHasEntry
    <2>2. call'.op # "getAccount" /\ UNCHANGED <<saved, up>>
      BY <1>3 DEF CheckAborts, CheckThrows, Idle, diskVars, botVars
    <2>3. RPCMap' \in {RPCMap, RPCMap \ {call.id}}
      BY <1>3 DEF CheckAborts, CheckThrows, Erase, poolVars
    <2> QED BY <1>1, <2>1, <2>2, <2>3, EndRefines
  <1>4. CASE StackOverflow
    BY <1>1, <1>4, BotDiesStops DEF StackOverflow
  <1>5. CASE Resync
    <2>1. call' = Step("granted") /\ call' = [op |-> "getAccount", id |-> call.id, at |-> "granted"]
      BY <1>5 DEF Resync, Step, TypeOK, GrantInv, CallHasEntry
    <2>2. Client = Pool!Busy(call.id) /\ Client' = Pool!Granted(call.id)
      BY <1>5, <2>1, Views, ViewsAfter DEF Resync, GrantInv, CallHasEntry
    <2>3. Behind' = call.id
      <3>1. Served(MyPort) /\ server[MyPort].wallet = call.id
        BY <1>5 DEF Resync, GrantInv, GrantsOwnWallet
      <3>2. UNCHANGED <<server, MyPort>>
        BY <1>5, <2>1 DEF Resync, MyPort, poolVars
      <3> QED BY <2>1, <3>1, <3>2 DEF Behind, Served
    <2>4. Pool!Grant
      BY <1>5, <2>2, <2>3 DEF Resync, GrantInv, GrantsOwnWallet, poolVars, diskVars, botVars,
                              Pool!Grant, Pool!Busy, Pool!Granted
    <2> QED BY <2>4 DEF PoolStep, Pool!Next
  <1>6. CASE Return
    <2>1. Client = Pool!Granted(call.id) /\ Client' = Pool!NoClient /\ Behind' = Nobody
      BY <1>6, Views, ViewsAfter DEF Return, Idle
    <2>2. Pool!Return
      BY <1>6, <2>1 DEF Return, poolVars, diskVars, botVars, Pool!Return, Pool!Granted
    <2> QED BY <2>2 DEF PoolStep, Pool!Next
  <1> QED BY <1>2, <1>3, <1>4, <1>5, <1>6 DEF Check

LEMMA RestartRefines ==
  ASSUME RefInv, GrantInv', NEW u \in Users,
         RestartWallet(u) \/ RestartThrows(u) \/ ReloadLaunch(u) \/ ReloadThrows(u)
  PROVE  PoolStep
  <1> USE DEF RefInv
  <1>1. call.op # "getAccount" /\ call'.op # "getAccount" /\ UNCHANGED <<RPCMap, saved, up>>
    BY DEF RestartWallet, RestartThrows, ReloadLaunch, ReloadThrows, Available, Idle, Begin, NextReload,
           LaunchInReload, poolVars, diskVars, botVars
  <1>2. UNCHANGED <<Client, Behind>>
    BY <1>1, Views, ViewsAfter
  <1> QED BY <1>1, <1>2, Unseen

LEMMA LifeRefines ==
  ASSUME RefInv, GrantInv', KillsOwnGroup \/ ManuallyCreateRPC \/ Save \/ Shutdown \/ Start \/ BotCrash
  PROVE  PoolStep
  <1> USE DEF RefInv
  <1>1. CASE KillsOwnGroup
    <2>1. up
      BY <1>1 DEF KillsOwnGroup, Available, DownIsIdle, Idle
    <2> QED BY <1>1, <2>1, BotDiesStops DEF KillsOwnGroup
  <1>2. CASE BotCrash
    BY <1>2, BotDiesStops DEF BotCrash
  <1>3. CASE ManuallyCreateRPC
    <2>1. UNCHANGED <<RPCMap, Proc, call, saved, up>>
      BY <1>3 DEF ManuallyCreateRPC, poolVars, diskVars
    <2>2. Client' = Client
      BY <2>1 DEF Client
    <2>3. CASE call.at # "granted"
      BY <2>1, <2>2, <2>3, Unseen DEF Behind
    <2>4. CASE call.at = "granted"
      <3>1. call.id \in Users /\ MyPort # LotteryPort /\ MyPort' = MyPort
        BY <2>1, <2>4, PortsPositive, PortAssumption
           DEF GrantInv, GrantsOwnWallet, PortsAbove, TypeOK, MyPort, LotteryPort
      <3>2. \A p \in Ports : p # LotteryPort => server'[p] = server[p]
        BY <1>3 DEF ManuallyCreateRPC, Bind, Opened, GrantInv, TypeOK
      <3>3. Behind' = Behind
        BY <2>1, <3>1, <3>2 DEF Behind, Served
      <3> QED BY <2>1, <2>2, <3>3, Unseen
    <2> QED BY <2>3, <2>4
  <1>4. CASE Save \/ Shutdown \/ Start
    <2>1. call.op # "getAccount" /\ call'.op # "getAccount"
      BY <1>4 DEF Save, Shutdown, Start, Available, NextReload, Begin, DownIsIdle, Idle
    <2>2. Client = Pool!NoClient /\ Behind = Nobody /\ Client' = Pool!NoClient /\ Behind' = Nobody
      BY <2>1, Views, ViewsAfter
    <2>3. ASSUME Save PROVE Pool!Save
      BY <2>2, <2>3 DEF Save, Available, poolVars, botVars, Pool!Save
    <2>4. ASSUME Shutdown PROVE Pool!Stop
      BY <2>2, <2>4 DEF Shutdown, Available, Pool!Stop
    <2>5. ASSUME Start PROVE Pool!Restore
      BY <2>2, <2>5 DEF Start, diskVars, Pool!Restore
    <2> QED BY <1>4, <2>3, <2>4, <2>5 DEF PoolStep, Pool!Next
  <1> QED BY <1>1, <1>2, <1>3, <1>4

LEMMA CrashRefines ==
  ASSUME RefInv, GrantInv', NEW p \in Ports, ProcessCrash(p)
  PROVE  PoolStep
  <1> USE DEF RefInv
  <1>1. UNCHANGED <<RPCMap, call, saved, up>>
    BY DEF ProcessCrash, diskVars, botVars
  <1>2. Client' = Client
    BY <1>1 DEF Client
  <1>3. CASE call.at # "granted"
    BY <1>1, <1>2, <1>3, Unseen DEF Behind
  <1>4. CASE call.at = "granted"
    <2>1. call.id \in Users
      BY <1>4 DEF GrantInv, GrantsOwnWallet, TypeOK
    <2>2. MyPort' = MyPort
      BY <1>1, <2>1, OrphanedKeeps DEF ProcessCrash, MyPort, GrantInv, TypeOK
    <2>3. Behind' \in {Behind, Nobody}
      BY <1>1, <2>2 DEF ProcessCrash, Behind, Served, Freed, Free
    <2>4. CASE Behind' = Behind
      BY <1>1, <1>2, <2>4, Unseen
    <2>5. CASE Behind' = Nobody
      <3>1. Pool!WalletDies
        BY <1>1, <1>2, <1>4, <2>5, Views DEF Pool!WalletDies, Pool!Granted
      <3> QED BY <3>1 DEF PoolStep, Pool!Next
    <2> QED BY <2>3, <2>4, <2>5
  <1> QED BY <1>3, <1>4

LEMMA StepRefines == RefInv /\ RefInv' /\ [Next]_vars => PoolStep
  <1> SUFFICES ASSUME RefInv, GrantInv', [Next]_vars PROVE PoolStep
    BY DEF RefInv
  <1>1. ASSUME NEW u \in Users, GetAccount(u) PROVE PoolStep
    BY <1>1, AskRefines
  <1>2. ASSUME NEW u \in Users,
               RestartWallet(u) \/ RestartThrows(u) \/ ReloadLaunch(u) \/ ReloadThrows(u)
        PROVE  PoolStep
    BY <1>2, RestartRefines
  <1>3. CASE SetUp
    BY <1>3, SetUpRefines
  <1>4. CASE Check \/ Resync \/ Return
    BY <1>4, CheckRefines
  <1>5. CASE KillsOwnGroup \/ ManuallyCreateRPC \/ Save \/ Shutdown \/ Start \/ BotCrash
    BY <1>5, LifeRefines
  <1>6. ASSUME NEW p \in Ports, ProcessCrash(p) PROVE PoolStep
    BY <1>6, CrashRefines
  <1>7. CASE UNCHANGED vars
    <2>1. UNCHANGED <<RPCMap, Client, Behind, saved, up>>
      BY <1>7 DEF vars, poolVars, diskVars, botVars, Client, Behind, Served, MyPort
    <2> QED BY <2>1, Unseen
  <1> QED BY <1>1, <1>2, <1>3, <1>4, <1>5, <1>6, <1>7 DEF Next

LEMMA InitRefines == Init => Pool!Init
  BY DEF Init, Idle, Client, Behind, Pool!Init, Pool!NoClient

(* Whatever its processes do, the pool looks to its callers like AccountPool: an account is
   handed out only with its user's wallet behind it, and stays in the pool while it is out
   (RPCManager::getAccount, restartWallet, load, save and the destructor). *)
THEOREM ImplementsAccountPool == Spec => PoolSpec
  <1>1. RefInv /\ [Next]_vars => RefInv'
    BY RefStep
  <1>2. RefInv /\ RefInv' /\ [Next]_vars => [Pool!Next]_(Pool!vars)
    BY StepRefines DEF PoolStep
  <1> QED BY <1>1, <1>2, RefInit, InitRefines, PTL DEF Spec, PoolSpec, Pool!Spec

=============================================================================
