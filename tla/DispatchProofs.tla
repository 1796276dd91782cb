--------------------------- MODULE DispatchProofs ---------------------------
(***************************************************************************)
(* For any number of users, threads and messages, and for every combination *)
(* of commands and failures: what the mutexes of the pool and of the        *)
(* accounts guarantee, where commands can stop each other, and that every   *)
(* variable has its type.  For one command at a time: the author of a       *)
(* command pays, and his account is there until it ends.                    *)
(***************************************************************************)
EXTENDS Dispatch, SequenceTheorems, FiniteSetTheorems, TLAPS

(* From where to where a command holds the mutex of the account it pays from, and how
   long it relies on the balance it has read. *)
Holding == {"guard", "pool", "resync", "transfer", "note"}
Relying == Holding \ {"note"}

Fields == {"at", "kind", "author", "to", "acc", "want", "left", "seen"}

Shape ==
    /\ DOMAIN th = Threads
    /\ \A t \in Threads : DOMAIN th[t] = Fields /\ th[t].seen \in Nat
    /\ accMu \in [Users -> Threads \cup {Nobody}]
    /\ money \in [Users -> Nat]

(* A thread holds the pool's mutex just as long as getAccount resyncs; it holds the mutex of
   the account it works on, unless that was destroyed, and no other. *)
HoldsItsOwn(t) ==
    /\ mu = t <=> th[t].at = "resync"
    /\ \A u \in Users : accMu[u] = t => th[t].acc = u /\ th[t].at \in Holding
    /\ th[t].at \in Holding /\ th[t].acc \in Users => accMu[th[t].acc] = t
    /\ t = Handler \/ th[t].at \in {"idle", "start"} => th[t].acc \notin Users

(* The balance that was read is there as long as the account is locked. *)
BalanceIsThere(t) ==
    th[t].at \in Relying /\ th[t].acc \in Users => th[t].seen <= money[th[t].acc]

LockInv ==
    /\ Shape
    /\ \A t \in Threads : th[t].at = "crashed" \/ (HoldsItsOwn(t) /\ BalanceIsThere(t))

(* No thread has paid in this step. *)
NobodyPays == \A t \in Threads : th'[t].at = "note" => th[t].at = "note"

Kept == LockInv' /\ NobodyPays

-----------------------------------------------------------------------------
(* What the updates of th do to its fields. *)

LEMMA SleepingFields ==
  /\ DOMAIN Sleeping = Fields /\ Sleeping.at = "idle" /\ Sleeping.acc = Null /\ Sleeping.seen = 0
  BY DEF Sleeping, Thread, Fields

LEMMA GotoFields ==
  ASSUME Shape, NEW t \in Threads, NEW at, th' = Goto(t, at)
  PROVE  /\ DOMAIN th' = Threads
         /\ \A s \in Threads \ {t} : th'[s] = th[s]
         /\ DOMAIN th'[t] = Fields
         /\ th'[t].at = at /\ th'[t].acc = th[t].acc /\ th'[t].seen = th[t].seen
  BY DEF Shape, Goto, Fields

LEMMA LeaveFields ==
  ASSUME Shape, NEW t \in Threads, th' = [th EXCEPT ![t] = Sleeping]
  PROVE  /\ DOMAIN th' = Threads
         /\ \A s \in Threads \ {t} : th'[s] = th[s]
         /\ DOMAIN th'[t] = Fields
         /\ th'[t].at = "idle" /\ th'[t].acc = Null /\ th'[t].seen = 0
  BY SleepingFields DEF Shape

LEMMA ThreadsApart == Handler \in Threads /\ Nobody \notin Threads /\ Workers \subseteq Threads
  BY ThreadsAssumption DEF Threads

LEMMA LockInit == Init => LockInv
  <1> SUFFICES ASSUME Init PROVE LockInv
    OBVIOUS
  <1>1. Shape
    BY SleepingFields DEF Init, Shape
  <1>2. \A t \in Threads : HoldsItsOwn(t) /\ BalanceIsThere(t)
    BY SleepingFields, ThreadsApart, PointerAssumption DEF Init, HoldsItsOwn, BalanceIsThere, Holding, Relying
  <1> QED BY <1>1, <1>2 DEF LockInv

(* A step of one thread, as the others see it: what they hold and the money stay. *)
LEMMA OthersKeep ==
  ASSUME LockInv, NEW t \in Threads, UNCHANGED money,
         DOMAIN th' = Threads, \A s \in Threads \ {t} : th'[s] = th[s],
         DOMAIN th'[t] = Fields, th'[t].seen \in Nat,
         accMu' \in [Users -> Threads \cup {Nobody}],
         \A s \in Threads \ {t} : /\ mu' = s <=> mu = s
                                  /\ \A u \in Users : accMu'[u] = s <=> accMu[u] = s,
         HoldsItsOwn(t)', BalanceIsThere(t)', th'[t].at = "note" => th[t].at = "note"
  PROVE  Kept
  <1>1. Shape'
    BY DEF LockInv, Shape
  <1>2. ASSUME NEW s \in Threads \ {t}
        PROVE  th'[s].at = "crashed" \/ (HoldsItsOwn(s)' /\ BalanceIsThere(s)')
    BY <1>2 DEF LockInv, HoldsItsOwn, BalanceIsThere
  <1>3. NobodyPays
    BY DEF NobodyPays
  <1> QED BY <1>1, <1>2, <1>3 DEF LockInv, Kept

(* A step that touches no mutex, of a thread that holds none before and after. *)
LEMMA OneThread ==
  ASSUME LockInv, NEW t \in Threads, UNCHANGED <<mu, accMu, money>>,
         DOMAIN th' = Threads, \A s \in Threads \ {t} : th'[s] = th[s],
         DOMAIN th'[t] = Fields, th'[t].seen \in Nat,
         th[t].at \notin Holding \cup {"crashed"}, th'[t].at \notin Holding,
         t = Handler \/ th'[t].at \in {"idle", "start"} => th'[t].acc \notin Users
  PROVE  Kept
  <1>1. HoldsItsOwn(t)' /\ BalanceIsThere(t)'
    BY DEF LockInv, HoldsItsOwn, BalanceIsThere, Holding, Relying
  <1>2. accMu' \in [Users -> Threads \cup {Nobody}]
    BY DEF LockInv, Shape
  <1> QED BY <1>1, <1>2, OthersKeep DEF Holding

(* A step that ends with every mutex of the thread released. *)
LEMMA OneReleases ==
  ASSUME LockInv, NEW t \in Threads, UNCHANGED money, accMu' = Released(t),
         \/ mu' = Nobody /\ th[t].at = "resync"
         \/ mu' = mu /\ th[t].at \notin {"resync", "crashed"},
         DOMAIN th' = Threads, \A s \in Threads \ {t} : th'[s] = th[s],
         DOMAIN th'[t] = Fields, th'[t].seen \in Nat,
         th'[t].at \notin Holding, th'[t].acc \notin Users
  PROVE  Kept
  <1>1. accMu' \in [Users -> Threads \cup {Nobody}]
    BY DEF LockInv, Shape, Released
  <1>2. \A s \in Threads \ {t} : \A u \in Users : accMu'[u] = s <=> accMu[u] = s
    BY ThreadsApart DEF Released
  <1>3. mu' # t /\ \A u \in Users : accMu'[u] # t
    BY ThreadsApart DEF Released, LockInv, HoldsItsOwn
  <1>4. HoldsItsOwn(t)' /\ BalanceIsThere(t)'
    BY <1>3 DEF HoldsItsOwn, BalanceIsThere, Holding, Relying
  <1>5. \A s \in Threads \ {t} : mu' = s <=> mu = s
    BY ThreadsApart DEF LockInv, HoldsItsOwn
  <1> QED BY <1>1, <1>2, <1>4, <1>5, OthersKeep DEF Holding

LEMMA CrashKeeps ==
  ASSUME LockInv, Crashes, UNCHANGED money
  PROVE  Kept
  <1> DEFINE crashed == Thread("crashed", "plain", Null, <<>>, Null)
  <1>1. DOMAIN crashed = Fields /\ crashed.at = "crashed" /\ crashed.seen = 0
    BY DEF Sleeping, Thread, Fields
  <1> HIDE DEF crashed
  <1>2. th' = [t \in Threads |-> crashed] /\ UNCHANGED accMu
    BY DEF Crashes, crashed
  <1> QED BY <1>1, <1>2 DEF LockInv, Shape, Kept, NobodyPays

(* Accounts are destroyed: their mutexes and the pointers to them are gone together. *)
LEMMA DestroyFields ==
  ASSUME NEW gone, NEW threads, \A s \in Threads : DOMAIN threads[s] = Fields, Destroy(gone, threads)
  PROVE  /\ DOMAIN th' = Threads
         /\ \A s \in Threads : /\ DOMAIN th'[s] = Fields
                               /\ th'[s].at = threads[s].at /\ th'[s].seen = threads[s].seen
                               /\ th'[s].acc = Destroyed(threads[s].acc, gone)
  BY DEF Destroy, Fields

LEMMA DestroyKeeps ==
  ASSUME LockInv, NEW gone, UNCHANGED money,
         \A u \in Users : accMu'[u] = IF u \in gone THEN Nobody ELSE accMu[u],
         NEW s \in Threads, th'[s].at = th[s].at, th'[s].seen = th[s].seen,
         th'[s].acc = Destroyed(th[s].acc, gone), th[s].at # "crashed",
         mu' = s <=> mu = s
  PROVE  HoldsItsOwn(s)' /\ BalanceIsThere(s)'
  <1>1. Freed \notin Users /\ Nobody # s
    BY PointerAssumption, ThreadsApart
  <1>2. HoldsItsOwn(s) /\ BalanceIsThere(s)
    BY DEF LockInv
  <1> QED BY <1>1, <1>2 DEF HoldsItsOwn, BalanceIsThere, Destroyed

-----------------------------------------------------------------------------
(* Every step keeps the invariant. *)

LEMMA GetAccountKeeps ==
  ASSUME LockInv, NEW t \in Threads, GetAccount(t)
  PROVE  Kept
  <1> DEFINE gone == cache \ cache'
             threads == Goto(t, "resync")
  <1>1. /\ \A s \in Threads : DOMAIN threads[s] = Fields
        /\ \A s \in Threads \ {t} : threads[s] = th[s]
        /\ threads[t].at = "resync" /\ threads[t].acc = th[t].acc /\ threads[t].seen = th[t].seen
    BY DEF LockInv, Shape, Goto, Fields
  <1>2. Destroy(gone, threads) /\ th[t].at = "pool" /\ mu = Nobody /\ mu' = t /\ UNCHANGED money
    BY DEF GetAccount
  <1> HIDE DEF gone, threads
  <1>3. /\ DOMAIN th' = Threads
        /\ \A s \in Threads : /\ DOMAIN th'[s] = Fields
                              /\ th'[s].at = threads[s].at /\ th'[s].seen = threads[s].seen
                              /\ th'[s].acc = Destroyed(threads[s].acc, gone)
    BY <1>1, <1>2, DestroyFields
  <1>4. accMu' = [u \in Users |-> IF u \in gone THEN Nobody ELSE accMu[u]]
    BY <1>2 DEF Destroy
  <1>5. Shape'
    BY <1>1, <1>2, <1>3, <1>4 DEF LockInv, Shape
  <1>6. ASSUME NEW s \in Threads \ {t}, th'[s].at # "crashed"
        PROVE  HoldsItsOwn(s)' /\ BalanceIsThere(s)'
    BY <1>1, <1>2, <1>3, <1>4, <1>6, DestroyKeeps, ThreadsApart
  <1>7. HoldsItsOwn(t)' /\ BalanceIsThere(t)'
    <2>1. HoldsItsOwn(t) /\ BalanceIsThere(t)
      BY <1>2 DEF LockInv
    <2>2. th'[t].at = "resync" /\ th'[t].seen = th[t].seen /\ th'[t].acc = Destroyed(th[t].acc, gone)
      BY <1>1, <1>3
    <2>3. Freed \notin Users /\ Nobody # t
      BY PointerAssumption, ThreadsApart
    <2> QED BY <1>2, <1>4, <2>1, <2>2, <2>3 DEF HoldsItsOwn, BalanceIsThere, Destroyed, Holding, Relying
  <1>8. NobodyPays
    BY <1>1, <1>3 DEF NobodyPays
  <1> QED BY <1>5, <1>6, <1>7, <1>8 DEF LockInv, Kept

LEMMA GetAccountThrowsKeeps ==
  ASSUME LockInv, NEW t \in Threads, GetAccountThrows(t)
  PROVE  Kept
  <1> DEFINE gone == cache \ cache'
  <1>1. th[t].at = "pool" /\ mu = Nobody /\ UNCHANGED <<mu, money>>
    BY DEF GetAccountThrows
  <1>2. CASE Crashes
    BY <1>1, <1>2, CrashKeeps
  <1>3. CASE /\ accMu' = [u \in Users |-> IF u \in gone THEN Nobody ELSE Released(t)[u]]
             /\ th' = [s \in Threads |->
                         IF s = t THEN Sleeping
                         ELSE [th[s] EXCEPT !.acc = Destroyed(@, gone)]]
    <2> HIDE DEF gone
    <2>1. /\ DOMAIN th' = Threads
          /\ th'[t] = Sleeping
          /\ \A s \in Threads \ {t} : /\ DOMAIN th'[s] = Fields
                                      /\ th'[s].at = th[s].at /\ th'[s].seen = th[s].seen
                                      /\ th'[s].acc = Destroyed(th[s].acc, gone)
      BY <1>3 DEF LockInv, Shape, Fields
    <2>2. Shape'
      <3>1. accMu' \in [Users -> Threads \cup {Nobody}]
        BY <1>3 DEF Released, LockInv, Shape
      <3> QED BY <1>1, <2>1, <3>1, SleepingFields DEF LockInv, Shape
    <2>3. \A u \in Users : accMu'[u] \in {Nobody, accMu[u]} /\ accMu'[u] # t
      BY <1>3, ThreadsApart DEF Released, LockInv, Shape
    <2>4. ASSUME NEW s \in Threads \ {t}, th[s].at # "crashed"
          PROVE  HoldsItsOwn(s)' /\ BalanceIsThere(s)'
      <3>1. HoldsItsOwn(s) /\ BalanceIsThere(s)
        BY <2>4 DEF LockInv
      <3>2. Freed \notin Users /\ Nobody # s
        BY PointerAssumption, ThreadsApart
      <3>3. \A u \in Users : accMu[u] = s => accMu'[u] = IF u \in gone THEN Nobody ELSE s
        BY <1>3 DEF Released
      <3> QED BY <1>1, <2>1, <2>3, <3>1, <3>2, <3>3 DEF HoldsItsOwn, BalanceIsThere, Destroyed
    <2>5. HoldsItsOwn(t)' /\ BalanceIsThere(t)'
      BY <1>1, <2>1, <2>3, SleepingFields, ThreadsApart, PointerAssumption DEF HoldsItsOwn, BalanceIsThere, Holding, Relying
    <2>6. \A s \in Threads \ {t} : th'[s].at = th[s].at
      BY <2>1
    <2>7. NobodyPays
      BY <2>1, SleepingFields DEF NobodyPays
    <2> QED BY <2>2, <2>4, <2>5, <2>6, <2>7 DEF LockInv, Kept
  <1> QED BY <1>2, <1>3 DEF GetAccountThrows

LEMMA LeaveKeeps ==
  ASSUME LockInv, NEW t \in Threads, UNCHANGED money, Leave(t),
         \/ mu' = Nobody /\ th[t].at = "resync"
         \/ mu' = mu /\ th[t].at \notin {"resync", "crashed"}
  PROVE  Kept
  <1>1. /\ DOMAIN th' = Threads /\ \A s \in Threads \ {t} : th'[s] = th[s]
        /\ DOMAIN th'[t] = Fields
        /\ th'[t].at = "idle" /\ th'[t].acc = Null /\ th'[t].seen = 0
    BY LeaveFields DEF Leave, LockInv
  <1> QED BY <1>1, OneReleases, PointerAssumption DEF Leave, Holding

LEMMA SleepKeeps ==
  ASSUME LockInv, NEW t \in Threads, UNCHANGED <<mu, accMu, money>>,
         th' = [th EXCEPT ![t] = Sleeping], th[t].at \notin Holding \cup {"crashed"}
  PROVE  Kept
  <1>1. /\ DOMAIN th' = Threads /\ \A s \in Threads \ {t} : th'[s] = th[s]
        /\ DOMAIN th'[t] = Fields
        /\ th'[t].at = "idle" /\ th'[t].acc = Null /\ th'[t].seen = 0
    BY LeaveFields DEF LockInv
  <1> QED BY <1>1, OneThread, PointerAssumption DEF Holding

(* The handler. *)

LEMMA ReceivePlainKeeps == ASSUME LockInv, ReceivePlain PROVE Kept
  <1>1. CASE UNCHANGED th
    BY <1>1 DEF ReceivePlain, LockInv, Shape, HoldsItsOwn, BalanceIsThere, Kept, NobodyPays
  <1>2. CASE ~UNCHANGED th
    <2>1. PICK u \in Users, kind \in Kinds, w \in Workers :
            /\ th[w].at = "idle"
            /\ th' = [th EXCEPT ![w] = Thread("start", kind, u, <<>>, Null)]
      BY <1>2 DEF ReceivePlain
    <2>2. /\ DOMAIN th' = Threads /\ \A s \in Threads \ {w} : th'[s] = th[s]
          /\ DOMAIN th'[w] = Fields
          /\ th'[w].at = "start" /\ th'[w].acc = Null /\ th'[w].seen = 0
      BY <2>1, ThreadsApart DEF LockInv, Shape, Thread, Sleeping, Fields
    <2> QED BY <2>1, <2>2, ThreadsApart, PointerAssumption, OneThread DEF ReceivePlain, Holding
  <1> QED BY <1>1, <1>2

LEMMA ReceiveKeeps == ASSUME LockInv, Receive PROVE Kept
  <1>1. th[Handler].at = "idle" /\ UNCHANGED <<mu, accMu, money>>
    BY DEF Receive
  <1>2. /\ DOMAIN th' = Threads /\ \A s \in Threads \ {Handler} : th'[s] = th[s]
        /\ DOMAIN th'[Handler] = Fields
        /\ th'[Handler].at = "pool" /\ th'[Handler].acc = Null /\ th'[Handler].seen = 0
    BY ThreadsApart DEF Receive, LockInv, Shape, Thread, Sleeping, Fields
  <1>3. HoldsItsOwn(Handler)' /\ BalanceIsThere(Handler)'
    BY <1>1, <1>2, ThreadsApart, PointerAssumption
       DEF LockInv, HoldsItsOwn, BalanceIsThere, Holding
  <1>4. accMu' \in [Users -> Threads \cup {Nobody}]
    BY <1>1 DEF LockInv, Shape
  <1> QED BY <1>1, <1>2, <1>3, <1>4, ThreadsApart, OthersKeep

LEMMA HandlerResyncKeeps == ASSUME LockInv, HandlerResync PROVE Kept
  <1>1. PICK w \in Workers : th[w].at = "idle" /\ Start(Handler, w, AccountOf(Handler))
    BY DEF HandlerResync
  <1>2. mu' = Nobody /\ UNCHANGED <<accMu, money>> /\ th[Handler].at = "resync"
    BY DEF HandlerResync, CanResync
  <1>3. w \in Threads /\ w # Handler
    BY ThreadsApart, ThreadsAssumption
  <1>4. /\ DOMAIN th' = Threads
        /\ \A s \in Threads \ {Handler, w} : th'[s] = th[s]
        /\ th'[Handler] = Sleeping
        /\ DOMAIN th'[w] = Fields
        /\ th'[w].at = "start" /\ th'[w].acc = th[Handler].acc /\ th'[w].seen = th[Handler].seen
    BY <1>1, <1>3, ThreadsApart DEF Start, LockInv, Shape, Fields
  <1>5. HoldsItsOwn(Handler) /\ HoldsItsOwn(w) /\ th[Handler].acc \notin Users
    BY <1>1, <1>2, <1>3, ThreadsApart DEF LockInv, HoldsItsOwn
  <1>6. Shape'
    BY <1>2, <1>3, <1>4, ThreadsApart, SleepingFields DEF LockInv, Shape
  <1>7. ASSUME NEW s \in Threads \ {Handler, w}, th'[s].at # "crashed"
        PROVE  HoldsItsOwn(s)' /\ BalanceIsThere(s)'
    BY <1>2, <1>4, <1>7, ThreadsApart DEF LockInv, HoldsItsOwn, BalanceIsThere
  <1>8. HoldsItsOwn(Handler)' /\ BalanceIsThere(Handler)'
    BY <1>2, <1>4, <1>5, ThreadsApart, SleepingFields, PointerAssumption
       DEF HoldsItsOwn, BalanceIsThere, Holding, Relying
  <1>9. HoldsItsOwn(w)' /\ BalanceIsThere(w)'
    BY <1>1, <1>2, <1>3, <1>4, <1>5, ThreadsApart DEF HoldsItsOwn, BalanceIsThere, Holding, Relying
  <1>10. NobodyPays
    BY <1>4, SleepingFields DEF NobodyPays
  <1> QED BY <1>6, <1>7, <1>8, <1>9, <1>10 DEF LockInv, Kept

(* The pool, for a worker. *)

LEMMA WorkerResyncKeeps == ASSUME LockInv, NEW t \in Workers, WorkerResync(t) PROVE Kept
  <1>1. t \in Threads /\ th[t].at = "resync" /\ mu' = Nobody /\ UNCHANGED money
    BY ThreadsApart DEF WorkerResync, CanResync
  <1>2. CASE Leave(t)
    BY <1>1, <1>2, LeaveKeeps
  <1>3. CASE th' = Goto(t, "transfer") /\ UNCHANGED accMu
    <2>1. /\ DOMAIN th' = Threads /\ \A s \in Threads \ {t} : th'[s] = th[s]
          /\ DOMAIN th'[t] = Fields
          /\ th'[t].at = "transfer" /\ th'[t].acc = th[t].acc /\ th'[t].seen = th[t].seen
      BY <1>1, <1>3, GotoFields DEF LockInv
    <2>2. HoldsItsOwn(t)' /\ BalanceIsThere(t)'
      BY <1>1, <1>3, <2>1, ThreadsApart, ThreadsAssumption
         DEF LockInv, HoldsItsOwn, BalanceIsThere, Holding, Relying
    <2>3. mu = t
      BY <1>1 DEF LockInv, HoldsItsOwn
    <2> QED BY <1>1, <1>3, <2>1, <2>2, <2>3, ThreadsApart, OthersKeep DEF LockInv, Shape
  <1> QED BY <1>2, <1>3 DEF WorkerResync

LEMMA ResyncThrowsKeeps == ASSUME LockInv, NEW t \in Threads, ResyncThrows(t) PROVE Kept
  BY LeaveKeeps, CrashKeeps DEF ResyncThrows, CanResync

(* The commands that hold no account. *)

LEMMA SleepersKeep ==
  ASSUME LockInv, NEW t \in Threads,
         Answer(t) \/ Toggle(t) \/ SaveWallets(t) \/ Decline(t) \/ EndWalk(t)
  PROVE  Kept
  BY SleepKeeps DEF Answer, Toggle, SaveWallets, Decline, EndWalk, Holding

LEMMA CrashersKeep ==
  ASSUME LockInv, NEW t \in Threads, ReadBadPointer(t) \/ UseFreed(t)
  PROVE  Kept
  BY CrashKeeps DEF ReadBadPointer, UseFreed

LEMMA OpenAddressKeeps == ASSUME LockInv, NEW t \in Workers, OpenAddress(t) PROVE Kept
  <1>1. t \in Threads /\ th[t].at = "start" /\ UNCHANGED <<mu, accMu, money>>
    BY ThreadsApart DEF OpenAddress
  <1>2. /\ DOMAIN th' = Threads /\ \A s \in Threads \ {t} : th'[s] = th[s]
        /\ DOMAIN th'[t] = Fields
        /\ th'[t].at = "pool" /\ th'[t].acc = th[t].acc /\ th'[t].seen = th[t].seen
    BY <1>1 DEF OpenAddress, LockInv, Shape, Fields
  <1>3. HoldsItsOwn(t)' /\ BalanceIsThere(t)'
    BY <1>1, <1>2, ThreadsApart DEF LockInv, HoldsItsOwn, BalanceIsThere, Holding
  <1> QED BY <1>1, <1>2, <1>3, OthersKeep DEF LockInv, Shape

LEMMA ReadersKeep ==
  ASSUME LockInv, NEW t \in Workers, ReadPointer(t) \/ ReadId(t) \/ BeginWalk(t) \/ Walk(t)
  PROVE  Kept
  <1>1. /\ t \in Threads /\ t # Handler
        /\ th[t].at \in {"start", "next", "walk"} /\ UNCHANGED <<mu, accMu, money>>
    BY ThreadsApart, ThreadsAssumption DEF ReadPointer, ReadId, BeginWalk, Walk
  <1>2. /\ DOMAIN th' = Threads /\ \A s \in Threads \ {t} : th'[s] = th[s]
        /\ DOMAIN th'[t] = Fields
        /\ th'[t].at \in {"lock", "restart", "walk", "visit"} /\ th'[t].seen = th[t].seen
    <2>1. CASE ReadPointer(t)
      BY <1>1, <2>1 DEF ReadPointer, LockInv, Shape, Fields
    <2>2. CASE ReadId(t)
      BY <1>1, <2>2 DEF ReadId, LockInv, Shape, Fields
    <2>3. CASE BeginWalk(t)
      BY <1>1, <2>3 DEF BeginWalk, LockInv, Shape, Fields
    <2>4. CASE Walk(t)
      <3>1. PICK u : th' = [th EXCEPT ![t].at = "visit", ![t].acc = u, ![t].left = @ \ {u}]
        BY <2>4 DEF Walk
      <3> QED BY <1>1, <3>1 DEF LockInv, Shape, Fields
    <2> QED BY <2>1, <2>2, <2>3, <2>4
  <1> QED BY <1>1, <1>2, OneThread DEF Holding, LockInv, Shape

LEMMA VisitKeeps == ASSUME LockInv, NEW t \in Workers, Visit(t) PROVE Kept
  <1>1. t \in Threads /\ t # Handler /\ th[t].at = "visit" /\ UNCHANGED <<mu, accMu, money>>
    BY ThreadsApart, ThreadsAssumption DEF Visit
  <1>2. /\ DOMAIN th' = Threads /\ \A s \in Threads \ {t} : th'[s] = th[s]
        /\ DOMAIN th'[t] = Fields
        /\ th'[t].at = "walk" /\ th'[t].acc = th[t].acc /\ th'[t].seen = th[t].seen
    BY <1>1, GotoFields DEF Visit, LockInv
  <1> QED BY <1>1, <1>2, OneThread DEF Holding, LockInv, Shape

(* Whoever throws leaves its account unlocked. *)
LEMMA ThrowersKeep ==
  ASSUME LockInv, NEW t \in Threads,
         VisitThrows(t) \/ GuardThrows(t) \/ TransferThrows(t) \/ NoteThrows(t)
  PROVE  Kept
  BY LeaveKeeps DEF VisitThrows, GuardThrows, TransferThrows, NoteThrows

(* Accounts that are given up. *)

LEMMA AllDestroyKeep ==
  ASSUME LockInv, NEW gone, UNCHANGED <<mu, money>>, NEW threads, Destroy(gone, threads),
         \A s \in Threads : /\ DOMAIN threads[s] = Fields
                             /\ \/ threads[s] = th[s]
                                \/ threads[s] = Sleeping /\ th[s].at = "restart"
  PROVE  Kept
  <1>1. /\ DOMAIN th' = Threads
        /\ \A s \in Threads : /\ DOMAIN th'[s] = Fields
                              /\ th'[s].at = threads[s].at /\ th'[s].seen = threads[s].seen
                              /\ th'[s].acc = Destroyed(threads[s].acc, gone)
    BY DestroyFields
  <1>2. accMu' = [u \in Users |-> IF u \in gone THEN Nobody ELSE accMu[u]]
    BY DEF Destroy
  <1>3. Shape'
    BY <1>1, <1>2, SleepingFields DEF LockInv, Shape
  <1>4. ASSUME NEW s \in Threads, threads[s] = th[s], th[s].at # "crashed"
        PROVE  HoldsItsOwn(s)' /\ BalanceIsThere(s)'
    BY <1>1, <1>2, <1>4, DestroyKeeps
  <1>5. ASSUME NEW s \in Threads, threads[s] = Sleeping, th[s].at = "restart"
        PROVE  HoldsItsOwn(s)' /\ BalanceIsThere(s)'
    <2>1. mu # s /\ \A u \in Users : accMu[u] # s
      BY <1>5 DEF LockInv, HoldsItsOwn, Holding
    <2>2. th'[s].at = "idle" /\ th'[s].acc \notin Users
      BY <1>1, <1>5, SleepingFields, PointerAssumption DEF Destroyed
    <2> QED BY <1>2, <2>1, <2>2, ThreadsApart DEF HoldsItsOwn, BalanceIsThere, Holding, Relying
  <1>6. NobodyPays
    BY <1>1, SleepingFields DEF NobodyPays
  <1>7. \A s \in Threads : th'[s].at = "crashed" \/ (HoldsItsOwn(s)' /\ BalanceIsThere(s)')
    BY <1>1, <1>4, <1>5
  <1> QED BY <1>3, <1>6, <1>7 DEF LockInv, Kept

LEMMA RestartWalletKeeps == ASSUME LockInv, NEW t \in Threads, RestartWallet(t) PROVE Kept
  <1> DEFINE threads == [th EXCEPT ![t] = Sleeping]
  <1>1. \A s \in Threads : /\ DOMAIN threads[s] = Fields
                           /\ \/ threads[s] = th[s]
                              \/ threads[s] = Sleeping /\ th[s].at = "restart"
    BY SleepingFields DEF RestartWallet, LockInv, Shape
  <1>2. Destroy(cache \ cache', threads) /\ UNCHANGED <<mu, money>>
    BY DEF RestartWallet
  <1> HIDE DEF threads
  <1> QED BY <1>1, <1>2, AllDestroyKeep

LEMMA WatchDogKeeps == ASSUME LockInv, WatchDog PROVE Kept
  <1>1. Destroy(cache \ cache', th) /\ UNCHANGED <<mu, money>>
    BY DEF WatchDog
  <1> QED BY <1>1, AllDestroyKeep DEF LockInv, Shape

(* A transfer, step by step. *)

LEMMA LockKeeps == ASSUME LockInv, NEW t \in Workers, Lock(t) PROVE Kept
  <1> DEFINE a == th[t].acc
  <1>1. /\ t \in Threads /\ t # Handler /\ th[t].at = "lock" /\ a \in Users /\ accMu[a] = Nobody
        /\ UNCHANGED <<mu, money>>
    BY ThreadsApart, ThreadsAssumption DEF Lock, Alive
  <1>2. accMu' = [accMu EXCEPT ![a] = t]
    BY DEF Lock, LockedBy
  <1>3. /\ DOMAIN th' = Threads /\ \A s \in Threads \ {t} : th'[s] = th[s]
        /\ DOMAIN th'[t] = Fields
        /\ th'[t].at = "guard" /\ th'[t].acc = a /\ th'[t].seen = money[a]
    BY <1>1 DEF Lock, LockInv, Shape, Fields
  <1> HIDE DEF a
  <1>4. money[a] \in Nat /\ accMu' \in [Users -> Threads \cup {Nobody}]
    BY <1>1, <1>2 DEF LockInv, Shape
  <1>5. \A u \in Users : accMu[u] # t /\ mu # t
    BY <1>1 DEF LockInv, HoldsItsOwn, Holding
  <1>6. \A u \in Users : accMu'[u] = IF u = a THEN t ELSE accMu[u]
    BY <1>1, <1>2 DEF LockInv, Shape
  <1>7. HoldsItsOwn(t)' /\ BalanceIsThere(t)'
    BY <1>1, <1>3, <1>4, <1>5, <1>6, ThreadsApart DEF HoldsItsOwn, BalanceIsThere, Holding
  <1>8. \A s \in Threads \ {t} : \A u \in Users : accMu'[u] = s <=> accMu[u] = s
    BY <1>1, <1>6, ThreadsApart
  <1> QED BY <1>1, <1>3, <1>4, <1>7, <1>8, OthersKeep

LEMMA GuardKeeps == ASSUME LockInv, NEW t \in Workers, Guard(t) PROVE Kept
  <1>1. /\ t \in Threads /\ t # Handler /\ th[t].at = "guard"
        /\ UNCHANGED <<mu, accMu, money>>
    BY ThreadsApart, ThreadsAssumption DEF Guard
  <1>2. /\ DOMAIN th' = Threads /\ \A s \in Threads \ {t} : th'[s] = th[s]
        /\ DOMAIN th'[t] = Fields /\ th'[t].at \in {"pool", "transfer"}
        /\ th'[t].acc = th[t].acc /\ th'[t].seen = th[t].seen
    <2>1. CASE ToUser(t)
      BY <1>1, <2>1 DEF Guard, LockInv, Shape, Fields
    <2>2. CASE ~ToUser(t)
      BY <1>1, <2>2, GotoFields DEF Guard, LockInv
    <2> QED BY <2>1, <2>2
  <1>3. HoldsItsOwn(t)' /\ BalanceIsThere(t)'
    BY <1>1, <1>2 DEF LockInv, HoldsItsOwn, BalanceIsThere, Holding, Relying
  <1> QED BY <1>1, <1>2, <1>3, OthersKeep DEF LockInv, Shape

LEMMA SetTXNoteKeeps == ASSUME LockInv, NEW t \in Workers, SetTXNote(t) PROVE Kept
  <1>1. t \in Threads /\ th[t].at = "note" /\ accMu' = Released(t) /\ UNCHANGED <<mu, money>>
    BY ThreadsApart DEF SetTXNote
  <1>2. /\ DOMAIN th' = Threads /\ \A s \in Threads \ {t} : th'[s] = th[s]
        /\ DOMAIN th'[t] = Fields /\ th'[t].at \in {"next", "answer", "idle"}
        /\ th'[t].acc = Null /\ th'[t].seen = 0
    BY <1>1 DEF SetTXNote, LockInv, Shape, Thread, Sleeping, Fields
  <1> QED BY <1>1, <1>2, OneReleases, PointerAssumption DEF Holding

(* The only step that takes money: it takes it from the account it has locked, on which
   no other thread relies. *)
LEMMA TransferKeeps == ASSUME LockInv, NEW t \in Workers, Transfer(t) PROVE LockInv'
  <1> DEFINE a == th[t].acc
             n == Amount(t)
  <1>1. /\ t \in Threads /\ t # Handler /\ th[t].at = "transfer" /\ a \in Users
        /\ UNCHANGED <<mu, accMu>>
    BY ThreadsApart, ThreadsAssumption DEF Transfer, Alive
  <1>2. HoldsItsOwn(t) /\ accMu[a] = t
    BY <1>1 DEF LockInv, HoldsItsOwn, Holding
  <1>3. /\ DOMAIN th' = Threads /\ \A s \in Threads \ {t} : th'[s] = th[s]
        /\ DOMAIN th'[t] = Fields
        /\ th'[t].at = "note" /\ th'[t].acc = a /\ th'[t].seen = th[t].seen
    BY <1>1, GotoFields DEF Transfer, LockInv
  <1>4. n \in 1 .. money[a]
    BY DEF Transfer
  <1>5. money' = [u \in Users |-> IF u = a THEN money[u] - n
                                  ELSE IF u \in Receiver(t) THEN money[u] + n ELSE money[u]]
    BY DEF Transfer
  <1> HIDE DEF a, n
  <1>6. money \in [Users -> Nat] /\ n \in Nat /\ n <= money[a]
    BY <1>1, <1>4 DEF LockInv, Shape
  <1>7. money' \in [Users -> Nat] /\ \A u \in Users \ {a} : money[u] <= money'[u]
    BY <1>1, <1>5, <1>6
  <1>8. Shape'
    BY <1>1, <1>3, <1>7 DEF LockInv, Shape
  <1>9. HoldsItsOwn(t)' /\ BalanceIsThere(t)'
    BY <1>1, <1>2, <1>3 DEF HoldsItsOwn, BalanceIsThere, Holding, Relying
  <1>10. ASSUME NEW s \in Threads \ {t}, th[s].at # "crashed"
         PROVE  HoldsItsOwn(s)' /\ BalanceIsThere(s)'
    <2>1. HoldsItsOwn(s) /\ BalanceIsThere(s) /\ th'[s] = th[s]
      BY <1>3, <1>10 DEF LockInv
    <2>2. HoldsItsOwn(s)'
      BY <1>1, <2>1 DEF HoldsItsOwn
    <2>3. ASSUME th[s].at \in Relying, th[s].acc \in Users
          PROVE  th[s].seen <= money'[th[s].acc]
      <3>1. th[s].acc # a /\ th[s].seen <= money[th[s].acc]
        BY <1>2, <2>1, <2>3 DEF HoldsItsOwn, BalanceIsThere, Relying
      <3>2. money[th[s].acc] \in Nat /\ money'[th[s].acc] \in Nat /\ th[s].seen \in Nat
        BY <1>6, <1>7, <2>3 DEF LockInv, Shape
      <3> QED BY <1>7, <2>3, <3>1, <3>2
    <2> QED BY <2>1, <2>2, <2>3 DEF BalanceIsThere
  <1>11. \A s \in Threads \ {t} : th'[s].at = th[s].at
    BY <1>3
  <1> QED BY <1>8, <1>9, <1>10, <1>11 DEF LockInv

(* Every step: only Transfer takes a thread to its note. *)

LEMMA CommandKeeps ==
  ASSUME LockInv, NEW t \in Workers, Command(t)
  PROVE  Kept \/ (Transfer(t) /\ LockInv')
  <1> t \in Threads
    BY ThreadsApart
  <1>1. CASE GetAccount(t) \/ GetAccountThrows(t)
    BY <1>1, GetAccountKeeps, GetAccountThrowsKeeps
  <1>2. CASE WorkerResync(t) \/ ResyncThrows(t)
    BY <1>2, WorkerResyncKeeps, ResyncThrowsKeeps
  <1>3. CASE Answer(t) \/ Toggle(t) \/ SaveWallets(t) \/ Decline(t) \/ EndWalk(t)
    BY <1>3, SleepersKeep
  <1>4. CASE ReadPointer(t) \/ ReadId(t) \/ BeginWalk(t) \/ Walk(t)
    BY <1>4, ReadersKeep
  <1>5. CASE ReadBadPointer(t) \/ UseFreed(t)
    BY <1>5, CrashersKeep
  <1>6. CASE OpenAddress(t) \/ Visit(t) \/ RestartWallet(t)
    BY <1>6, OpenAddressKeeps, VisitKeeps, RestartWalletKeeps
  <1>7. CASE VisitThrows(t) \/ GuardThrows(t) \/ TransferThrows(t) \/ NoteThrows(t)
    BY <1>7, ThrowersKeep
  <1>8. CASE Lock(t) \/ Guard(t) \/ SetTXNote(t)
    BY <1>8, LockKeeps, GuardKeeps, SetTXNoteKeeps
  <1>9. CASE Transfer(t)
    BY <1>9, TransferKeeps
  <1> QED BY <1>1, <1>2, <1>3, <1>4, <1>5, <1>6, <1>7, <1>8, <1>9 DEF Command

LEMMA NextKeeps ==
  ASSUME LockInv, Next
  PROVE  Kept \/ \E t \in Workers : Transfer(t) /\ LockInv'
  <1>1. CASE ReceivePlain \/ Receive \/ WatchDog
    BY <1>1, ReceivePlainKeeps, ReceiveKeeps, WatchDogKeeps
  <1>2. CASE HandlerStep
    BY <1>2, ThreadsApart, GetAccountKeeps, GetAccountThrowsKeeps, HandlerResyncKeeps,
       ResyncThrowsKeeps DEF HandlerStep
  <1>3. CASE \E t \in Workers : Command(t)
    BY <1>3, CommandKeeps
  <1> QED BY <1>1, <1>2, <1>3 DEF Next

LEMMA StutterKeeps == ASSUME LockInv, UNCHANGED vars PROVE LockInv'
  BY DEF vars, LockInv, Shape, HoldsItsOwn, BalanceIsThere

LEMMA LockStep == LockInv /\ [Next]_vars => LockInv'
  BY NextKeeps, StutterKeeps DEF Kept

-----------------------------------------------------------------------------
(* Throughout, a mutex is held only by a thread in the middle of the work it was locked   *)
(* for: what resyncAccount, tranfer and getAccount lock is unlocked on every way out of   *)
(* them, and a command that is over, or not begun, keeps nobody waiting.                  *)
THEOREM MutexesHoldNothingBack == Spec => []MutexesAreReleased
  <1>1. LockInv => MutexesAreReleased
    BY DEF LockInv, HoldsItsOwn, Holding, MutexesAreReleased
  <1> QED BY <1>1, LockInit, LockStep, PTL DEF Spec

(* Commands stop each other in one way only: one of them holds the pool's mutex and waits  *)
(* in resyncAccount for the account that another one pays from, which waits for the pool    *)
(* to give it its receiver's.  Without that pair there is always one that can go on: the    *)
(* mutexes are recursive, and nothing else asks for one while it holds one.                 *)
THEOREM NoOtherCircle == Spec => []OnlyTheCircleStops
  <1>1. ASSUME LockInv, NEW waiting \in SUBSET Threads, waiting # {},
               \A t \in waiting : \E h \in waiting : WaitsFor(t, h)
        PROVE  \E t, h \in waiting : Circle(t, h)
    <2> USE DEF NeedsPool, NeedsAccount, FreeFor
    <2>1. ASSUME NEW s \in waiting PROVE s \in Threads /\ HoldsItsOwn(s)
      BY <1>1, <2>1 DEF LockInv, WaitsFor
    <2>2. ASSUME NEW h \in waiting, NEW u \in Users, accMu[u] = h
          PROVE  th[h].at \in {"pool", "resync"}
      BY <1>1, <2>1, <2>2 DEF WaitsFor, HoldsItsOwn, Holding
    <2>3. ASSUME NEW t \in waiting, mu = t
          PROVE  \E h \in waiting : Circle(t, h)
      <3>1. th[t].at = "resync"
        BY <2>1, <2>3 DEF HoldsItsOwn
      <3>2. PICK h \in waiting : accMu[th[t].want] = h /\ h # t /\ th[t].want \in Users
        BY <1>1, <3>1 DEF WaitsFor
      <3>3. th[h].at # "resync"
        BY <2>1, <2>3, <3>2 DEF HoldsItsOwn
      <3> QED BY <2>2, <2>3, <3>1, <3>2, <3>3 DEF Circle
    <2>4. PICK t \in waiting, h \in waiting : WaitsFor(t, h)
      BY <1>1
    <2>5. CASE mu = h
      BY <2>3, <2>5
    <2>6. CASE mu # h
      <3>1. th[h].at \in {"pool", "resync"}
        BY <2>2, <2>4, <2>6 DEF WaitsFor
      <3>2. th[h].at = "pool"
        BY <2>1, <2>6, <3>1 DEF HoldsItsOwn
      <3>3. PICK g \in waiting : mu = g
        BY <1>1, <3>2 DEF WaitsFor
      <3> QED BY <2>3, <3>3
    <2> QED BY <2>5, <2>6
  <1>2. LockInv => OnlyTheCircleStops
    BY <1>1 DEF OnlyTheCircleStops
  <1> QED BY <1>2, LockInit, LockStep, PTL DEF Spec

(* A command that pays, in tranfer or sweepAll, finds in the account at least what it read *)
(* there before it checked the amount: no other command has spent it in between.           *)
THEOREM CheckedMoneyIsThere == Spec => SpendsWhatItChecked
  <1>1. ASSUME LockInv, [Next]_vars
        PROVE  [\A t \in Workers : Pays(t) => th[t].seen <= money[th[t].acc]]_vars
    <2>1. SUFFICES ASSUME Next, NEW t \in Workers, Pays(t)
                   PROVE  th[t].seen <= money[th[t].acc]
      BY <1>1
    <2>2. t \in Threads /\ th[t].at = "transfer" /\ th'[t].at = "note"
      BY <2>1, ThreadsApart DEF Pays
    <2>3. PICK s \in Workers : Transfer(s)
      BY <1>1, <2>1, <2>2, NextKeeps DEF Kept, NobodyPays
    <2>4. t = s
      <3>1. s \in Threads /\ th' = Goto(s, "note")
        BY <2>3, ThreadsApart DEF Transfer
      <3> QED BY <1>1, <2>2, <3>1, GotoFields DEF LockInv
    <2> QED BY <1>1, <2>2, <2>3, <2>4 DEF Transfer, Alive, LockInv, BalanceIsThere, Relying, Holding
  <1> QED BY <1>1, LockInit, LockStep, PTL DEF Spec, SpendsWhatItChecked

-----------------------------------------------------------------------------
(* Types, and what a thread needs to go on: whose account it asks for, who sent its       *)
(* command, and whom it pays.                                                             *)

Asks(t) == th[t].at \in {"pool", "resync", "restart"} => th[t].want \in Users
Named(t) ==
    /\ ToUser(t) => th[t].to # <<>>
    /\ th[t].kind # "plain" => th[t].author \in Users

ThreadsTyped == th \in [Threads -> ThreadStates] /\ \A t \in Threads : Asks(t) /\ Named(t)
PoolTyped == cache \subseteq Users /\ newer \in [Users -> SUBSET Users] /\ MyAccount \in Pointers
LocksTyped == mu \in Threads \cup {Nobody} /\ accMu \in [Users -> Threads \cup {Nobody}]
RestTyped == money \in [Users -> Nat] /\ messages \in Nat /\ allowed \subseteq {"withdraw", "give"}

TypeInv == ThreadsTyped /\ PoolTyped /\ LocksTyped /\ RestTyped

LEMMA ThreadTyped ==
  ASSUME NEW at \in Stages, NEW kind \in CommandKinds, NEW author \in Users \cup {Null},
         NEW to \in Seq(Users), NEW want \in Users \cup {Null}
  PROVE  /\ Thread(at, kind, author, to, want) \in ThreadStates
         /\ Thread(at, kind, author, to, want).at = at
         /\ Thread(at, kind, author, to, want).kind = kind
         /\ Thread(at, kind, author, to, want).author = author
         /\ Thread(at, kind, author, to, want).to = to
         /\ Thread(at, kind, author, to, want).want = want
  BY DEF Thread, ThreadStates, Pointers

LEMMA NothingTyped ==
  ASSUME NEW at \in Stages, NEW kind \in CommandKinds, NEW author \in Users \cup {Null}
  PROVE  /\ Thread(at, kind, author, <<>>, Null) \in ThreadStates
         /\ Thread(at, kind, author, <<>>, Null).at = at
         /\ Thread(at, kind, author, <<>>, Null).kind = kind
         /\ Thread(at, kind, author, <<>>, Null).author = author
  BY DEF Thread, ThreadStates, Pointers

LEMMA PlainTyped ==
  ASSUME NEW at \in Stages
  PROVE  /\ Thread(at, "plain", Null, <<>>, Null) \in ThreadStates
         /\ Thread(at, "plain", Null, <<>>, Null).at = at
         /\ Thread(at, "plain", Null, <<>>, Null).kind = "plain"
  BY DEF Thread, ThreadStates, Pointers, CommandKinds, PlainKinds

LEMMA SleepingTyped == Sleeping \in ThreadStates /\ Sleeping.at = "idle" /\ Sleeping.kind = "plain"
  <1>1. "idle" \in Stages
    BY DEF Stages
  <1> QED BY <1>1, PlainTyped DEF Sleeping

LEMMA TypeInit == Init => TypeInv
  <1> SUFFICES ASSUME Init PROVE TypeInv
    OBVIOUS
  <1>1. ThreadsTyped
    BY SleepingTyped DEF Init, ThreadsTyped, Asks, Named, ToUser
  <1> QED BY <1>1 DEF Init, TypeInv, PoolTyped, LocksTyped, RestTyped, Pointers

LEMMA KindsTyped == Kinds \subseteq CommandKinds /\ Mentions \subseteq Seq(Users)
  BY KindsAssumption

(* One thread moves, to a state it can go on from. *)
LEMMA MoveTyped ==
  ASSUME ThreadsTyped, NEW t \in Threads, NEW r \in ThreadStates, th' = [th EXCEPT ![t] = r],
         r.at \in {"pool", "resync", "restart"} => r.want \in Users,
         r.kind \in {"give", "giveall"} => r.to # <<>>,
         r.kind # "plain" => r.author \in Users
  PROVE  ThreadsTyped'
  <1>1. /\ th' \in [Threads -> ThreadStates]
        /\ th'[t] = r /\ \A s \in Threads \ {t} : th'[s] = th[s]
    BY DEF ThreadsTyped
  <1> QED BY <1>1 DEF ThreadsTyped, Asks, Named, ToUser

LEMMA SleepTyped ==
  ASSUME ThreadsTyped, NEW t \in Threads, th' = [th EXCEPT ![t] = Sleeping]
  PROVE  ThreadsTyped'
  BY SleepingTyped, MoveTyped

(* Accounts are destroyed: pointers to them stay pointers. *)
LEMMA DestroyTyped ==
  ASSUME NEW gone, NEW threads \in [Threads -> ThreadStates],
         \A t \in Threads : /\ threads[t].at \in {"pool", "resync", "restart"} => threads[t].want \in Users
                            /\ threads[t].kind \in {"give", "giveall"} => threads[t].to # <<>>
                            /\ threads[t].kind # "plain" => threads[t].author \in Users,
         th' = [t \in Threads |-> [threads[t] EXCEPT !.acc = Destroyed(@, gone)]]
  PROVE  ThreadsTyped'
  <1>1. ASSUME NEW t \in Threads
        PROVE  /\ th'[t] \in ThreadStates
               /\ th'[t].at = threads[t].at /\ th'[t].want = threads[t].want
               /\ th'[t].kind = threads[t].kind /\ th'[t].to = threads[t].to
               /\ th'[t].author = threads[t].author
    <2>1. threads[t] \in ThreadStates /\ th'[t] = [threads[t] EXCEPT !.acc = Destroyed(@, gone)]
      OBVIOUS
    <2>2. Destroyed(threads[t].acc, gone) \in Pointers
      BY <2>1 DEF Destroyed, Pointers, ThreadStates
    <2> QED BY <2>1, <2>2 DEF ThreadStates
  <1>2. th' \in [Threads -> ThreadStates]
    BY <1>1
  <1> QED BY <1>1, <1>2 DEF ThreadsTyped, Asks, Named, ToUser

LEMMA CrashTyped == ASSUME Crashes PROVE ThreadsTyped'
  <1> DEFINE crashed == Thread("crashed", "plain", Null, <<>>, Null)
  <1>1. crashed \in ThreadStates /\ crashed.at = "crashed" /\ crashed.kind = "plain"
    BY PlainTyped DEF Stages
  <1> HIDE DEF crashed
  <1>2. th' = [t \in Threads |-> crashed]
    BY DEF Crashes, crashed
  <1> QED BY <1>1, <1>2 DEF ThreadsTyped, Asks, Named, ToUser

LEMMA ReceiveTyped == ASSUME TypeInv, ReceivePlain \/ Receive PROVE ThreadsTyped'
  <1>1. CASE ReceivePlain /\ UNCHANGED th
    BY <1>1 DEF TypeInv, ThreadsTyped, Asks, Named, ToUser
  <1>2. CASE ReceivePlain /\ ~UNCHANGED th
    <2>1. PICK u \in Users, kind \in Kinds \cap PlainKinds, w \in Workers :
            th' = [th EXCEPT ![w] = Thread("start", kind, u, <<>>, Null)]
      BY <1>2 DEF ReceivePlain
    <2> DEFINE r == Thread("start", kind, u, <<>>, Null)
    <2>2. r \in ThreadStates /\ r.at = "start" /\ r.kind = kind /\ r.author = u
      <3>1. kind \in CommandKinds /\ "start" \in Stages
        BY DEF CommandKinds, Stages
      <3> QED BY <3>1, NothingTyped
    <2>3. kind \notin {"give", "giveall"}
      BY DEF PlainKinds
    <2> HIDE DEF r
    <2>4. th' = [th EXCEPT ![w] = r] /\ w \in Threads
      BY <2>1, ThreadsApart DEF r
    <2> QED BY <2>2, <2>3, <2>4, MoveTyped DEF TypeInv
  <1>3. CASE Receive
    <2>1. PICK u \in Users, kind \in Kinds \cap WalletKinds, to \in Mentions :
            /\ (to # <<>>) <=> kind \in {"give", "giveall"}
            /\ th' = [th EXCEPT ![Handler] = Thread("pool", kind, u, to, u)]
      BY <1>3 DEF Receive
    <2> DEFINE r == Thread("pool", kind, u, to, u)
    <2>2. /\ r \in ThreadStates
          /\ r.at = "pool" /\ r.kind = kind /\ r.want = u /\ r.to = to /\ r.author = u
      <3>1. kind \in CommandKinds /\ "pool" \in Stages /\ to \in Seq(Users)
        BY KindsTyped DEF CommandKinds, Stages
      <3> QED BY <3>1, ThreadTyped
    <2>3. kind \in {"give", "giveall"} => to # <<>>
      BY <2>1
    <2>4. th' = [th EXCEPT ![Handler] = r] /\ Handler \in Threads
      BY <2>1, ThreadsApart
    <2> HIDE DEF r
    <2> QED BY <2>2, <2>3, <2>4, MoveTyped DEF TypeInv
  <1> QED BY <1>1, <1>2, <1>3

LEMMA GotoTyped ==
  ASSUME ThreadsTyped, NEW t \in Threads, NEW at \in Stages, th' = Goto(t, at),
         at \in {"pool", "resync", "restart"} => th[t].want \in Users
  PROVE  ThreadsTyped'
  <1> DEFINE r == [th[t] EXCEPT !.at = at]
  <1>1. th[t] \in ThreadStates /\ Named(t)
    BY DEF ThreadsTyped
  <1>2. /\ r \in ThreadStates /\ r.at = at /\ r.want = th[t].want
        /\ r.kind = th[t].kind /\ r.to = th[t].to /\ r.author = th[t].author
    BY <1>1 DEF ThreadStates
  <1>3. th' = [th EXCEPT ![t] = r]
    BY DEF Goto
  <1> HIDE DEF r
  <1> QED BY <1>1, <1>2, <1>3, MoveTyped DEF Named, ToUser

LEMMA GetAccountTyped == ASSUME TypeInv, NEW t \in Threads, GetAccount(t) PROVE ThreadsTyped'
  <1> DEFINE threads == Goto(t, "resync")
             gone == cache \ cache'
  <1>1. threads \in [Threads -> ThreadStates]
    BY DEF Goto, TypeInv, ThreadsTyped, ThreadStates, Stages
  <1>2. /\ \A s \in Threads \ {t} : threads[s] = th[s]
        /\ threads[t].want = th[t].want /\ threads[t].kind = th[t].kind
        /\ threads[t].to = th[t].to /\ threads[t].author = th[t].author
    BY DEF Goto, TypeInv, ThreadsTyped, ThreadStates
  <1>3. /\ th[t].want \in Users
        /\ th' = [s \in Threads |-> [threads[s] EXCEPT !.acc = Destroyed(@, gone)]]
    BY DEF GetAccount, Destroy, TypeInv, ThreadsTyped, Asks
  <1> HIDE DEF threads, gone
  <1>4. \A s \in Threads :
           /\ threads[s].at \in {"pool", "resync", "restart"} => threads[s].want \in Users
           /\ threads[s].kind \in {"give", "giveall"} => threads[s].to # <<>>
           /\ threads[s].kind # "plain" => threads[s].author \in Users
    BY <1>2, <1>3 DEF TypeInv, ThreadsTyped, Asks, Named, ToUser
  <1> QED BY <1>1, <1>3, <1>4, DestroyTyped

LEMMA GetAccountThrowsTyped ==
  ASSUME TypeInv, NEW t \in Threads, GetAccountThrows(t)
  PROVE  ThreadsTyped'
  <1> DEFINE gone == cache \ cache'
             threads == [th EXCEPT ![t] = Sleeping]
  <1>1. CASE Crashes
    BY <1>1, CrashTyped
  <1>2. CASE th' = [s \in Threads |-> IF s = t THEN Sleeping
                                      ELSE [th[s] EXCEPT !.acc = Destroyed(@, gone)]]
    <2> HIDE DEF gone
    <2>1. ASSUME NEW s \in Threads
          PROVE  /\ th'[s] \in ThreadStates
                 /\ \/ th'[s] = Sleeping
                    \/ /\ th'[s].at = th[s].at /\ th'[s].want = th[s].want
                       /\ th'[s].kind = th[s].kind /\ th'[s].to = th[s].to
                       /\ th'[s].author = th[s].author
      <3>1. CASE s = t
        BY <1>2, <3>1, SleepingTyped
      <3>2. CASE s # t
        <4>1. th[s] \in ThreadStates /\ th'[s] = [th[s] EXCEPT !.acc = Destroyed(@, gone)]
          BY <1>2, <3>2 DEF TypeInv, ThreadsTyped
        <4>2. Destroyed(th[s].acc, gone) \in Pointers
          BY <4>1 DEF Destroyed, Pointers, ThreadStates
        <4> QED BY <4>1, <4>2 DEF ThreadStates
      <3> QED BY <3>1, <3>2
    <2>2. DOMAIN th' = Threads /\ th' = [s \in Threads |-> th'[s]]
      BY <1>2
    <2>3. th' \in [Threads -> ThreadStates]
      BY <2>1, <2>2
    <2> QED BY <2>1, <2>3, SleepingTyped DEF TypeInv, ThreadsTyped, Asks, Named, ToUser
  <1> QED BY <1>1, <1>2 DEF GetAccountThrows

LEMMA HandlerResyncTyped == ASSUME TypeInv, HandlerResync PROVE ThreadsTyped'
  <1> DEFINE command == [th[Handler] EXCEPT !.at = "start"]
  <1>1. PICK w \in Workers : th' = [th EXCEPT ![Handler] = Sleeping, ![w] = command]
    BY DEF HandlerResync, Start
  <1>2. /\ command \in ThreadStates /\ command.at = "start"
        /\ command.kind \in {"give", "giveall"} => command.to # <<>>
        /\ command.kind # "plain" => command.author \in Users
    BY ThreadsApart DEF TypeInv, ThreadsTyped, ThreadStates, Stages, Named, ToUser
  <1> HIDE DEF command
  <1>3. /\ th' \in [Threads -> ThreadStates] /\ th'[w] = command
        /\ \A s \in Threads \ {w} : th'[s] \in {th[s], Sleeping}
    BY <1>1, <1>2, SleepingTyped, ThreadsApart DEF TypeInv, ThreadsTyped
  <1> QED BY <1>2, <1>3, SleepingTyped, ThreadsApart DEF TypeInv, ThreadsTyped, Asks, Named, ToUser

LEMMA SleepersTyped ==
  ASSUME TypeInv, NEW t \in Threads,
         \/ Answer(t) \/ Toggle(t) \/ SaveWallets(t) \/ Decline(t) \/ EndWalk(t)
         \/ VisitThrows(t) \/ GuardThrows(t) \/ TransferThrows(t) \/ NoteThrows(t)
  PROVE  ThreadsTyped'
  <1>1. th' = [th EXCEPT ![t] = Sleeping]
    BY DEF Answer, Toggle, SaveWallets, Decline, EndWalk, VisitThrows, GuardThrows,
           TransferThrows, NoteThrows, Leave
  <1> QED BY <1>1, SleepTyped DEF TypeInv

LEMMA CrashersTyped ==
  ASSUME TypeInv, NEW t \in Threads, ReadBadPointer(t) \/ UseFreed(t) \/ ResyncThrows(t)
  PROVE  ThreadsTyped'
  <1>1. Crashes \/ th' = [th EXCEPT ![t] = Sleeping]
    BY DEF ReadBadPointer, UseFreed, ResyncThrows, Leave
  <1> QED BY <1>1, SleepTyped, CrashTyped DEF TypeInv

LEMMA GoersTyped ==
  ASSUME TypeInv, NEW t \in Threads, WorkerResync(t) \/ Transfer(t) \/ Visit(t)
  PROVE  ThreadsTyped'
  <1>1. CASE \E at \in {"transfer", "note", "walk"} : th' = Goto(t, at)
    BY <1>1, GotoTyped DEF TypeInv, Stages
  <1>2. CASE th' = [th EXCEPT ![t] = Sleeping]
    BY <1>2, SleepTyped DEF TypeInv
  <1> QED BY <1>1, <1>2 DEF WorkerResync, Transfer, Visit, Leave

(* What a thread learns on its way, and keeps. *)
LEMMA LearnersTyped ==
  ASSUME TypeInv, NEW t \in Threads,
         ReadPointer(t) \/ ReadId(t) \/ BeginWalk(t) \/ Walk(t) \/ OpenAddress(t) \/ Lock(t)
  PROVE  ThreadsTyped'
  <1>1. th[t] \in ThreadStates /\ Named(t) /\ DOMAIN th = Threads
    BY DEF TypeInv, ThreadsTyped
  <1>2. \E r \in ThreadStates :
           /\ th' = [th EXCEPT ![t] = r]
           /\ r.at \in {"pool", "resync", "restart"} => r.want \in Users
           /\ r.kind = th[t].kind /\ r.to = th[t].to /\ r.author = th[t].author
    <2>1. CASE ReadPointer(t)
      <3> DEFINE r == [th[t] EXCEPT !.at = "lock", !.acc = MyAccount]
      <3>1. /\ r \in ThreadStates /\ r.at = "lock"
            /\ r.kind = th[t].kind /\ r.to = th[t].to /\ r.author = th[t].author
        BY <1>1, <2>1 DEF ReadPointer, ThreadStates, Stages, Pointers
      <3>2. th' = [th EXCEPT ![t] = r]
        BY <1>1, <2>1 DEF ReadPointer
      <3> HIDE DEF r
      <3> QED BY <3>1, <3>2
    <2>2. CASE ReadId(t)
      <3> DEFINE r == [th[t] EXCEPT !.at = "restart", !.want = RestartedUser(t)]
      <3>1. /\ r \in ThreadStates /\ r.want \in Users
            /\ r.kind = th[t].kind /\ r.to = th[t].to /\ r.author = th[t].author
        BY <1>1, <2>2 DEF ReadId, ThreadStates, Stages
      <3>2. th' = [th EXCEPT ![t] = r]
        BY <1>1, <2>2 DEF ReadId
      <3> HIDE DEF r
      <3> QED BY <3>1, <3>2
    <2>3. CASE BeginWalk(t)
      <3> DEFINE r == [th[t] EXCEPT !.at = "walk", !.left = cache]
      <3>1. /\ r \in ThreadStates /\ r.at = "walk"
            /\ r.kind = th[t].kind /\ r.to = th[t].to /\ r.author = th[t].author
        BY <1>1 DEF TypeInv, PoolTyped, ThreadStates, Stages
      <3>2. th' = [th EXCEPT ![t] = r]
        BY <1>1, <2>3 DEF BeginWalk
      <3> HIDE DEF r
      <3> QED BY <3>1, <3>2
    <2>4. CASE Walk(t)
      <3>1. PICK u \in cache : th' = [th EXCEPT ![t].at = "visit", ![t].acc = u, ![t].left = @ \ {u}]
        BY <2>4 DEF Walk
      <3> DEFINE r == [th[t] EXCEPT !.at = "visit", !.acc = u, !.left = @ \ {u}]
      <3>2. /\ r \in ThreadStates /\ r.at = "visit"
            /\ r.kind = th[t].kind /\ r.to = th[t].to /\ r.author = th[t].author
        BY <1>1 DEF TypeInv, PoolTyped, ThreadStates, Stages, Pointers
      <3>3. th' = [th EXCEPT ![t] = r]
        BY <1>1, <3>1
      <3> HIDE DEF r
      <3> QED BY <3>2, <3>3
    <2>5. CASE OpenAddress(t)
      <3> DEFINE r == [th[t] EXCEPT !.at = "pool", !.want = th[t].author]
      <3>1. /\ r \in ThreadStates /\ r.want = th[t].author
            /\ r.kind = th[t].kind /\ r.to = th[t].to /\ r.author = th[t].author
        BY <1>1 DEF ThreadStates, Stages
      <3>2. th' = [th EXCEPT ![t] = r]
        BY <1>1, <2>5 DEF OpenAddress
      <3>3. th[t].author \in Users
        BY <1>1, <2>5 DEF OpenAddress, Named
      <3> HIDE DEF r
      <3> QED BY <3>1, <3>2, <3>3
    <2>6. CASE Lock(t)
      <3> DEFINE r == [th[t] EXCEPT !.at = "guard", !.seen = money[th[t].acc]]
      <3>1. money[th[t].acc] \in Nat
        BY <2>6 DEF Lock, Alive, TypeInv, RestTyped
      <3>2. /\ r \in ThreadStates /\ r.at = "guard"
            /\ r.kind = th[t].kind /\ r.to = th[t].to /\ r.author = th[t].author
        BY <1>1, <3>1 DEF ThreadStates, Stages
      <3>3. th' = [th EXCEPT ![t] = r]
        BY <1>1, <2>6 DEF Lock
      <3> HIDE DEF r
      <3> QED BY <3>2, <3>3
    <2> QED BY <2>1, <2>2, <2>3, <2>4, <2>5, <2>6
  <1> QED BY <1>1, <1>2, MoveTyped DEF TypeInv, Named, ToUser

LEMMA GuardTyped == ASSUME TypeInv, NEW t \in Threads, Guard(t) PROVE ThreadsTyped'
  <1>1. th[t] \in ThreadStates /\ Named(t) /\ DOMAIN th = Threads
    BY DEF TypeInv, ThreadsTyped
  <1>2. CASE ToUser(t)
    <2> DEFINE r == [th[t] EXCEPT !.at = "pool", !.want = Head(th[t].to)]
    <2>1. th[t].to \in Seq(Users) /\ th[t].to # <<>>
      BY <1>1, <1>2 DEF ThreadStates, Named
    <2>2. Head(th[t].to) \in Users
      BY <2>1
    <2>3. /\ r \in ThreadStates /\ r.want \in Users /\ r.to = th[t].to
          /\ r.kind # "plain" => r.author \in Users
      BY <1>1, <2>2 DEF ThreadStates, Stages, Named
    <2>4. th' = [th EXCEPT ![t] = r]
      BY <1>1, <1>2 DEF Guard
    <2> HIDE DEF r
    <2> QED BY <2>1, <2>3, <2>4, MoveTyped DEF TypeInv
  <1>3. CASE ~ToUser(t)
    BY <1>3, GotoTyped DEF Guard, TypeInv, Stages
  <1> QED BY <1>2, <1>3

LEMMA TailOf ==
  ASSUME NEW S, NEW s \in Seq(S), Len(s) > 1
  PROVE  Tail(s) \in Seq(S) /\ Tail(s) # <<>> /\ Len(Tail(s)) = Len(s) - 1
  <1> DEFINE n == Len(s)
  <1>1. n \in Nat /\ n > 1 /\ Len(<<>>) = 0
    BY EmptySeq, LenProperties
  <1>2. s # <<>>
    BY EmptySeq
  <1>3. Tail(s) \in Seq(S) /\ Len(Tail(s)) = n - 1
    BY <1>2, HeadTailProperties
  <1> HIDE DEF n
  <1>4. n - 1 # 0
    BY <1>1
  <1>5. Tail(s) # <<>>
    BY <1>1, <1>3, <1>4, Zenon
  <1> QED BY <1>3, <1>5 DEF n

LEMMA SetTXNoteTyped == ASSUME TypeInv, NEW t \in Threads, SetTXNote(t) PROVE ThreadsTyped'
  <1> DEFINE author == th[t].author
             kind == th[t].kind
             to == th[t].to
             more == kind = "give" /\ Len(to) > 1
  <1>1. /\ to \in Seq(Users) /\ author \in Users \cup {Null} /\ kind \in CommandKinds
        /\ ToUser(t) => to # <<>>
        /\ kind # "plain" => author \in Users
    BY DEF TypeInv, ThreadsTyped, ThreadStates, Named
  <1>2. CASE more
    <2> DEFINE rest == Tail(to)
               r == Thread("next", "give", author, rest, Null)
    <2>1. rest \in Seq(Users) /\ rest # <<>> /\ author \in Users
      BY <1>1, <1>2, TailOf
    <2>2. "give" \in CommandKinds /\ "next" \in Stages
      BY DEF CommandKinds, WalletKinds, Payments, Stages
    <2>3. th' = [th EXCEPT ![t] = r]
      BY <1>2, Zenon DEF SetTXNote
    <2> HIDE DEF author, rest
    <2>4. r \in ThreadStates /\ r.at = "next" /\ r.to = rest /\ r.author = author
      BY <2>1, <2>2, ThreadTyped
    <2> HIDE DEF r
    <2> QED BY <2>1, <2>3, <2>4, MoveTyped DEF TypeInv
  <1>3. CASE ~more /\ PaysAll(t)
    <2> DEFINE r == Thread("answer", kind, author, to, Null)
    <2>1. kind # "plain" /\ "answer" \in Stages
      BY <1>3 DEF PaysAll, Stages
    <2>2. th' = [th EXCEPT ![t] = r]
      BY <1>3, Zenon DEF SetTXNote
    <2> HIDE DEF author, kind, to
    <2>3. r \in ThreadStates /\ r.at = "answer" /\ r.kind = kind /\ r.to = to /\ r.author = author
      BY <1>1, <2>1, ThreadTyped
    <2> USE DEF kind, to
    <2>4. r.kind \in {"give", "giveall"} => r.to # <<>>
      BY <1>1, <2>3 DEF ToUser
    <2>5. r.author \in Users
      BY <1>1, <2>1, <2>3
    <2> HIDE DEF r
    <2> QED BY <2>2, <2>3, <2>4, <2>5, MoveTyped DEF TypeInv
  <1>4. CASE ~more /\ ~PaysAll(t)
    <2>1. th' = [th EXCEPT ![t] = Sleeping]
      BY <1>4, Zenon DEF SetTXNote
    <2> QED BY <2>1, SleepTyped DEF TypeInv
  <1> QED BY <1>2, <1>3, <1>4

LEMMA StepThreadsTyped == ASSUME TypeInv, Next PROVE ThreadsTyped'
  <1>1. CASE ReceivePlain \/ Receive
    BY <1>1, ReceiveTyped
  <1>2. CASE HandlerStep
    BY <1>2, ThreadsApart, GetAccountTyped, GetAccountThrowsTyped, HandlerResyncTyped, CrashersTyped
       DEF HandlerStep
  <1>3. CASE WatchDog
    <2> DEFINE gone == cache \ cache'
    <2>1. th' = [t \in Threads |-> [th[t] EXCEPT !.acc = Destroyed(@, gone)]]
      BY <1>3 DEF WatchDog, Destroy
    <2> HIDE DEF gone
    <2>2. th \in [Threads -> ThreadStates]
      BY DEF TypeInv, ThreadsTyped
    <2> QED BY <2>1, <2>2, DestroyTyped DEF TypeInv, ThreadsTyped, Asks, Named, ToUser
  <1>4. ASSUME NEW t \in Workers, Command(t) PROVE ThreadsTyped'
    <2> t \in Threads
      BY ThreadsApart
    <2>1. CASE RestartWallet(t)
      <3> DEFINE threads == [th EXCEPT ![t] = Sleeping]
                 gone == cache \ cache'
      <3>1. th' = [s \in Threads |-> [threads[s] EXCEPT !.acc = Destroyed(@, gone)]]
        BY <2>1 DEF RestartWallet, Destroy
      <3>2. /\ threads \in [Threads -> ThreadStates]
            /\ \A s \in Threads : threads[s] \in {th[s], Sleeping}
        BY SleepingTyped DEF TypeInv, ThreadsTyped
      <3> HIDE DEF gone, threads
      <3>3. \A s \in Threads :
               /\ threads[s].at \in {"pool", "resync", "restart"} => threads[s].want \in Users
               /\ threads[s].kind \in {"give", "giveall"} => threads[s].to # <<>>
               /\ threads[s].kind # "plain" => threads[s].author \in Users
        BY <3>2, SleepingTyped DEF TypeInv, ThreadsTyped, Asks, Named, ToUser
      <3> QED BY <3>1, <3>2, <3>3, DestroyTyped
    <2>2. CASE GetAccount(t) \/ GetAccountThrows(t)
      BY <2>2, GetAccountTyped, GetAccountThrowsTyped
    <2>3. CASE \/ Answer(t) \/ Toggle(t) \/ SaveWallets(t) \/ Decline(t) \/ EndWalk(t)
               \/ VisitThrows(t) \/ GuardThrows(t) \/ TransferThrows(t) \/ NoteThrows(t)
      BY <2>3, SleepersTyped
    <2>4. CASE ReadBadPointer(t) \/ UseFreed(t) \/ ResyncThrows(t)
      BY <2>4, CrashersTyped
    <2>5. CASE WorkerResync(t) \/ Transfer(t) \/ Visit(t)
      BY <2>5, GoersTyped
    <2>6. CASE ReadPointer(t) \/ ReadId(t) \/ BeginWalk(t) \/ Walk(t) \/ OpenAddress(t) \/ Lock(t)
      BY <2>6, LearnersTyped
    <2>7. CASE Guard(t) \/ SetTXNote(t)
      BY <2>7, GuardTyped, SetTXNoteTyped
    <2> QED BY <1>4, <2>1, <2>2, <2>3, <2>4, <2>5, <2>6, <2>7 DEF Command
  <1> QED BY <1>1, <1>2, <1>3, <1>4 DEF Next

(* The users in the map, and their time stamps. *)
LEMMA FoundTyped == ASSUME cache \subseteq Users, NEW u \in Users PROVE Found(u) \subseteq Users
  BY DEF Found

LEMMA StampsTyped ==
  ASSUME cache' \subseteq Users, NEW users, NEW u, Used(users) \/ Copied(u)
  PROVE  newer' \in [Users -> SUBSET Users]
  <1>1. CASE Used(users)
    BY <1>1 DEF Used
  <1>2. CASE Copied(u)
    BY <1>2 DEF Copied
  <1> QED BY <1>1, <1>2

LEMMA DestroyedTyped ==
  ASSUME MyAccount \in Pointers, NEW gone, MyAccount' = Destroyed(MyAccount, gone)
  PROVE  MyAccount' \in Pointers
  BY DEF Destroyed, Pointers

LEMMA PoolStep == ASSUME TypeInv, Next PROVE PoolTyped'
  <1> USE DEF TypeInv, PoolTyped
  <1>1. ASSUME NEW t \in Threads, GetAccount(t) \/ GetAccountThrows(t)
        PROVE  PoolTyped'
    <2> DEFINE gone == cache \ cache'
               want == th[t].want
    <2>1. want \in Users
      BY <1>1 DEF ThreadsTyped, Asks, GetAccount, GetAccountThrows
    <2>2. MyAccount' = MyAccount \/ MyAccount' = Destroyed(MyAccount, gone)
      BY <1>1 DEF GetAccount, GetAccountThrows, Destroy, Crashes
    <2>3. /\ cache' \in {cache, Found(want), Found(want) \ {want}}
          /\ UNCHANGED newer \/ Used({want}) \/ Used({}) \/ Copied(want)
      BY <1>1 DEF GetAccount, GetAccountThrows
    <2> HIDE DEF want, gone
    <2>4. cache' \subseteq Users
      BY <2>1, <2>3, FoundTyped
    <2> QED BY <2>2, <2>3, <2>4, StampsTyped, DestroyedTyped
  <1>2. ASSUME NEW t \in Threads, RestartWallet(t) \/ WatchDog
        PROVE  PoolTyped'
    <2> DEFINE gone == cache \ cache'
    <2>1. cache' \subseteq cache /\ Used({}) /\ MyAccount' = Destroyed(MyAccount, gone)
      BY <1>2 DEF RestartWallet, WatchDog, Survivors, Destroy
    <2> HIDE DEF gone
    <2> QED BY <2>1, StampsTyped, DestroyedTyped
  <1>3. CASE HandlerResync
    BY <1>3, ThreadsApart DEF HandlerResync, CanResync, Start, AccountOf, ThreadsTyped, Asks, Pointers
  <1>4. CASE UNCHANGED <<cache, newer>> /\ MyAccount' \in {MyAccount, Null}
    BY <1>4 DEF Pointers
  <1>5. CASE ReceivePlain \/ Receive \/ ResyncThrows(Handler)
    BY <1>4, <1>5 DEF ReceivePlain, Receive, ResyncThrows, Crashes
  <1>6. ASSUME NEW t \in Workers, Command(t) PROVE PoolTyped'
    <2> t \in Threads
      BY ThreadsApart
    <2>1. CASE GetAccount(t) \/ GetAccountThrows(t) \/ RestartWallet(t)
      BY <1>1, <1>2, <2>1
    <2>2. CASE WorkerResync(t) \/ ResyncThrows(t) \/ Answer(t) \/ OpenAddress(t) \/ Toggle(t)
      BY <1>4, <2>2 DEF WorkerResync, ResyncThrows, Crashes, Answer, OpenAddress, Toggle
    <2>3. CASE SaveWallets(t) \/ Decline(t) \/ ReadPointer(t) \/ ReadId(t) \/ ReadBadPointer(t)
      BY <1>4, <2>3 DEF SaveWallets, Decline, ReadPointer, ReadId, ReadBadPointer, Crashes
    <2>4. CASE UseFreed(t) \/ BeginWalk(t) \/ Walk(t) \/ Visit(t) \/ VisitThrows(t) \/ EndWalk(t)
      BY <1>4, <2>4 DEF UseFreed, Crashes, BeginWalk, Walk, Visit, VisitThrows, EndWalk
    <2>5. CASE Lock(t) \/ Guard(t) \/ GuardThrows(t) \/ Transfer(t) \/ TransferThrows(t)
      BY <1>4, <2>5 DEF Lock, Guard, GuardThrows, Transfer, TransferThrows
    <2>6. CASE SetTXNote(t) \/ NoteThrows(t)
      BY <1>4, <2>6 DEF SetTXNote, NoteThrows
    <2> QED BY <1>6, <2>1, <2>2, <2>3, <2>4, <2>5, <2>6 DEF Command
  <1>7. CASE HandlerStep
    BY <1>1, <1>3, <1>5, <1>7, ThreadsApart DEF HandlerStep
  <1>8. CASE WatchDog
    BY <1>2, <1>8, ThreadsApart
  <1> QED BY <1>5, <1>6, <1>7, <1>8 DEF Next

(* The mutexes. *)
LEMMA LocksStep == ASSUME TypeInv, Next PROVE LocksTyped'
  <1> USE DEF TypeInv, LocksTyped
  <1>1. ASSUME NEW t \in Threads
        PROVE  Released(t) \in [Users -> Threads \cup {Nobody}]
    BY DEF Released
  <1>2. ASSUME NEW gone, accMu' = [u \in Users |-> IF u \in gone THEN Nobody ELSE accMu[u]]
        PROVE  accMu' \in [Users -> Threads \cup {Nobody}]
    BY <1>2
  <1>3. CASE UNCHANGED <<mu, accMu>>
    BY <1>3
  <1>4. ASSUME NEW t \in Threads, GetAccount(t) PROVE LocksTyped'
    BY <1>2, <1>4 DEF GetAccount, Destroy
  <1>5. ASSUME NEW t \in Threads, GetAccountThrows(t) PROVE LocksTyped'
    <2> DEFINE gone == cache \ cache'
    <2>1. UNCHANGED mu /\ (UNCHANGED accMu \/
             accMu' = [u \in Users |-> IF u \in gone THEN Nobody ELSE Released(t)[u]])
      BY <1>5 DEF GetAccountThrows, Crashes
    <2> HIDE DEF gone
    <2> QED BY <1>1, <1>3, <2>1
  <1>6. ASSUME NEW t \in Threads, ResyncThrows(t) PROVE LocksTyped'
    BY <1>1, <1>6 DEF ResyncThrows, Leave, Crashes
  <1>7. CASE HandlerResync
    BY <1>7 DEF HandlerResync
  <1>8. CASE WatchDog
    BY <1>2, <1>8 DEF WatchDog, Destroy
  <1>9. CASE ReceivePlain \/ Receive
    BY <1>3, <1>9 DEF ReceivePlain, Receive
  <1>10. ASSUME NEW t \in Workers, Command(t) PROVE LocksTyped'
    <2> t \in Threads
      BY ThreadsApart
    <2>1. CASE GetAccount(t) \/ GetAccountThrows(t) \/ ResyncThrows(t)
      BY <1>4, <1>5, <1>6, <2>1
    <2>2. CASE WorkerResync(t)
      BY <1>1, <2>2 DEF WorkerResync, Leave
    <2>3. CASE RestartWallet(t)
      BY <1>2, <2>3 DEF RestartWallet, Destroy
    <2>4. CASE Lock(t)
      BY <2>4 DEF Lock, LockedBy, Alive
    <2>5. CASE VisitThrows(t) \/ GuardThrows(t) \/ TransferThrows(t) \/ NoteThrows(t) \/ SetTXNote(t)
      BY <1>1, <2>5 DEF VisitThrows, GuardThrows, TransferThrows, NoteThrows, SetTXNote, Leave
    <2>6. CASE Answer(t) \/ OpenAddress(t) \/ Toggle(t) \/ SaveWallets(t) \/ Decline(t)
      BY <1>3, <2>6 DEF Answer, OpenAddress, Toggle, SaveWallets, Decline
    <2>7. CASE ReadPointer(t) \/ ReadId(t) \/ ReadBadPointer(t) \/ UseFreed(t)
      BY <1>3, <2>7 DEF ReadPointer, ReadId, ReadBadPointer, UseFreed, Crashes
    <2>8. CASE BeginWalk(t) \/ Walk(t) \/ Visit(t) \/ EndWalk(t) \/ Guard(t) \/ Transfer(t)
      BY <1>3, <2>8 DEF BeginWalk, Walk, Visit, EndWalk, Guard, Transfer
    <2> QED BY <1>10, <2>1, <2>2, <2>3, <2>4, <2>5, <2>6, <2>7, <2>8 DEF Command
  <1> QED BY <1>4, <1>5, <1>6, <1>7, <1>8, <1>9, <1>10, ThreadsApart DEF Next, HandlerStep

(* The money, the switches and the messages. *)
LEMMA TransferTyped == ASSUME TypeInv, NEW t \in Threads, Transfer(t) PROVE RestTyped'
  <1> DEFINE a == th[t].acc
             n == Amount(t)
  <1>1. n \in 1 .. money[a] /\ a \in Users /\ UNCHANGED <<allowed, messages>>
    BY DEF Transfer, Alive
  <1>2. money' = [u \in Users |-> IF u = a THEN money[u] - n
                                  ELSE IF u \in Receiver(t) THEN money[u] + n ELSE money[u]]
    BY DEF Transfer
  <1> HIDE DEF a, n
  <1>3. n \in Nat /\ n <= money[a] /\ money \in [Users -> Nat]
    BY <1>1 DEF TypeInv, RestTyped
  <1>4. money' \in [Users -> Nat]
    BY <1>1, <1>2, <1>3
  <1> QED BY <1>1, <1>4 DEF TypeInv, RestTyped

LEMMA RestStep == ASSUME TypeInv, Next PROVE RestTyped'
  <1>1. CASE UNCHANGED <<money, allowed, messages>>
    BY <1>1 DEF TypeInv, RestTyped
  <1>2. CASE ReceivePlain \/ Receive
    <2>1. messages' = messages + 1 /\ UNCHANGED <<money, allowed>>
      BY <1>2 DEF ReceivePlain, Receive
    <2>2. messages + 1 \in Nat
      BY DEF TypeInv, RestTyped
    <2> QED BY <2>1, <2>2 DEF TypeInv, RestTyped
  <1>3. CASE WatchDog \/ HandlerStep
    BY <1>1, <1>3 DEF WatchDog, HandlerStep, GetAccount, GetAccountThrows, HandlerResync, ResyncThrows
  <1>4. ASSUME NEW t \in Workers, Command(t) PROVE RestTyped'
    <2>1. CASE Transfer(t)
      BY <2>1, TransferTyped, ThreadsApart
    <2>2. CASE Toggle(t)
      <3>1. PICK switch \in {"withdraw", "give"} :
               allowed' = (allowed \ {switch}) \cup ({switch} \ allowed)
        BY <2>2 DEF Toggle
      <3>2. UNCHANGED <<money, messages>>
        BY <2>2 DEF Toggle
      <3> QED BY <3>1, <3>2 DEF TypeInv, RestTyped
    <2>3. CASE GetAccount(t) \/ GetAccountThrows(t) \/ WorkerResync(t) \/ ResyncThrows(t) \/ RestartWallet(t)
      BY <1>1, <2>3 DEF GetAccount, GetAccountThrows, WorkerResync, ResyncThrows, RestartWallet
    <2>4. CASE Answer(t) \/ OpenAddress(t) \/ SaveWallets(t) \/ Decline(t) \/ ReadPointer(t) \/ ReadId(t)
      BY <1>1, <2>4 DEF Answer, OpenAddress, SaveWallets, Decline, ReadPointer, ReadId
    <2>5. CASE ReadBadPointer(t) \/ UseFreed(t) \/ BeginWalk(t) \/ Walk(t) \/ Visit(t) \/ VisitThrows(t)
      BY <1>1, <2>5 DEF ReadBadPointer, UseFreed, BeginWalk, Walk, Visit, VisitThrows
    <2>6. CASE \/ EndWalk(t) \/ Lock(t) \/ Guard(t) \/ GuardThrows(t)
               \/ TransferThrows(t) \/ SetTXNote(t) \/ NoteThrows(t)
      BY <1>1, <2>6 DEF EndWalk, Lock, Guard, GuardThrows, TransferThrows, SetTXNote, NoteThrows
    <2> QED BY <1>4, <2>1, <2>2, <2>3, <2>4, <2>5, <2>6 DEF Command
  <1> QED BY <1>2, <1>3, <1>4 DEF Next

LEMMA TypeStep == TypeInv /\ [Next]_vars => TypeInv'
  <1> SUFFICES ASSUME TypeInv, [Next]_vars PROVE TypeInv'
    OBVIOUS
  <1>1. CASE Next
    BY <1>1, StepThreadsTyped, PoolStep, LocksStep, RestStep DEF TypeInv
  <1>2. CASE UNCHANGED vars
    <2>1. ThreadsTyped'
      BY <1>2 DEF vars, TypeInv, ThreadsTyped, Asks, Named, ToUser
    <2>2. PoolTyped' /\ LocksTyped'
      BY <1>2 DEF vars, TypeInv, PoolTyped, LocksTyped
    <2>3. RestTyped'
      BY <1>2 DEF vars, TypeInv, RestTyped
    <2> QED BY <2>1, <2>2, <2>3 DEF TypeInv
  <1> QED BY <1>1, <1>2

(* Every variable keeps its type: a thread that asks the pool for an account asks for a   *)
(* user's, a payment to users has somebody to pay, and no balance gets below zero.        *)
THEOREM DispatchTypes == Spec => []TypeOK
  <1>1. TypeInv => TypeOK
    BY DEF TypeInv, TypeOK, ThreadsTyped, PoolTyped, LocksTyped, RestTyped
  <1> QED BY <1>1, TypeInit, TypeStep, PTL DEF Spec

-----------------------------------------------------------------------------
(* One command at a time: a thread at work is the only one.                               *)

Busy(t) == th[t].at # "idle"

OneBusy ==
    \A t \in Threads :
        /\ Busy(t) \/ th[t] = Sleeping
        /\ Busy(t) => \A s \in Threads \ {t} : th[s] = Sleeping

Crashed == \A t \in Threads : th[t].at = "crashed"

TurnInv == Crashed \/ OneBusy

OthersSleep(t) == \A s \in Threads \ {t} : th'[s] = Sleeping
SameCommand(t) == /\ th'[t].kind = th[t].kind /\ th'[t].author = th[t].author
                  /\ th'[t].to = th[t].to

LEMMA TurnInit == Init => TurnInv
  BY SleepingTyped DEF Init, TurnInv, OneBusy, Busy

LEMMA TurnPasses ==
  ASSUME NEW t \in Threads, OthersSleep(t), th'[t] = Sleeping \/ Busy(t)'
  PROVE  TurnInv'
  BY SleepingTyped DEF OneBusy, Busy, OthersSleep, TurnInv

LEMMA AccKept ==
  ASSUME NEW r \in ThreadStates, NEW gone, r.acc \notin gone
  PROVE  [r EXCEPT !.acc = Destroyed(@, gone)] = r
  BY DEF ThreadStates, Destroyed

(* No account of a thread asleep is destroyed: it has none. *)
LEMMA SleepersStay ==
  ASSUME TypeInv, NEW gone, gone \subseteq cache
  PROVE  [Sleeping EXCEPT !.acc = Destroyed(@, gone)] = Sleeping
  <1>1. Null \notin gone
    BY PointerAssumption DEF TypeInv, PoolTyped
  <1> QED BY <1>1, SleepingTyped, SleepingFields, AccKept

(* What the steps do to the thread that takes them, and to the others. *)
LEMMA GotoMoves ==
  ASSUME TypeInv, OneBusy, NEW t \in Threads, Busy(t), NEW at, th' = Goto(t, at)
  PROVE  /\ OthersSleep(t) /\ SameCommand(t)
         /\ th'[t].at = at /\ th'[t].acc = th[t].acc /\ th'[t].want = th[t].want
  BY DEF TypeInv, ThreadsTyped, ThreadStates, Goto, OneBusy, OthersSleep, SameCommand

LEMMA SleepMoves ==
  ASSUME TypeInv, OneBusy, NEW t \in Threads, Busy(t), th' = [th EXCEPT ![t] = Sleeping]
  PROVE  OthersSleep(t) /\ th'[t] = Sleeping
  BY DEF TypeInv, ThreadsTyped, OneBusy, OthersSleep

LEMMA GetAccountMoves ==
  ASSUME TypeInv, OneBusy, NEW t \in Threads, GetAccount(t)
  PROVE  /\ OthersSleep(t) /\ SameCommand(t) /\ th'[t].at = "resync"
         /\ th'[t].want = th[t].want /\ th'[t].acc = Destroyed(th[t].acc, cache \ cache')
  <1> DEFINE threads == Goto(t, "resync")
             gone == cache \ cache'
  <1>1. /\ threads \in [Threads -> ThreadStates] /\ \A s \in Threads \ {t} : threads[s] = th[s]
        /\ threads[t].at = "resync" /\ threads[t].acc = th[t].acc /\ threads[t].want = th[t].want
        /\ threads[t].kind = th[t].kind /\ threads[t].to = th[t].to
        /\ threads[t].author = th[t].author
    BY DEF Goto, TypeInv, ThreadsTyped, ThreadStates, Stages
  <1>2. /\ Busy(t)
        /\ th' = [s \in Threads |-> [threads[s] EXCEPT !.acc = Destroyed(@, gone)]]
    BY DEF GetAccount, Destroy, Busy
  <1>3. gone \subseteq cache /\ gone = cache \ cache'
    OBVIOUS
  <1> HIDE DEF threads, gone
  <1>4. \A s \in Threads \ {t} : th'[s] = Sleeping
    BY <1>1, <1>2, <1>3, SleepersStay DEF OneBusy
  <1>5. th'[t] = [threads[t] EXCEPT !.acc = Destroyed(@, gone)] /\ threads[t] \in ThreadStates
    BY <1>1, <1>2
  <1>6. /\ th'[t].at = threads[t].at /\ th'[t].kind = threads[t].kind
        /\ th'[t].author = threads[t].author /\ th'[t].to = threads[t].to
        /\ th'[t].want = threads[t].want /\ th'[t].acc = Destroyed(threads[t].acc, gone)
    BY <1>5 DEF ThreadStates
  <1> QED BY <1>1, <1>3, <1>4, <1>6 DEF SameCommand, OthersSleep

LEMMA GetAccountThrowsMoves ==
  ASSUME TypeInv, OneBusy, NEW t \in Threads, GetAccountThrows(t)
  PROVE  \/ Crashed' /\ Destroyed(th[t].acc, cache \ cache') = Freed
         \/ OthersSleep(t) /\ th'[t] = Sleeping
  <1> DEFINE gone == cache \ cache'
  <1>1. CASE Crashes /\ Destroyed(th[t].acc, gone) = Freed
    BY <1>1 DEF Crashes, Crashed, Thread
  <1>2. CASE th' = [s \in Threads |-> IF s = t THEN Sleeping
                                      ELSE [th[s] EXCEPT !.acc = Destroyed(@, gone)]]
    <2>1. Busy(t) /\ gone \subseteq cache
      BY DEF GetAccountThrows, Busy
    <2> HIDE DEF gone
    <2>2. \A s \in Threads \ {t} : th[s] = Sleeping
      BY <2>1 DEF OneBusy
    <2>3. [Sleeping EXCEPT !.acc = Destroyed(@, gone)] = Sleeping
      BY <2>1, SleepersStay
    <2>4. \A s \in Threads \ {t} : th'[s] = Sleeping
      BY <1>2, <2>2, <2>3
    <2> QED BY <1>2, <2>4 DEF OthersSleep
  <1> QED BY <1>1, <1>2 DEF GetAccountThrows

LEMMA HandlerResyncMoves ==
  ASSUME TypeInv, OneBusy, HandlerResync
  PROVE  \E w \in Workers :
           /\ OthersSleep(w) /\ th'[w].at = "start"
           /\ th'[w].kind = th[Handler].kind /\ th'[w].author = th[Handler].author
           /\ th'[w].to = th[Handler].to /\ th'[w].acc = th[Handler].acc
           /\ MyAccount' = th[Handler].want
  <1> DEFINE command == [th[Handler] EXCEPT !.at = "start"]
  <1>1. PICK w \in Workers : /\ th' = [th EXCEPT ![Handler] = Sleeping, ![w] = command]
                             /\ MyAccount' = th[Handler].want
    BY DEF HandlerResync, Start, AccountOf
  <1>2. /\ command \in ThreadStates /\ command.at = "start"
        /\ command.kind = th[Handler].kind /\ command.author = th[Handler].author
        /\ command.to = th[Handler].to /\ command.acc = th[Handler].acc
    BY ThreadsApart DEF TypeInv, ThreadsTyped, ThreadStates, Stages
  <1> HIDE DEF command
  <1>3. Busy(Handler) /\ w \in Threads /\ w # Handler /\ Handler \in Threads
    BY ThreadsApart, ThreadsAssumption DEF HandlerResync, CanResync, Busy
  <1>4. th'[w] = command /\ \A s \in Threads \ {w} : th'[s] = Sleeping
    BY <1>1, <1>3 DEF OneBusy, TypeInv, ThreadsTyped
  <1> QED BY <1>1, <1>2, <1>4 DEF OthersSleep

LEMMA RestartWalletMoves ==
  ASSUME TypeInv, OneBusy, NEW t \in Threads, RestartWallet(t)
  PROVE  OthersSleep(t) /\ th'[t] = Sleeping
  <1> DEFINE gone == cache \ cache'
             threads == [th EXCEPT ![t] = Sleeping]
  <1>1. /\ th' = [s \in Threads |-> [threads[s] EXCEPT !.acc = Destroyed(@, gone)]]
        /\ Busy(t) /\ gone \subseteq cache
    BY DEF RestartWallet, Destroy, Busy
  <1>2. \A s \in Threads : threads[s] = Sleeping
    BY <1>1 DEF OneBusy, TypeInv, ThreadsTyped
  <1> HIDE DEF gone, threads
  <1>3. [Sleeping EXCEPT !.acc = Destroyed(@, gone)] = Sleeping
    BY <1>1, SleepersStay
  <1> QED BY <1>1, <1>2, <1>3 DEF OthersSleep

LEMMA SleepersMove ==
  ASSUME TypeInv, OneBusy, NEW t \in Threads,
         \/ Answer(t) \/ Toggle(t) \/ SaveWallets(t) \/ Decline(t) \/ EndWalk(t)
         \/ VisitThrows(t) \/ GuardThrows(t) \/ TransferThrows(t) \/ NoteThrows(t)
  PROVE  OthersSleep(t) /\ th'[t] = Sleeping
  <1>1. th' = [th EXCEPT ![t] = Sleeping]
    BY DEF Answer, Toggle, SaveWallets, Decline, EndWalk, VisitThrows, GuardThrows,
           TransferThrows, NoteThrows, Leave
  <1>2. Busy(t)
    BY DEF Answer, Toggle, SaveWallets, Decline, EndWalk, VisitThrows, GuardThrows,
           TransferThrows, NoteThrows, Busy
  <1> QED BY <1>1, <1>2, SleepMoves

LEMMA CrashesCrash == ASSUME Crashes PROVE Crashed'
  BY DEF Crashes, Crashed, Thread

LEMMA ResyncMoves ==
  ASSUME TypeInv, OneBusy, NEW t \in Threads, ResyncThrows(t)
  PROVE  \/ Crashed' /\ th[t].acc = Freed
         \/ OthersSleep(t) /\ th'[t] = Sleeping
  <1>1. Busy(t)
    BY DEF ResyncThrows, CanResync, Busy
  <1> QED BY <1>1, SleepMoves, CrashesCrash DEF ResyncThrows, Leave

LEMMA WorkerResyncMoves ==
  ASSUME TypeInv, OneBusy, NEW t \in Threads, WorkerResync(t)
  PROVE  \/ OthersSleep(t) /\ th'[t] = Sleeping
         \/ /\ th[t].kind # "address" /\ OthersSleep(t) /\ SameCommand(t)
            /\ th'[t].at = "transfer" /\ th'[t].acc = th[t].acc
  <1>1. Busy(t)
    BY DEF WorkerResync, CanResync, Busy
  <1> QED BY <1>1, SleepMoves, GotoMoves DEF WorkerResync, Leave

LEMMA LearnersMove ==
  ASSUME TypeInv, OneBusy, NEW t \in Threads
  PROVE  /\ ReadPointer(t) => /\ OthersSleep(t) /\ SameCommand(t)
                              /\ th'[t].at = "lock" /\ th'[t].acc = MyAccount
         /\ ReadId(t) => /\ OthersSleep(t) /\ SameCommand(t)
                         /\ th'[t].at = "restart" /\ th'[t].acc = th[t].acc
         /\ BeginWalk(t) => /\ OthersSleep(t) /\ SameCommand(t)
                            /\ th'[t].at = "walk" /\ th'[t].acc = th[t].acc
         /\ Walk(t) => /\ OthersSleep(t) /\ SameCommand(t)
                       /\ th'[t].at = "visit" /\ th'[t].acc \in Users
         /\ OpenAddress(t) => /\ OthersSleep(t) /\ SameCommand(t)
                              /\ th'[t].at = "pool" /\ th'[t].acc = th[t].acc
         /\ Lock(t) => /\ OthersSleep(t) /\ SameCommand(t)
                       /\ th'[t].at = "guard" /\ th'[t].acc = th[t].acc
  <1>1. DOMAIN th = Threads /\ th[t] \in ThreadStates
    BY DEF TypeInv, ThreadsTyped
  <1>2. ASSUME Busy(t), \A s \in Threads \ {t} : th'[s] = th[s]
        PROVE  OthersSleep(t)
    BY <1>2 DEF OneBusy, OthersSleep
  <1> USE <1>1, <1>2 DEF Busy, SameCommand, ThreadStates
  <1>3. ReadPointer(t) => /\ OthersSleep(t) /\ SameCommand(t)
                          /\ th'[t].at = "lock" /\ th'[t].acc = MyAccount
    BY DEF ReadPointer
  <1>4. ReadId(t) => /\ OthersSleep(t) /\ SameCommand(t)
                     /\ th'[t].at = "restart" /\ th'[t].acc = th[t].acc
    BY DEF ReadId
  <1>5. BeginWalk(t) => /\ OthersSleep(t) /\ SameCommand(t)
                        /\ th'[t].at = "walk" /\ th'[t].acc = th[t].acc
    BY DEF BeginWalk
  <1>6. Walk(t) => /\ OthersSleep(t) /\ SameCommand(t)
                   /\ th'[t].at = "visit" /\ th'[t].acc \in Users
    <2> SUFFICES ASSUME Walk(t)
                 PROVE  /\ OthersSleep(t) /\ SameCommand(t)
                        /\ th'[t].at = "visit" /\ th'[t].acc \in Users
      OBVIOUS
    <2>1. PICK u \in cache : th' = [th EXCEPT ![t].at = "visit", ![t].acc = u, ![t].left = @ \ {u}]
      BY DEF Walk
    <2>2. u \in Users /\ th[t].at = "walk"
      BY DEF TypeInv, PoolTyped, Walk
    <2> QED BY <2>1, <2>2
  <1>7. OpenAddress(t) => /\ OthersSleep(t) /\ SameCommand(t)
                          /\ th'[t].at = "pool" /\ th'[t].acc = th[t].acc
    BY DEF OpenAddress
  <1>8. Lock(t) => /\ OthersSleep(t) /\ SameCommand(t)
                   /\ th'[t].at = "guard" /\ th'[t].acc = th[t].acc
    BY DEF Lock
  <1> QED BY <1>3, <1>4, <1>5, <1>6, <1>7, <1>8

LEMMA GuardMoves ==
  ASSUME TypeInv, OneBusy, NEW t \in Threads, Guard(t)
  PROVE  /\ OthersSleep(t) /\ SameCommand(t) /\ th'[t].acc = th[t].acc
         /\ th'[t].at = IF ToUser(t) THEN "pool" ELSE "transfer"
  <1>1. Busy(t)
    BY DEF Guard, Busy
  <1>2. CASE ToUser(t)
    BY <1>1, <1>2 DEF Guard, TypeInv, ThreadsTyped, ThreadStates, OneBusy, OthersSleep, SameCommand
  <1>3. CASE ~ToUser(t)
    BY <1>1, <1>3, GotoMoves DEF Guard
  <1> QED BY <1>2, <1>3

LEMMA SetTXNoteMoves ==
  ASSUME TypeInv, OneBusy, NEW t \in Threads, SetTXNote(t)
  PROVE  /\ OthersSleep(t)
         /\ \/ th'[t] = Sleeping
            \/ /\ th[t].kind = "give" /\ Len(th[t].to) > 1
               /\ th'[t].at = "next" /\ th'[t].kind = "give" /\ th'[t].acc = Null
               /\ th'[t].author = th[t].author /\ th'[t].to = Tail(th[t].to)
            \/ th'[t].at = "answer" /\ SameCommand(t) /\ th'[t].acc = Null
  <1> DEFINE author == th[t].author
             kind == th[t].kind
             to == th[t].to
             more == kind = "give" /\ Len(to) > 1
  <1>1. Busy(t)
    BY DEF SetTXNote, Busy
  <1>2. ASSUME NEW r, th' = [th EXCEPT ![t] = r]
        PROVE  th'[t] = r /\ OthersSleep(t)
    BY <1>1, <1>2 DEF TypeInv, ThreadsTyped, OneBusy, OthersSleep
  <1>3. CASE more
    <2> DEFINE rest == Tail(to)
               r == Thread("next", "give", author, rest, Null)
    <2>1. r.at = "next" /\ r.kind = "give" /\ r.acc = Null /\ r.author = author /\ r.to = rest
      BY DEF Thread
    <2>2. th' = [th EXCEPT ![t] = r]
      BY <1>3, Zenon DEF SetTXNote
    <2> HIDE DEF r
    <2> QED BY <1>2, <1>3, <2>1, <2>2
  <1>4. CASE ~more /\ PaysAll(t)
    <2> DEFINE r == Thread("answer", kind, author, to, Null)
    <2>1. r.at = "answer" /\ r.kind = kind /\ r.acc = Null /\ r.author = author /\ r.to = to
      BY DEF Thread
    <2>2. th' = [th EXCEPT ![t] = r]
      BY <1>4, Zenon DEF SetTXNote
    <2> HIDE DEF r
    <2> QED BY <1>2, <2>1, <2>2 DEF SameCommand
  <1>5. CASE ~more /\ ~PaysAll(t)
    <2>1. th' = [th EXCEPT ![t] = Sleeping]
      BY <1>5, Zenon DEF SetTXNote
    <2> QED BY <1>2, <2>1
  <1> QED BY <1>3, <1>4, <1>5

LEMMA GoersMove ==
  ASSUME TypeInv, OneBusy, NEW t \in Threads
  PROVE  /\ Transfer(t) => /\ OthersSleep(t) /\ SameCommand(t)
                           /\ th'[t].at = "note" /\ th'[t].acc = th[t].acc
         /\ Visit(t) => /\ OthersSleep(t) /\ SameCommand(t)
                        /\ th'[t].at = "walk" /\ th'[t].acc = th[t].acc
  BY GotoMoves DEF Transfer, Visit, Busy

LEMMA ThreadFields ==
  ASSUME NEW at, NEW kind, NEW author, NEW to, NEW want, NEW r, r = Thread(at, kind, author, to, want)
  PROVE  /\ r.at = at /\ r.kind = kind /\ r.author = author /\ r.to = to /\ r.want = want
         /\ r.acc = Null
  BY DEF Thread

LEMMA ReceiveMoves ==
  ASSUME OneAtATime, TypeInv, OneBusy, Receive
  PROVE  \E u \in Users, kind \in WalletKinds, to \in Mentions :
           /\ OthersSleep(Handler) /\ th'[Handler].at = "pool"
           /\ th'[Handler].kind = kind /\ th'[Handler].to = to /\ th'[Handler].acc = Null
           /\ th'[Handler].author = u /\ th'[Handler].want = u
           /\ to # <<>> <=> kind \in {"give", "giveall"}
  <1>1. PICK u \in Users, kind \in Kinds \cap WalletKinds, to \in Mentions :
          /\ (to # <<>>) <=> kind \in {"give", "giveall"}
          /\ th' = [th EXCEPT ![Handler] = Thread("pool", kind, u, to, u)]
    BY DEF Receive
  <1>2. \A s \in Threads : th[s] = Sleeping
    BY DEF Receive, Waits, OneBusy, Busy, Threads
  <1>3. /\ th'[Handler] = Thread("pool", kind, u, to, u)
        /\ \A s \in Threads \ {Handler} : th'[s] = th[s]
    BY <1>1, ThreadsApart DEF TypeInv, ThreadsTyped
  <1>4. /\ th'[Handler].at = "pool" /\ th'[Handler].kind = kind /\ th'[Handler].to = to
        /\ th'[Handler].acc = Null /\ th'[Handler].author = u /\ th'[Handler].want = u
    BY <1>3, ThreadFields
  <1>5. OthersSleep(Handler)
    BY <1>2, <1>3 DEF OthersSleep
  <1>6. to # <<>> <=> kind \in {"give", "giveall"}
    BY <1>1
  <1> QED BY <1>4, <1>5, <1>6

LEMMA ReceivePlainMoves ==
  ASSUME OneAtATime, TypeInv, OneBusy, ReceivePlain
  PROVE  \E w \in Workers :
           /\ OthersSleep(w)
           /\ \/ th'[w] = Sleeping
              \/ th'[w].at = "start" /\ th'[w].kind \in PlainKinds /\ th'[w].acc = Null
  <1>1. \A s \in Threads : th[s] = Sleeping
    BY DEF ReceivePlain, Waits, OneBusy, Busy, Threads
  <1>2. PICK u \in Users, kind \in Kinds \cap PlainKinds, w \in Workers :
          \/ th' = [th EXCEPT ![w] = Thread("start", kind, u, <<>>, Null)]
          \/ UNCHANGED th
    BY DEF ReceivePlain
  <1>3. w \in Threads
    BY ThreadsApart
  <1>4. CASE UNCHANGED th
    BY <1>1, <1>3, <1>4 DEF OthersSleep
  <1>5. CASE th' = [th EXCEPT ![w] = Thread("start", kind, u, <<>>, Null)]
    <2>1. /\ th'[w] = Thread("start", kind, u, <<>>, Null)
          /\ \A s \in Threads \ {w} : th'[s] = th[s]
      BY <1>3, <1>5 DEF TypeInv, ThreadsTyped
    <2>2. th'[w].at = "start" /\ th'[w].kind = kind /\ th'[w].acc = Null
      BY <2>1 DEF Thread
    <2>3. OthersSleep(w)
      BY <1>1, <2>1 DEF OthersSleep
    <2> QED BY <2>2, <2>3
  <1> QED BY <1>2, <1>4, <1>5

(* Nothing happens to threads that have crashed. *)
LEMMA CrashedStay == ASSUME TypeInv, Crashed, Next PROVE Crashed'
  <1>1. CASE WatchDog
    <2> DEFINE gone == cache \ cache'
    <2>1. th' = [t \in Threads |-> [th[t] EXCEPT !.acc = Destroyed(@, gone)]]
      BY <1>1 DEF WatchDog, Destroy
    <2> HIDE DEF gone
    <2>2. ASSUME NEW t \in Threads PROVE th'[t].at = th[t].at
      BY <2>1, <2>2 DEF TypeInv, ThreadsTyped, ThreadStates
    <2> QED BY <2>2 DEF Crashed
  <1>2. CASE ReceivePlain \/ Receive \/ HandlerStep
    BY <1>2, ThreadsApart DEF Crashed, ReceivePlain, Receive, HandlerStep, GetAccount, GetAccountThrows,
       HandlerResync, ResyncThrows, CanResync
  <1>3. ASSUME NEW t \in Workers, Command(t) PROVE FALSE
    <2>1. th[t].at = "crashed"
      BY ThreadsApart DEF Crashed
    <2>2. ~GetAccount(t) /\ ~GetAccountThrows(t) /\ ~WorkerResync(t) /\ ~ResyncThrows(t) /\ ~Answer(t)
      BY <2>1 DEF GetAccount, GetAccountThrows, WorkerResync, ResyncThrows, CanResync, Answer
    <2>3. ~OpenAddress(t) /\ ~Toggle(t) /\ ~SaveWallets(t) /\ ~Decline(t) /\ ~ReadPointer(t) /\ ~ReadId(t)
      BY <2>1 DEF OpenAddress, Toggle, SaveWallets, Decline, ReadPointer, ReadId
    <2>4. ~ReadBadPointer(t) /\ ~UseFreed(t) /\ ~RestartWallet(t) /\ ~BeginWalk(t) /\ ~Walk(t)
      BY <2>1 DEF ReadBadPointer, UseFreed, RestartWallet, BeginWalk, Walk
    <2>5. ~Visit(t) /\ ~VisitThrows(t) /\ ~EndWalk(t) /\ ~Lock(t) /\ ~Guard(t) /\ ~GuardThrows(t)
      BY <2>1 DEF Visit, VisitThrows, EndWalk, Lock, Guard, GuardThrows
    <2>6. ~Transfer(t) /\ ~TransferThrows(t) /\ ~SetTXNote(t) /\ ~NoteThrows(t)
      BY <2>1 DEF Transfer, TransferThrows, SetTXNote, NoteThrows
    <2> QED BY <1>3, <2>2, <2>3, <2>4, <2>5, <2>6 DEF Command
  <1> QED BY <1>1, <1>2, <1>3 DEF Next

(* Nor to threads asleep when the watchdog gives a wallet up. *)
LEMMA WatchDogMoves ==
  ASSUME TypeInv, OneBusy, WatchDog, NEW t \in Threads, \A s \in Threads \ {t} : th[s] = Sleeping
  PROVE  /\ OthersSleep(t) /\ SameCommand(t) /\ th'[t].at = th[t].at
         /\ th[t] = Sleeping => th'[t] = Sleeping
  <1> DEFINE gone == cache \ cache'
  <1>1. /\ th' = [s \in Threads |-> [th[s] EXCEPT !.acc = Destroyed(@, gone)]]
        /\ gone \subseteq cache /\ th[t] \in ThreadStates
    BY DEF WatchDog, Destroy, TypeInv, ThreadsTyped
  <1> HIDE DEF gone
  <1>2. [Sleeping EXCEPT !.acc = Destroyed(@, gone)] = Sleeping
    BY <1>1, SleepersStay
  <1>3. th'[t] = [th[t] EXCEPT !.acc = Destroyed(@, gone)]
    BY <1>1
  <1>4. th'[t].kind = th[t].kind /\ th'[t].author = th[t].author /\ th'[t].to = th[t].to /\ th'[t].at = th[t].at
    BY <1>1, <1>3 DEF ThreadStates
  <1> QED BY <1>1, <1>2, <1>3, <1>4 DEF OthersSleep, SameCommand

LEMMA WorkersTurn ==
  ASSUME TypeInv, OneBusy, NEW t \in Workers, Command(t)
  PROVE  TurnInv'
  <1> t \in Threads
    BY ThreadsApart
  <1>1. CASE Crashed'
    BY <1>1 DEF TurnInv
  <1>2. CASE OthersSleep(t) /\ th'[t] = Sleeping
    BY <1>2, TurnPasses
  <1>3. CASE OthersSleep(t) /\ th'[t].at # "idle"
    BY <1>3, TurnPasses DEF Busy
  <1>4. CASE GetAccount(t)
    BY <1>3, <1>4, GetAccountMoves
  <1>5. CASE GetAccountThrows(t) \/ ResyncThrows(t) \/ RestartWallet(t)
    BY <1>1, <1>2, <1>5, GetAccountThrowsMoves, ResyncMoves, RestartWalletMoves
  <1>6. CASE WorkerResync(t)
    BY <1>2, <1>3, <1>6, WorkerResyncMoves
  <1>7. CASE \/ Answer(t) \/ Toggle(t) \/ SaveWallets(t) \/ Decline(t) \/ EndWalk(t)
             \/ VisitThrows(t) \/ GuardThrows(t) \/ TransferThrows(t) \/ NoteThrows(t)
    BY <1>2, <1>7, SleepersMove
  <1>8. CASE ReadBadPointer(t) \/ UseFreed(t)
    BY <1>1, <1>8, CrashesCrash DEF ReadBadPointer, UseFreed
  <1>9. CASE ReadPointer(t) \/ ReadId(t) \/ BeginWalk(t) \/ Walk(t) \/ OpenAddress(t) \/ Lock(t)
    BY <1>3, <1>9, LearnersMove
  <1>10. CASE Visit(t) \/ Transfer(t)
    BY <1>3, <1>10, GoersMove
  <1>11. CASE Guard(t)
    BY <1>3, <1>11, GuardMoves
  <1>12. CASE SetTXNote(t)
    BY <1>2, <1>3, <1>12, SetTXNoteMoves
  <1> QED BY <1>4, <1>5, <1>6, <1>7, <1>8, <1>9, <1>10, <1>11, <1>12 DEF Command

LEMMA HandlersTurn == ASSUME TypeInv, OneBusy, HandlerStep PROVE TurnInv'
  <1> Handler \in Threads
    BY ThreadsApart
  <1>1. CASE GetAccount(Handler)
    BY <1>1, GetAccountMoves, TurnPasses DEF Busy
  <1>2. CASE GetAccountThrows(Handler) \/ ResyncThrows(Handler)
    BY <1>2, GetAccountThrowsMoves, ResyncMoves, TurnPasses DEF TurnInv
  <1>3. CASE HandlerResync
    <2>1. PICK w \in Workers : OthersSleep(w) /\ th'[w].at = "start"
      BY <1>3, HandlerResyncMoves
    <2> QED BY <2>1, TurnPasses, ThreadsApart DEF Busy
  <1> QED BY <1>1, <1>2, <1>3 DEF HandlerStep

LEMMA MessagesTurn ==
  ASSUME OneAtATime, TypeInv, OneBusy, ReceivePlain \/ Receive
  PROVE  TurnInv'
  <1>1. CASE ReceivePlain
    <2>1. PICK w \in Workers :
            /\ OthersSleep(w)
            /\ \/ th'[w] = Sleeping
               \/ th'[w].at = "start"
      BY <1>1, ReceivePlainMoves
    <2> QED BY <2>1, TurnPasses, ThreadsApart DEF Busy
  <1>2. CASE Receive
    <2>1. OthersSleep(Handler) /\ th'[Handler].at = "pool"
      BY <1>2, ReceiveMoves
    <2> QED BY <2>1, TurnPasses, ThreadsApart DEF Busy
  <1> QED BY <1>1, <1>2

LEMMA WatchDogsTurn == ASSUME TypeInv, OneBusy, WatchDog PROVE TurnInv'
  <1>1. PICK t \in Threads : \A s \in Threads \ {t} : th[s] = Sleeping
    BY ThreadsApart DEF OneBusy
  <1>2. /\ OthersSleep(t) /\ th'[t].at = th[t].at
        /\ th[t] = Sleeping => th'[t] = Sleeping
    BY <1>1, WatchDogMoves
  <1> QED BY <1>2, TurnPasses DEF OneBusy, Busy

LEMMA TurnStep == ASSUME OneAtATime, TypeInv, TurnInv, [Next]_vars PROVE TurnInv'
  <1>1. CASE UNCHANGED vars
    BY <1>1 DEF vars, TurnInv, Crashed, OneBusy, Busy
  <1>2. CASE Crashed /\ Next
    BY <1>2, CrashedStay DEF TurnInv
  <1>3. CASE OneBusy /\ Next
    BY <1>3, WorkersTurn, HandlersTurn, MessagesTurn, WatchDogsTurn DEF Next
  <1> QED BY <1>1, <1>2, <1>3 DEF TurnInv

-----------------------------------------------------------------------------
(* One command at a time, each mentioning fewer users than there are entries, and no       *)
(* watchdog that gives wallets up: the author's account is in the map from onMessage to    *)
(* the end of his command, since fewer accounts are used after it than it takes to make it *)
(* the oldest one of a full map.                                                           *)

Serial ==
    /\ OneAtATime = TRUE /\ "watchdog" \notin Faults
    /\ \A to \in Mentions : Len(to) < Limit

(* What the time stamps keep. *)
Stamped == IsFiniteSet(cache) /\ \A u \in Users : newer[u] \subseteq cache

(* The handler, from the message to the account. *)
Opening ==
    /\ th[Handler].at \in {"pool", "resync"} /\ th[Handler].kind \in WalletKinds
    /\ th[Handler].acc = Null /\ th[Handler].want = th[Handler].author
    /\ Len(th[Handler].to) < Limit
    /\ th[Handler].at = "resync" =>
         /\ th[Handler].author \in cache /\ newer[th[Handler].author] = {}

(* There is room for the users still to be paid: the one being paid is counted, from the   *)
(* time his account is there, among those used after the author's.                         *)
Paid == {"resync", "transfer", "note", "answer"}
Room(t) ==
    /\ Cardinality(newer[th[t].author]) + Len(th[t].to) <= Limit
    /\ th[t].at \notin Paid =>
         Cardinality(newer[th[t].author]) + Len(th[t].to) < Limit

(* A command that has opened its author's wallet. *)
Paying == {"lock", "guard", "pool", "resync", "transfer", "note"}
WithWallet(t) ==
    /\ th[t].kind \in WalletKinds /\ th[t].at \in Paying \cup {"start", "next", "answer", "restart"}
    /\ th[t].author \in cache /\ MyAccount = th[t].author /\ Room(t)
    /\ th[t].at \in Paying => th[t].acc = th[t].author
    /\ th[t].at \notin Paying => th[t].acc = Null
    /\ th[t].at \in {"pool", "resync"} => ToUser(t)

(* One that opens none, or walks over all of them. *)
WithoutWallet(t) ==
    /\ th[t].kind \in PlainKinds
    /\ th[t].at \in {"start", "pool", "resync", "restart", "walk", "visit"}
    /\ th[t].acc # Freed
    /\ th[t].at \in {"start", "pool", "resync", "restart"} => th[t].acc = Null
    /\ th[t].at \in {"pool", "resync"} => th[t].kind = "address"
    /\ th[t].at = "visit" => th[t].acc \in Users

LiveInv ==
    /\ Stamped
    /\ Busy(Handler) => Opening
    /\ \A t \in Workers : Busy(t) => WithWallet(t) \/ WithoutWallet(t)

LEMMA LiveInit == Init => LiveInv
  <1> SUFFICES ASSUME Init PROVE LiveInv
    OBVIOUS
  <1>1. Stamped
    BY FS_EmptySet DEF Init, Stamped
  <1>2. \A t \in Threads : ~Busy(t)
    BY SleepingTyped DEF Init, Busy
  <1> QED BY <1>1, <1>2, ThreadsApart DEF LiveInv

LEMMA LivePasses ==
  ASSUME NEW t \in Threads, OthersSleep(t), Stamped',
         \/ th'[t] = Sleeping
         \/ t = Handler /\ Opening'
         \/ t \in Workers /\ (WithWallet(t)' \/ WithoutWallet(t)')
  PROVE  LiveInv'
  <1>1. \A s \in Threads \ {t} : ~Busy(s)'
    BY SleepingTyped DEF OthersSleep, Busy
  <1>2. th'[t] = Sleeping => ~Busy(t)'
    BY SleepingTyped DEF Busy
  <1> QED BY <1>1, <1>2, ThreadsApart, ThreadsAssumption DEF LiveInv

(* How many users can be newer than a user. *)
LEMMA OneMore ==
  ASSUME NEW S, IsFiniteSet(S), NEW u, NEW T, T \subseteq S \cup {u}
  PROVE  /\ IsFiniteSet(T) /\ Cardinality(T) \in Nat /\ Cardinality(S) \in Nat
         /\ Cardinality(T) <= Cardinality(S) + 1
  <1> DEFINE more == S \cup {u}
             m == Cardinality(more)
             n == Cardinality(S)
  <1>1. IsFiniteSet(more) /\ m = IF u \in S THEN n ELSE n + 1
    BY FS_AddElement
  <1>2. IsFiniteSet(T) /\ Cardinality(T) <= m
    BY <1>1, FS_Subset
  <1>3. Cardinality(T) \in Nat /\ n \in Nat /\ m \in Nat
    BY <1>1, <1>2, FS_CardinalityType
  <1> HIDE DEF m, n
  <1>4. m <= n + 1
    BY <1>1, <1>3
  <1> QED BY <1>2, <1>3, <1>4 DEF n

LEMMA OneLess ==
  ASSUME NEW S, IsFiniteSet(S), NEW u \in S
  PROVE  Cardinality(S) \in Nat /\ Cardinality(S \ {u}) = Cardinality(S) - 1
  BY FS_RemoveElement, FS_CardinalityType

(* getAccount: who has room is not the oldest, and stays. *)
LEMMA AuthorStays ==
  ASSUME Stamped, NEW a \in cache, a \in Users, NEW u, Cardinality(newer[a]) + 1 < Limit
  PROVE  a \in Found(u)
  <1>1. CASE Full
    <2>1. IsFiniteSet(cache) /\ Cardinality(cache) >= Limit
      BY <1>1 DEF Full, Stamped
    <2>2. Cardinality(cache) \in Nat /\ Cardinality(cache \ {a}) = Cardinality(cache) - 1
      BY <2>1, OneLess
    <2> DEFINE c == Cardinality(cache)
               d == Cardinality(cache \ {a})
    <2>3. c \in Nat /\ c >= Limit /\ d = c - 1 /\ Limit \in Nat
      BY <2>1, <2>2, LimitAssumption
    <2> HIDE DEF c, d
    <2>4. ~(d + 1 < Limit)
      BY <2>3
    <2>5. newer[a] # cache \ {a}
      BY <2>4 DEF d
    <2> QED BY <2>5 DEF Found, FindOldestRPC
  <1>2. CASE ~Full
    BY <1>2 DEF Found
  <1> QED BY <1>1, <1>2

(* The time stamps, after each of the steps that change them. *)
LEMMA FoundStamped ==
  ASSUME Stamped, NEW u, NEW v, cache' \subseteq Found(u), UNCHANGED <<cache, newer>> \/ (\E w : Used(w)) \/ Copied(v)
  PROVE  Stamped'
  <1>1. IsFiniteSet(cache \cup {u})
    BY FS_AddElement DEF Stamped
  <1>2. cache' \subseteq cache \cup {u}
    BY DEF Found
  <1>3. IsFiniteSet(cache')
    BY <1>1, <1>2, FS_Subset
  <1>4. CASE \E w : Used(w)
    BY <1>3, <1>4 DEF Used, Stamped
  <1>5. CASE Copied(v)
    BY <1>3, <1>5 DEF Copied, Stamped
  <1>6. CASE UNCHANGED <<cache, newer>>
    BY <1>6 DEF Stamped
  <1> QED BY <1>4, <1>5, <1>6

LEMMA RoomKept ==
  ASSUME TypeInv, Stamped, NEW t \in Threads, Room(t), th[t].author \in Users,
         SameCommand(t), UNCHANGED newer,
         th[t].at \in Paid => th'[t].at \in Paid
  PROVE  Room(t)'
  BY DEF Room, SameCommand, Paid

(* The pool gives a receiver's account, and the author keeps his. *)
LEMMA AskingKeeps ==
  ASSUME TypeInv, Stamped, NEW t \in Threads, Room(t), th[t].at = "pool", ToUser(t),
         th[t].author \in cache
  PROVE  /\ th[t].author \in Found(th[t].want)
         /\ cache' = Found(th[t].want) /\ Used({th[t].want}) /\ SameCommand(t) /\ th'[t].at = "resync"
            => Room(t)'
  <1> DEFINE a == th[t].author
             u == th[t].want
             n == Len(th[t].to)
             c == Cardinality(newer[a])
  <1>1. a \in Users /\ u \in Users /\ th[t].to \in Seq(Users) /\ th[t].to # <<>>
    BY DEF TypeInv, ThreadsTyped, ThreadStates, PoolTyped, Asks, Named
  <1>2. n \in Nat \ {0}
    BY <1>1, EmptySeq
  <1>3. IsFiniteSet(newer[a])
    BY <1>1, FS_Subset DEF Stamped
  <1>4. c \in Nat /\ c + n < Limit /\ Limit \in Nat
    BY <1>3, FS_CardinalityType, LimitAssumption DEF Room, Paid
  <1>5. a \in Found(u)
    <2> HIDE DEF n, c, u, a
    <2>1. c + 1 < Limit
      BY <1>2, <1>4
    <2> USE DEF a, c
    <2> QED BY <1>1, <2>1, AuthorStays
  <1>6. ASSUME cache' = Found(u), Used({u}), SameCommand(t), th'[t].at = "resync"
        PROVE  Room(t)'
    <2>1. newer'[a] \subseteq newer[a] \cup {u}
      BY <1>1, <1>6 DEF Used
    <2> DEFINE d == Cardinality(newer'[a])
    <2>2. d \in Nat /\ d <= c + 1
      BY <1>3, <2>1, OneMore
    <2>3. th'[t].author = a /\ Len(th'[t].to) = n
      BY <1>6 DEF SameCommand
    <2> HIDE DEF a, n, c
    <2>4. d = Cardinality(newer'[th'[t].author])
      BY <2>3
    <2> HIDE DEF d
    <2>5. d + n <= Limit
      BY <1>2, <1>4, <2>2
    <2> QED BY <1>6, <2>3, <2>4, <2>5 DEF Room, Paid
  <1> QED BY <1>5, <1>6

LEMMA KindsApart == WalletKinds \cap PlainKinds = {} /\ Payments \subseteq WalletKinds
  BY DEF WalletKinds, PlainKinds, Payments

LEMMA StampsKept == ASSUME Stamped, UNCHANGED <<cache, newer>> PROVE Stamped'
  BY DEF Stamped

(* A command that opened its author's wallet goes on: what it needs of the map is there. *)
LEMMA WithWalletKept ==
  ASSUME TypeInv, Stamped, NEW t \in Workers, WithWallet(t), OthersSleep(t), SameCommand(t),
         UNCHANGED <<cache, newer, MyAccount>>,
         th'[t].at \in Paying \cup {"answer", "restart"},
         th[t].at \in Paid => th'[t].at \in Paid,
         th'[t].at \in Paying => th'[t].acc = th[t].author,
         th'[t].at \notin Paying => th'[t].acc = Null,
         th'[t].at \in {"pool", "resync"} => ToUser(t)
  PROVE  LiveInv'
  <1>1. t \in Threads /\ th[t].author \in Users
    BY ThreadsApart DEF WithWallet, TypeInv, PoolTyped
  <1>2. Room(t)'
    BY <1>1, RoomKept DEF WithWallet
  <1>3. WithWallet(t)'
    BY <1>2 DEF WithWallet, SameCommand, ToUser
  <1> QED BY <1>1, <1>3, StampsKept, LivePasses

LEMMA SleepLives ==
  ASSUME Stamped', NEW t \in Threads, OthersSleep(t), th'[t] = Sleeping
  PROVE  LiveInv'
  BY LivePasses

LEMMA SleepersLive ==
  ASSUME TypeInv, OneBusy, LiveInv, NEW t \in Threads,
         \/ Answer(t) \/ Toggle(t) \/ SaveWallets(t) \/ Decline(t) \/ EndWalk(t)
         \/ VisitThrows(t) \/ GuardThrows(t) \/ TransferThrows(t) \/ NoteThrows(t)
  PROVE  LiveInv'
  <1>1. UNCHANGED <<cache, newer>>
    BY DEF Answer, Toggle, SaveWallets, Decline, EndWalk, VisitThrows, GuardThrows, TransferThrows, NoteThrows
  <1> QED BY <1>1, SleepersMove, StampsKept, SleepLives DEF LiveInv

(* getAccount throws: the author's account is still there to be unlocked. *)
LEMMA ThrowsStamped ==
  ASSUME Stamped, NEW t \in Threads, GetAccountThrows(t)
  PROVE  Stamped'
  <1> DEFINE u == th[t].want
  <1>1. \/ Cached(u) /\ UNCHANGED <<cache, newer>>
        \/ cache' = Found(u) \ {u} /\ Used({})
        \/ ~Cached(u) /\ cache' = Found(u) /\ (Copied(u) \/ Used({u}))
    BY DEF GetAccountThrows
  <1> HIDE DEF u
  <1>2. Cached(u) => cache \subseteq Found(u)
    BY DEF Found, Cached
  <1>3. \/ cache' \subseteq Found(u) /\ UNCHANGED <<cache, newer>>
        \/ cache' \subseteq Found(u) /\ (\E w : Used(w))
        \/ cache' \subseteq Found(u) /\ Copied(u)
    BY <1>1, <1>2
  <1> QED BY <1>3, FoundStamped

LEMMA GetAccountThrowsLives ==
  ASSUME TypeInv, OneBusy, LiveInv, NEW t \in Threads, GetAccountThrows(t)
  PROVE  LiveInv'
  <1>1. ASSUME Destroyed(th[t].acc, cache \ cache') = Freed PROVE FALSE
    <2>1. th[t].acc = Freed \/ th[t].acc \in cache \ cache'
      BY <1>1 DEF Destroyed
    <2>2. th[t].at = "pool" /\ Busy(t)
      BY DEF GetAccountThrows, Busy
    <2>3. th[t].acc \notin cache \/ th[t].acc \in cache'
      <3>1. CASE th[t].acc = Null
        BY <3>1, PointerAssumption DEF TypeInv, PoolTyped
      <3>2. CASE t \in Workers /\ WithWallet(t)
        <4> DEFINE a == th[t].author
                   u == th[t].want
        <4>1. /\ th[t].acc = a /\ a \in cache /\ Room(t) /\ ToUser(t)
          BY <2>2, <3>2 DEF WithWallet, Paying, Paid
        <4>2. a \in Found(u)
          BY <2>2, <4>1, AskingKeeps DEF LiveInv
        <4>3. \/ Cached(u) /\ cache' = cache
              \/ u # th[t].acc /\ cache' = Found(u) \ {u}
              \/ ~Cached(u) /\ cache' = Found(u)
          BY DEF GetAccountThrows
        <4> HIDE DEF a, u
        <4> QED BY <4>1, <4>2, <4>3 DEF Cached
      <3> QED BY <2>2, <3>1, <3>2 DEF LiveInv, Opening, WithoutWallet, Threads
    <2>4. th[t].acc # Freed
      BY <2>2, PointerAssumption DEF LiveInv, Opening, WithWallet, WithoutWallet, Paying, Threads, TypeInv, PoolTyped
    <2> QED BY <2>1, <2>3, <2>4
  <1> QED BY <1>1, GetAccountThrowsMoves, ThrowsStamped, SleepLives DEF LiveInv

LEMMA GetAccountStamped == ASSUME Stamped, NEW t \in Threads, GetAccount(t) PROVE Stamped'
  <1> DEFINE u == th[t].want
  <1>1. cache' = Found(u) /\ Used({u})
    BY DEF GetAccount
  <1> HIDE DEF u
  <1> QED BY <1>1, FoundStamped

LEMMA WorkersGetAccountLives ==
  ASSUME TypeInv, OneBusy, LiveInv, NEW t \in Workers, GetAccount(t)
  PROVE  LiveInv'
  <1> t \in Threads
    BY ThreadsApart
  <1>1. /\ th[t].at = "pool" /\ Busy(t) /\ cache' = Found(th[t].want) /\ Used({th[t].want})
        /\ MyAccount' = Destroyed(MyAccount, cache \ cache')
    BY DEF GetAccount, Destroy, Busy
  <1>2. /\ OthersSleep(t) /\ SameCommand(t) /\ th'[t].at = "resync"
        /\ th'[t].acc = Destroyed(th[t].acc, cache \ cache')
    BY GetAccountMoves
  <1>3. Stamped'
    BY GetAccountStamped DEF LiveInv
  <1>4. CASE WithWallet(t)
    <2>1. /\ th[t].author \in cache /\ Room(t) /\ ToUser(t)
          /\ th[t].acc = th[t].author /\ MyAccount = th[t].author
      BY <1>1, <1>4 DEF WithWallet, Paying, Paid
    <2>2. th[t].author \in cache' /\ Room(t)'
      BY <1>1, <1>2, <2>1, AskingKeeps DEF LiveInv
    <2>3. MyAccount' = th[t].author /\ th'[t].acc = th[t].author
      BY <1>1, <1>2, <2>1, <2>2 DEF Destroyed
    <2>4. WithWallet(t)'
      BY <1>2, <1>4, <2>1, <2>2, <2>3 DEF WithWallet, SameCommand, Paying, Paid, ToUser
    <2> QED BY <1>2, <1>3, <2>4, LivePasses
  <1>5. CASE WithoutWallet(t)
    <2>1. th[t].acc = Null /\ th[t].kind \in PlainKinds /\ th[t].kind = "address"
      BY <1>1, <1>5 DEF WithoutWallet
    <2>2. Null \notin cache \ cache' /\ Null # Freed
      BY PointerAssumption DEF TypeInv, PoolTyped
    <2>3. th'[t].acc = Null
      BY <1>2, <2>1, <2>2 DEF Destroyed
    <2>4. WithoutWallet(t)'
      BY <1>2, <2>1, <2>2, <2>3 DEF WithoutWallet, SameCommand
    <2> QED BY <1>2, <1>3, <2>4, LivePasses
  <1> QED BY <1>1, <1>4, <1>5 DEF LiveInv

(* The payment, step by step. *)
LEMMA PayersLive ==
  ASSUME TypeInv, OneBusy, LiveInv, NEW t \in Workers,
         \/ ReadPointer(t) \/ (ReadId(t) /\ th[t].kind = "restart")
         \/ Lock(t) \/ Guard(t) \/ Transfer(t)
  PROVE  LiveInv'
  <1> t \in Threads
    BY ThreadsApart
  <1>1. Busy(t) /\ UNCHANGED <<cache, newer, MyAccount>> /\ Stamped
    BY DEF ReadPointer, ReadId, Lock, Guard, Transfer, Busy, LiveInv
  <1>2. WithWallet(t)
    BY <1>1, KindsApart DEF LiveInv, WithoutWallet, ReadPointer, ReadId, Lock, Guard, Transfer,
                            WalletKinds
  <1>3. CASE ReadPointer(t)
    <2>1. OthersSleep(t) /\ SameCommand(t) /\ th'[t].at = "lock" /\ th'[t].acc = MyAccount
      BY <1>3, LearnersMove
    <2>2. th[t].at \in {"start", "next"}
      BY <1>3 DEF ReadPointer
    <2> QED BY <1>1, <1>2, <2>1, <2>2, WithWalletKept DEF WithWallet, Paying, Paid
  <1>4. CASE ReadId(t) /\ th[t].kind = "restart"
    <2>1. OthersSleep(t) /\ SameCommand(t) /\ th'[t].at = "restart" /\ th'[t].acc = th[t].acc
      BY <1>4, LearnersMove
    <2>2. th[t].at = "start"
      BY <1>4 DEF ReadId
    <2> QED BY <1>1, <1>2, <2>1, <2>2, WithWalletKept DEF WithWallet, Paying, Paid
  <1>5. CASE Lock(t)
    <2>1. OthersSleep(t) /\ SameCommand(t) /\ th'[t].at = "guard" /\ th'[t].acc = th[t].acc
      BY <1>5, LearnersMove
    <2>2. th[t].at = "lock"
      BY <1>5 DEF Lock
    <2> QED BY <1>1, <1>2, <2>1, <2>2, WithWalletKept DEF WithWallet, Paying, Paid
  <1>6. CASE Guard(t)
    <2>1. /\ OthersSleep(t) /\ SameCommand(t) /\ th'[t].acc = th[t].acc
          /\ th'[t].at = IF ToUser(t) THEN "pool" ELSE "transfer"
      BY <1>6, GuardMoves
    <2>2. th[t].at = "guard"
      BY <1>6 DEF Guard
    <2> QED BY <1>1, <1>2, <2>1, <2>2, WithWalletKept DEF WithWallet, Paying, Paid
  <1>7. CASE Transfer(t)
    <2>1. OthersSleep(t) /\ SameCommand(t) /\ th'[t].at = "note" /\ th'[t].acc = th[t].acc
      BY <1>7, GoersMove
    <2>2. th[t].at = "transfer"
      BY <1>7 DEF Transfer
    <2> QED BY <1>1, <1>2, <2>1, <2>2, WithWalletKept DEF WithWallet, Paying, Paid
  <1> QED BY <1>3, <1>4, <1>5, <1>6, <1>7

LEMMA WorkerResyncLives ==
  ASSUME TypeInv, OneBusy, LiveInv, NEW t \in Workers, WorkerResync(t)
  PROVE  LiveInv'
  <1> t \in Threads
    BY ThreadsApart
  <1>1. /\ Busy(t) /\ UNCHANGED <<cache, newer, MyAccount>> /\ Stamped /\ Stamped'
        /\ th[t].at = "resync"
    BY StampsKept DEF WorkerResync, CanResync, Busy, LiveInv
  <1>2. CASE OthersSleep(t) /\ th'[t] = Sleeping
    BY <1>1, <1>2, SleepLives
  <1>3. CASE /\ th[t].kind # "address" /\ OthersSleep(t) /\ SameCommand(t)
             /\ th'[t].at = "transfer" /\ th'[t].acc = th[t].acc
    <2>1. CASE WithWallet(t)
      <3>1. th[t].acc = th[t].author
        BY <1>1, <2>1 DEF WithWallet, Paying, Paid
      <3> QED BY <1>1, <1>3, <2>1, <3>1, WithWalletKept DEF Paying, Paid
    <2>2. CASE WithoutWallet(t)
      BY <1>1, <1>3, <2>2 DEF WithoutWallet
    <2> QED BY <1>1, <2>1, <2>2 DEF LiveInv
  <1> QED BY <1>2, <1>3, WorkerResyncMoves

(* !give goes on with one user less, and reads the pointer again: it is the author's. *)
LEMMA SetTXNoteLives ==
  ASSUME TypeInv, OneBusy, LiveInv, NEW t \in Workers, SetTXNote(t)
  PROVE  LiveInv'
  <1> t \in Threads
    BY ThreadsApart
  <1>1. /\ Busy(t) /\ UNCHANGED <<cache, newer, MyAccount>> /\ Stamped /\ Stamped'
        /\ th[t].at = "note"
    BY StampsKept DEF SetTXNote, Busy, LiveInv
  <1>2. CASE OthersSleep(t) /\ th'[t] = Sleeping
    BY <1>1, <1>2, SleepLives
  <1>3. CASE /\ OthersSleep(t) /\ th[t].kind = "give" /\ Len(th[t].to) > 1
             /\ th'[t].at = "next" /\ th'[t].kind = "give" /\ th'[t].acc = Null
             /\ th'[t].author = th[t].author /\ th'[t].to = Tail(th[t].to)
    <2>1. WithWallet(t)
      BY <1>1 DEF LiveInv, WithoutWallet
    <2> DEFINE a == th[t].author
               c == Cardinality(newer[a])
               n == Len(th[t].to)
    <2>2. a \in Users /\ th[t].to \in Seq(Users)
      BY <2>1 DEF WithWallet, TypeInv, ThreadsTyped, ThreadStates, PoolTyped
    <2>3. Len(Tail(th[t].to)) = n - 1 /\ n \in Nat
      BY <1>3, <2>2, TailOf, LenProperties
    <2>4. c \in Nat /\ c + n <= Limit /\ Limit \in Nat
      BY <2>1, <2>2, FS_Subset, FS_CardinalityType, LimitAssumption DEF WithWallet, Room, LiveInv, Stamped
    <2>5. Cardinality(newer'[th'[t].author]) = c /\ Len(th'[t].to) = n - 1
      BY <1>1, <1>3, <2>3
    <2> HIDE DEF c, n
    <2>6. c + (n - 1) <= Limit /\ c + (n - 1) < Limit
      BY <2>3, <2>4
    <2>7. Room(t)'
      BY <1>3, <2>5, <2>6 DEF Room
    <2>8. WithWallet(t)'
      BY <1>1, <1>3, <2>1, <2>7 DEF WithWallet, Paying, Paid
    <2> QED BY <1>1, <1>3, <2>8, LivePasses
  <1>4. CASE OthersSleep(t) /\ th'[t].at = "answer" /\ SameCommand(t) /\ th'[t].acc = Null
    <2>1. WithWallet(t)
      BY <1>1 DEF LiveInv, WithoutWallet
    <2> QED BY <1>1, <1>4, <2>1, WithWalletKept DEF Paying, Paid
  <1> QED BY <1>2, <1>3, <1>4, SetTXNoteMoves

(* The commands that open no wallet of their author's. *)
LEMMA WalkersLive ==
  ASSUME TypeInv, OneBusy, LiveInv, NEW t \in Workers,
         \/ OpenAddress(t) \/ (ReadId(t) /\ th[t].kind = "restartfaucet")
         \/ BeginWalk(t) \/ Walk(t) \/ Visit(t)
  PROVE  LiveInv'
  <1> t \in Threads
    BY ThreadsApart
  <1>1. Busy(t) /\ UNCHANGED <<cache, newer>> /\ Stamped'
    BY StampsKept DEF OpenAddress, ReadId, BeginWalk, Walk, Visit, Busy, LiveInv
  <1>2. th[t].kind \in PlainKinds => WithoutWallet(t)
    BY <1>1, KindsApart DEF LiveInv, WithWallet
  <1>3. OthersSleep(t) /\ SameCommand(t)
    BY LearnersMove, GoersMove
  <1>4. CASE OpenAddress(t)
    <2>1. th[t].at = "start" /\ th[t].kind = "address" /\ th'[t].at = "pool" /\ th'[t].acc = th[t].acc
      BY <1>4, LearnersMove DEF OpenAddress
    <2>2. "address" \in PlainKinds
      BY DEF PlainKinds
    <2>3. th[t].acc = Null /\ Null # Freed
      BY <1>2, <2>1, <2>2, PointerAssumption DEF WithoutWallet
    <2>4. WithoutWallet(t)'
      BY <1>3, <2>1, <2>2, <2>3 DEF WithoutWallet, SameCommand
    <2> QED BY <1>1, <1>3, <2>4, LivePasses
  <1>5. CASE BeginWalk(t)
    <2>1. th[t].kind \in Walks /\ th[t].at = "start" /\ th'[t].at = "walk" /\ th'[t].acc = th[t].acc
      BY <1>5, LearnersMove DEF BeginWalk
    <2>2. th[t].kind \in PlainKinds
      BY <2>1 DEF Walks, PlainKinds
    <2>3. WithoutWallet(t)'
      BY <1>2, <1>3, <2>1, <2>2 DEF WithoutWallet, SameCommand
    <2> QED BY <1>1, <1>3, <2>3, LivePasses
  <1>6. CASE Walk(t) \/ Visit(t)
    <2>1. th[t].at \in {"walk", "visit"}
      BY <1>6 DEF Walk, Visit
    <2>2. WithoutWallet(t)
      BY <1>1, <2>1 DEF LiveInv, WithWallet, Paying
    <2>3. \/ th'[t].at = "visit" /\ th'[t].acc \in Users
          \/ th'[t].at = "walk" /\ th'[t].acc = th[t].acc
      BY <1>6, LearnersMove, GoersMove
    <2>4. WithoutWallet(t)'
      BY <1>3, <2>2, <2>3, PointerAssumption DEF WithoutWallet, SameCommand
    <2> QED BY <1>1, <1>3, <2>4, LivePasses
  <1>7. CASE ReadId(t) /\ th[t].kind = "restartfaucet"
    <2>1. th[t].at = "start" /\ th'[t].at = "restart" /\ th'[t].acc = th[t].acc
      BY <1>7, LearnersMove DEF ReadId
    <2>2. "restartfaucet" \in PlainKinds
      BY DEF PlainKinds
    <2>3. th[t].acc = Null /\ Null # Freed
      BY <1>2, <1>7, <2>1, <2>2, PointerAssumption DEF WithoutWallet
    <2>4. WithoutWallet(t)'
      BY <1>3, <1>7, <2>1, <2>2, <2>3 DEF WithoutWallet, SameCommand
    <2> QED BY <1>1, <1>3, <2>4, LivePasses
  <1> QED BY <1>4, <1>5, <1>6, <1>7

(* No step finds an account that is not there. *)
LEMMA NobodyCrashes ==
  ASSUME TypeInv, OneBusy, LiveInv, NEW t \in Workers
  PROVE  ~ReadBadPointer(t) /\ ~UseFreed(t)
  <1>1. ASSUME ReadBadPointer(t) PROVE FALSE
    <2>1. /\ Busy(t) /\ th[t].at \in {"start", "next", "answer"} /\ th[t].kind \in WalletKinds
          /\ MyAccount \notin Users
      BY <1>1 DEF ReadBadPointer, Busy
    <2>2. WithWallet(t)
      BY <2>1, KindsApart DEF LiveInv, WithoutWallet
    <2> QED BY <2>1, <2>2 DEF WithWallet, TypeInv, PoolTyped
  <1>2. ASSUME UseFreed(t) PROVE FALSE
    <2>1. /\ Busy(t)
          /\ \/ th[t].at \in {"lock", "guard", "transfer", "note"} /\ th[t].acc \notin Users
             \/ th[t].at \in {"walk", "visit"} /\ th[t].acc = Freed
      BY <1>2 DEF UseFreed, Alive, Busy
    <2>2. CASE WithWallet(t)
      BY <2>1, <2>2 DEF WithWallet, Paying, TypeInv, PoolTyped
    <2>3. CASE WithoutWallet(t)
      BY <2>1, <2>3 DEF WithoutWallet
    <2> QED BY <2>1, <2>2, <2>3 DEF LiveInv
  <1> QED BY <1>1, <1>2

LEMMA ResyncThrowsLives ==
  ASSUME TypeInv, OneBusy, LiveInv, NEW t \in Threads, ResyncThrows(t)
  PROVE  LiveInv'
  <1>1. Busy(t) /\ th[t].at = "resync" /\ Stamped'
    BY StampsKept DEF ResyncThrows, CanResync, Busy, LiveInv
  <1>2. th[t].acc # Freed
    <2>1. CASE t = Handler
      BY <1>1, <2>1, PointerAssumption DEF LiveInv, Opening
    <2>2. CASE t \in Workers /\ WithWallet(t)
      BY <1>1, <2>2, PointerAssumption DEF WithWallet, Paying, TypeInv, PoolTyped
    <2>3. CASE t \in Workers /\ WithoutWallet(t)
      BY <2>3 DEF WithoutWallet
    <2> QED BY <1>1, <2>1, <2>2, <2>3 DEF LiveInv, Threads
  <1> QED BY <1>1, <1>2, ResyncMoves, SleepLives

LEMMA RestartWalletLives ==
  ASSUME TypeInv, OneBusy, LiveInv, NEW t \in Threads, RestartWallet(t)
  PROVE  LiveInv'
  <1> DEFINE u == th[t].want
  <1>1. cache' \subseteq cache /\ Used({})
    BY DEF RestartWallet, Survivors
  <1>2. IsFiniteSet(cache')
    BY <1>1, FS_Subset DEF LiveInv, Stamped
  <1>3. Stamped'
    BY <1>1, <1>2 DEF Used, Stamped
  <1> QED BY <1>3, RestartWalletMoves, SleepLives

LEMMA WorkersLive ==
  ASSUME TypeInv, OneBusy, LiveInv, NEW t \in Workers, Command(t)
  PROVE  LiveInv'
  <1> t \in Threads
    BY ThreadsApart
  <1>1. CASE GetAccount(t) \/ GetAccountThrows(t) \/ WorkerResync(t) \/ ResyncThrows(t)
    BY <1>1, WorkersGetAccountLives, GetAccountThrowsLives, WorkerResyncLives, ResyncThrowsLives
  <1>2. CASE \/ Answer(t) \/ Toggle(t) \/ SaveWallets(t) \/ Decline(t) \/ EndWalk(t)
             \/ VisitThrows(t) \/ GuardThrows(t) \/ TransferThrows(t) \/ NoteThrows(t)
    BY <1>2, SleepersLive
  <1>3. CASE ReadPointer(t) \/ Lock(t) \/ Guard(t) \/ Transfer(t) \/ SetTXNote(t)
    BY <1>3, PayersLive, SetTXNoteLives
  <1>4. CASE OpenAddress(t) \/ ReadId(t) \/ BeginWalk(t) \/ Walk(t) \/ Visit(t)
    BY <1>4, PayersLive, WalkersLive DEF ReadId
  <1>5. CASE ReadBadPointer(t) \/ UseFreed(t) \/ RestartWallet(t)
    BY <1>5, NobodyCrashes, RestartWalletLives
  <1> QED BY <1>1, <1>2, <1>3, <1>4, <1>5 DEF Command

(* The handler. *)

LEMMA HandlersGetAccountLives == ASSUME TypeInv, OneBusy, LiveInv, GetAccount(Handler) PROVE LiveInv'
  <1> Handler \in Threads
    BY ThreadsApart
  <1> DEFINE u == th[Handler].want
  <1>1. Opening /\ u \in Users /\ cache' = Found(u) /\ Used({u})
    BY DEF GetAccount, LiveInv, Busy, TypeInv, ThreadsTyped, Asks
  <1>2. /\ OthersSleep(Handler) /\ SameCommand(Handler) /\ th'[Handler].at = "resync"
        /\ th'[Handler].want = u /\ th'[Handler].acc = Destroyed(th[Handler].acc, cache \ cache')
    BY GetAccountMoves
  <1>3. th'[Handler].acc = Null
    BY <1>1, <1>2, PointerAssumption DEF Opening, Destroyed, TypeInv, PoolTyped
  <1>4. u \in cache' /\ newer'[u] = {}
    BY <1>1 DEF Found, Used
  <1>5. Opening'
    BY <1>1, <1>2, <1>3, <1>4 DEF Opening, SameCommand
  <1> QED BY <1>2, <1>5, GetAccountStamped, LivePasses DEF LiveInv

LEMMA HandlerResyncLives == ASSUME TypeInv, OneBusy, LiveInv, HandlerResync PROVE LiveInv'
  <1> Handler \in Threads
    BY ThreadsApart
  <1>1. /\ Opening /\ th[Handler].at = "resync" /\ UNCHANGED <<cache, newer>> /\ Stamped'
    BY StampsKept DEF HandlerResync, CanResync, LiveInv, Busy
  <1>2. PICK w \in Workers :
          /\ OthersSleep(w) /\ th'[w].at = "start"
          /\ th'[w].kind = th[Handler].kind /\ th'[w].author = th[Handler].author
          /\ th'[w].to = th[Handler].to /\ th'[w].acc = th[Handler].acc
          /\ MyAccount' = th[Handler].want
    BY HandlerResyncMoves
  <1> DEFINE a == th[Handler].author
             n == Len(th[Handler].to)
  <1>3. /\ a \in cache /\ newer[a] = {} /\ n < Limit /\ n \in Nat
        /\ th[Handler].kind \in WalletKinds /\ th[Handler].acc = Null /\ th[Handler].want = a
    BY <1>1, LenProperties DEF Opening, TypeInv, ThreadsTyped, ThreadStates
  <1>4. Cardinality(newer'[th'[w].author]) = 0 /\ Len(th'[w].to) = n
    BY <1>1, <1>2, <1>3, FS_EmptySet
  <1> HIDE DEF n
  <1>5. 0 + n < Limit /\ 0 + n <= Limit
    BY <1>3, LimitAssumption
  <1>6. Room(w)'
    BY <1>4, <1>5 DEF Room
  <1>7. WithWallet(w)'
    BY <1>1, <1>2, <1>3, <1>6 DEF WithWallet, Paying, Paid
  <1> QED BY <1>1, <1>2, <1>7, LivePasses, ThreadsApart

LEMMA HandlersLive == ASSUME TypeInv, OneBusy, LiveInv, HandlerStep PROVE LiveInv'
  BY ThreadsApart, HandlersGetAccountLives, GetAccountThrowsLives, HandlerResyncLives, ResyncThrowsLives
     DEF HandlerStep

LEMMA MessagesLive ==
  ASSUME Serial, TypeInv, OneBusy, LiveInv, ReceivePlain \/ Receive
  PROVE  LiveInv'
  <1>1. Stamped'
    BY StampsKept DEF ReceivePlain, Receive, LiveInv
  <1>2. CASE Receive
    <2>1. PICK u \in Users, kind \in WalletKinds, to \in Mentions :
            /\ OthersSleep(Handler) /\ th'[Handler].at = "pool"
            /\ th'[Handler].kind = kind /\ th'[Handler].to = to /\ th'[Handler].acc = Null
            /\ th'[Handler].author = u /\ th'[Handler].want = u
      BY <1>2, ReceiveMoves DEF Serial
    <2>2. Opening'
      BY <2>1 DEF Opening, Serial
    <2> QED BY <1>1, <2>1, <2>2, ThreadsApart, LivePasses
  <1>3. CASE ReceivePlain
    <2>1. PICK w \in Workers :
            /\ OthersSleep(w)
            /\ \/ th'[w] = Sleeping
               \/ th'[w].at = "start" /\ th'[w].kind \in PlainKinds /\ th'[w].acc = Null
      BY <1>3, ReceivePlainMoves DEF Serial
    <2>2. th'[w] = Sleeping \/ WithoutWallet(w)'
      BY <2>1, PointerAssumption DEF WithoutWallet
    <2> QED BY <1>1, <2>1, <2>2, ThreadsApart, LivePasses
  <1> QED BY <1>2, <1>3

LEMMA NotCrashed == LiveInv => ~Crashed
  BY ThreadsApart DEF LiveInv, Busy, Opening, Crashed

LEMMA LiveStep == ASSUME Serial, TypeInv, TurnInv, LiveInv, [Next]_vars PROVE LiveInv'
  <1>1. CASE UNCHANGED vars
    BY <1>1 DEF vars, LiveInv, Stamped, Busy, Opening, WithWallet, WithoutWallet, Room, ToUser
  <1>2. CASE Next
    <2>1. OneBusy
      BY NotCrashed DEF TurnInv
    <2>2. ~WatchDog
      BY DEF Serial, WatchDog
    <2> QED BY <1>2, <2>1, <2>2, WorkersLive, HandlersLive, MessagesLive DEF Next
  <1> QED BY <1>1, <1>2

LEMMA SerialRuns == ASSUME Serial PROVE Spec => [](TypeInv /\ TurnInv /\ LiveInv)
  <1>1. Init => TypeInv /\ TurnInv /\ LiveInv
    BY TypeInit, TurnInit, LiveInit
  <1>2. TypeInv /\ TurnInv /\ LiveInv /\ [Next]_vars => (TypeInv /\ TurnInv /\ LiveInv)'
    BY TypeStep, TurnStep, LiveStep DEF Serial
  <1> QED BY <1>1, <1>2, PTL DEF Spec

(* The money of a command comes from the account of the user who sent it, although         *)
(* tranfer is called on whatever Tip's one pointer leads to: with one command at a time    *)
(* nobody moves the pointer between onMessage and the last payment of the command.         *)
THEOREM AuthorsPay == ASSUME Serial PROVE Spec => AuthorPays
  <1>1. ASSUME LiveInv, [Next]_vars
        PROVE  [\A t \in Workers : Pays(t) => th[t].acc = th[t].author]_vars
    <2>1. ASSUME NEW t \in Workers, Pays(t) PROVE th[t].acc = th[t].author
      BY <1>1, <2>1 DEF Pays, LiveInv, Busy, WithWallet, WithoutWallet, Paying
    <2> QED BY <2>1
  <1>2. LiveInv /\ [Next]_vars => [\A t \in Workers : Pays(t) => th[t].acc = th[t].author]_vars
    BY <1>1
  <1> QED BY <1>2, SerialRuns, PTL DEF Spec, AuthorPays

(* And that account is there: the accounts that getAccount destroys to make room for the   *)
(* users a command pays are older than its author's, as long as it mentions fewer users    *)
(* than max_rpc_limit.                                                                     *)
THEOREM AccountsLive == ASSUME Serial PROVE Spec => []UsesLiveAccounts
  <1>1. LiveInv => UsesLiveAccounts
    BY DEF LiveInv, Busy, Opening, UsesLiveAccounts
  <1> QED BY <1>1, SerialRuns, PTL

=============================================================================
