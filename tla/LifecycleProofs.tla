-------------------------- MODULE LifecycleProofs ---------------------------
(***************************************************************************)
(* What the counter of threads guarantees to main and to the threads,       *)
(* proved for any number of threads, messages and restarts, and whatever    *)
(* fails.  It is less than main's comment says: threads that have not       *)
(* counted themselves are not waited for, and everything is given up once   *)
(* an increment was lost; but a lost decrement only keeps main waiting.     *)
(***************************************************************************)
EXTENDS Lifecycle, FiniteSetTheorems, TLAPS

(* Types. *)

ThreadType == [kind : Everything, at : Places, stale : Fates]

LEMMA ModulusPositive == Modulus \in Nat /\ Modulus > 0
  BY ThreadsAssumption, ModulusAssumption, FS_CardinalityType

LEMMA GoneTyped ==
  /\ Gone \in ThreadType
  /\ \A kind \in Everything : [Gone EXCEPT !.kind = kind, !.at = "spawned"] \in ThreadType
  BY DEF Gone, ThreadType, Everything, Places, Fates

(* What a step can make of each variable. *)
LEMMA FlagSteps ==
  ASSUME Next
  PROVE  /\ Shutdown' \in {TRUE, FALSE, Shutdown} /\ Quitting' \in {TRUE, Quitting}
         /\ open' \in {TRUE, FALSE, open} /\ pool' \in {TRUE, FALSE, pool}
  BY DEF Next, Main, StartUp, StartUpThrows, RunEnds, ClientDestroyed, PoolDestroyed, GoesOn,
         ShutdownComplete, Exit, OnReady, OnMessage, Step, Begins, Ends, Test, Works,
         SoftRestartBot, ShutdownBot, Quit, Stopped, vars, flagVars

LEMMA PlaceSteps ==
  ASSUME Next
  PROVE  main' \in {main, "top", "serving", "client", "waiting", "reset", "exit"}
  BY DEF Next, Main, StartUp, StartUpThrows, RunEnds, ClientDestroyed, PoolDestroyed, GoesOn,
         ShutdownComplete, Exit, OnReady, OnMessage, Step, Begins, Ends, Test, Works,
         SoftRestartBot, ShutdownBot, Quit, Stopped, vars, flagVars

LEMMA ReadySteps ==
  ASSUME Next
  PROVE  \/ ready' = 0 \/ ready' = ready
         \/ ready' = ready + 1 /\ ready < MaxReady
  <1>1. CASE OnReady
    BY <1>1 DEF OnReady
  <1>2. CASE ClientDestroyed
    BY <1>2 DEF ClientDestroyed
  <1>3. CASE ~OnReady /\ ~ClientDestroyed
    <2>1. ready' = ready
      BY <1>3 DEF Next, Main, StartUp, StartUpThrows, RunEnds, PoolDestroyed, GoesOn,
         ShutdownComplete, Exit, OnMessage, Step, Begins, Ends, Test, Works,
         SoftRestartBot, ShutdownBot, Quit, Stopped, vars, flagVars
    <2> QED BY <2>1
  <1> QED BY <1>1, <1>2, <1>3

LEMMA CountSteps ==
  ASSUME Next
  PROVE  /\ count' \in {count, (count + 1) % Modulus, (count - 1) % Modulus}
         /\ missed' \in {missed, missed \cup {}} \cup {missed \cup {miss} : miss \in Misses}
  <1>1. CASE \E t \in Threads : Begins(t) \/ Ends(t)
    BY <1>1 DEF Begins, Ends, CountedIn, CountedOut, Update, Misses
  <1>2. CASE \E t \in Threads : Test(t) \/ Works(t) \/ SoftRestartBot(t) \/ ShutdownBot(t)
    BY <1>2 DEF Test, Works, SoftRestartBot, ShutdownBot, countVars
  <1>3. CASE ClientDestroyed \/ PoolDestroyed
    BY <1>3 DEF ClientDestroyed, PoolDestroyed, GoesOn, Misses
  <1>4. CASE StartUp \/ StartUpThrows \/ RunEnds \/ ShutdownComplete \/ Exit \/ OnReady \/ OnMessage
             \/ Stopped
    BY <1>4 DEF StartUp, StartUpThrows, RunEnds, ShutdownComplete, Exit, OnReady, OnMessage,
                Stopped, vars, countVars
  <1> QED BY <1>1, <1>2, <1>3, <1>4 DEF Next, Main, Step

LEMMA ThreadSteps ==
  ASSUME Next
  PROVE  \/ th' = th \/ th' = [t \in Threads |-> Gone]
         \/ \E t \in Threads, at \in Places : th' = [th EXCEPT ![t].at = at]
         \/ \E t \in Threads : th' = [th EXCEPT ![t] = Gone]
         \/ th' = Destroyed
         \/ \E t \in Threads, kind \in Everything :
              \/ th' = Spawn(t, kind, th)
              \/ th' = Spawn(t, kind, Replaced)
  BY DEF Next, Main, StartUp, StartUpThrows, RunEnds, ClientDestroyed, PoolDestroyed, GoesOn,
         ShutdownComplete, Exit, OnReady, OnMessage, Step, Begins, Ends, Test, Works,
         SoftRestartBot, ShutdownBot, Quit, Stopped, vars, flagVars, Slots, Go, Places, Everything

LEMMA TypeStep == TypeOK /\ [Next]_vars => TypeOK'
  <1> SUFFICES ASSUME TypeOK, [Next]_vars PROVE TypeOK'
    OBVIOUS
  <1>1. CASE UNCHANGED vars
    BY <1>1 DEF vars, flagVars, countVars, TypeOK
  <1>2. CASE Next
    <2>0. th \in [Threads -> ThreadType]
      BY DEF TypeOK, ThreadType
    <2>1. Shutdown' \in BOOLEAN /\ Quitting' \in BOOLEAN /\ open' \in BOOLEAN /\ pool' \in BOOLEAN
      BY <1>2, FlagSteps DEF TypeOK
    <2>2. main' \in {"top", "serving", "client", "waiting", "reset", "exit"}
      BY <1>2, PlaceSteps DEF TypeOK
    <2>3. ready' \in 0 .. MaxReady
      BY <1>2, ReadySteps, ThreadsAssumption DEF TypeOK
    <2>4. count' \in 0 .. Modulus - 1 /\ missed' \subseteq Misses
      <3>1. \A n \in 0 .. Modulus - 1 : /\ (n + 1) % Modulus \in 0 .. Modulus - 1
                                        /\ (n - 1) % Modulus \in 0 .. Modulus - 1
        BY ModulusPositive
      <3> QED BY <1>2, <3>1, CountSteps DEF TypeOK
    <2>5. Destroyed \in [Threads -> ThreadType] /\ Replaced \in [Threads -> ThreadType]
      BY <2>0 DEF Destroyed, Replaced, ThreadType, Fates
    <2>6. ASSUME NEW threads \in [Threads -> ThreadType], NEW t \in Threads, NEW kind \in Everything
          PROVE  Spawn(t, kind, threads) \in [Threads -> ThreadType]
      BY GoneTyped DEF Spawn
    <2>7. ASSUME NEW t \in Threads, NEW at \in Places
          PROVE  [th EXCEPT ![t].at = at] \in [Threads -> ThreadType]
      BY <2>0 DEF ThreadType
    <2>8. /\ [t \in Threads |-> Gone] \in [Threads -> ThreadType]
          /\ \A t \in Threads : [th EXCEPT ![t] = Gone] \in [Threads -> ThreadType]
      BY <2>0, GoneTyped
    <2>9. th' \in [Threads -> ThreadType]
      BY <1>2, <2>0, <2>5, <2>6, <2>7, <2>8, ThreadSteps
    <2> QED BY <2>1, <2>2, <2>3, <2>4, <2>9 DEF TypeOK, ThreadType
  <1> QED BY <1>1, <1>2

LEMMA InitTyped == ASSUME Init PROVE TypeOK
  <1>1. th \in [Threads -> [kind : Everything, at : Places, stale : Fates]]
    BY GoneTyped DEF ThreadType, Init
  <1>2. 0 \in 0 .. MaxReady /\ 0 \in 0 .. Modulus - 1
    BY ThreadsAssumption, ModulusPositive
  <1>3. ready \in 0 .. MaxReady /\ count \in 0 .. Modulus - 1 /\ main = "top" /\ missed = {}
    BY <1>2 DEF Init
  <1>4. Shutdown \in BOOLEAN /\ Quitting \in BOOLEAN /\ open \in BOOLEAN /\ pool \in BOOLEAN
    BY DEF Init
  <1> QED BY <1>1, <1>3, <1>4 DEF TypeOK

(* Every variable keeps its type, even where updates of the counter are lost and it wraps     *)
(* around.                                                                                    *)
THEOREM LifecycleTypes == Spec => []TypeOK
  <1>1. Init => TypeOK
    BY InitTyped
  <1> QED BY <1>1, TypeStep, PTL DEF Spec

-----------------------------------------------------------------------------
(* What main knows of the threads. *)

Fields == {"kind", "at", "stale"}
Counting == {"test", "work", "ending"}
Counted == At(Counting)
Kept == "in" \notin missed

Shape ==
    /\ DOMAIN th = Threads
    /\ \A t \in Threads : DOMAIN th[t] = Fields /\ th[t].at \in Places
    /\ ready \in Nat /\ count \in 0 .. Modulus - 1

(* The counter is not behind the threads, and main starts over without any of the client before *)
(* but late ones.                                                                               *)
CountInv ==
    /\ count >= Cardinality(Counted)
    /\ main \in {"reset", "top", "exit"}
         => \A t \in Threads : th[t].at # "gone" => th[t].stale = "late"

(* How a thread may have come to objects that are gone. *)
LiveInv ==
    \A t \in Threads : th[t].at # "gone" =>
        /\ th[t].kind = "lottery" /\ th[t].stale # "late" => ready > 0
        /\ \/ th[t].stale \in {"no", "late"}
           \/ th[t].stale = "replaced" /\ th[t].kind = "lottery" /\ ready > 1

Core == Shape /\ CountInv /\ LiveInv
LifeInv == TypeOK /\ (Kept => CountInv /\ LiveInv)

LEMMA Shaped == ASSUME TypeOK PROVE Shape
  <1>1. ready \in Nat
    BY ThreadsAssumption DEF TypeOK
  <1>2. \A t \in Threads : th[t] \in ThreadType
    BY DEF TypeOK, ThreadType
  <1>3. \A t \in Threads : DOMAIN th[t] = Fields /\ th[t].at \in Places
    BY <1>2 DEF ThreadType, Fields
  <1> QED BY <1>1, <1>3 DEF TypeOK, Shape

LEMMA GoneFields == DOMAIN Gone = Fields /\ Gone.at = "gone" /\ Gone.kind = "worker" /\ Gone.stale = "no"
  BY DEF Gone, Fields

LEMMA FiniteCount ==
  /\ IsFiniteSet(Counted) /\ Cardinality(Counted) \in Nat
  BY ThreadsAssumption, FS_Subset, FS_CardinalityType DEF Counted, At

LEMMA SpawnFields ==
  ASSUME NEW threads, DOMAIN threads = Threads, NEW t \in Threads, NEW kind,
         th' = Spawn(t, kind, threads)
  PROVE  /\ DOMAIN th' = Threads
         /\ \A s \in Threads \ {t} : th'[s] = threads[s]
         /\ th'[t].at = "spawned" /\ th'[t].kind = kind /\ th'[t].stale = "no"
  BY DEF Spawn, Gone, Fields

LEMMA GoFields ==
  ASSUME Shape, NEW t \in Threads, NEW at, th' = Go(t, at)
  PROVE  /\ \A s \in Threads \ {t} : th'[s] = th[s]
         /\ th'[t].at = at /\ th'[t].kind = th[t].kind /\ th'[t].stale = th[t].stale
  BY DEF Shape, Go, Fields

LEMMA DestroyedFields ==
  ASSUME Shape
  PROVE  LET after == Destroyed
         IN  \A s \in Threads :
               /\ after[s].at = th[s].at /\ after[s].kind = th[s].kind
               /\ after[s].at = "spawned" => after[s].stale = "late"
  BY DEF Shape, Destroyed, Fields

LEMMA ReplacedFields ==
  ASSUME Shape
  PROVE  LET after == Replaced
         IN  /\ DOMAIN after = Threads
             /\ \A s \in Threads :
                  /\ after[s].at = th[s].at /\ after[s].kind = th[s].kind
                  /\ \/ after[s].stale = th[s].stale
                        /\ ~(th[s].kind = "lottery" /\ th[s].stale = "no")
                     \/ after[s].stale = "replaced" /\ th[s].stale = "no" /\ th[s].kind = "lottery"
  BY DEF Shape, Replaced, Fields

LEMMA LifeInit == ASSUME Init, TypeOK PROVE CountInv /\ LiveInv
  <1>1. \A t \in Threads : th[t].at = "gone"
    BY GoneFields DEF Init
  <1>2. Counted = {}
    BY <1>1 DEF Counted, At, Counting
  <1>3. count >= Cardinality(Counted)
    BY <1>2, FS_EmptySet DEF Init
  <1> QED BY <1>1, <1>3 DEF CountInv, LiveInv

(* Steps that leave the threads where they are. *)
LEMMA ThreadsStay ==
  ASSUME Core, UNCHANGED <<count, th, ready>>,
         main' \in {"reset", "top", "exit"} => main \in {"reset", "top", "exit"}
  PROVE  (CountInv /\ LiveInv)'
  <1>1. Counted' = Counted
    BY DEF Counted, At
  <1> QED BY <1>1 DEF Core, CountInv, LiveInv

(* Steps of one thread: only its place changes. *)
LEMMA OneThread ==
  ASSUME Core, NEW t \in Threads, UNCHANGED <<main, ready>>,
         \A s \in Threads \ {t} : th'[s] = th[s], th[t].at # "gone",
         th'[t].at # "gone" => th'[t].kind = th[t].kind /\ th'[t].stale = th[t].stale,
         (count >= Cardinality(Counted))'
  PROVE  (CountInv /\ LiveInv)'
  BY DEF Core, CountInv, LiveInv

(* A thread is started, perhaps while others lose their objects. *)
LEMMA SpawnKeeps ==
  ASSUME Core, UNCHANGED count, main' \notin {"reset", "top", "exit"},
         NEW t \in Slots, NEW kind, NEW threads, th' = Spawn(t, kind, threads),
         kind = "lottery" => ready' > 0, DOMAIN threads = Threads,
         \A s \in Threads : threads[s].at = th[s].at,
         \A s \in Threads : threads[s].at # "gone" =>
           /\ threads[s].kind = "lottery" /\ threads[s].stale # "late" => ready' > 0
           /\ \/ threads[s].stale \in {"no", "late"}
              \/ threads[s].stale = "replaced" /\ threads[s].kind = "lottery" /\ ready' > 1
  PROVE  (CountInv /\ LiveInv)'
  <1>1. t \in Threads /\ th[t].at = "gone"
    BY DEF Slots
  <1>2. /\ \A s \in Threads \ {t} : th'[s] = threads[s]
        /\ th'[t].at = "spawned" /\ th'[t].kind = kind /\ th'[t].stale = "no"
    BY <1>1, SpawnFields
  <1>3. LiveInv'
    BY <1>2 DEF LiveInv
  <1>4. Counted' = Counted
    BY <1>1, <1>2 DEF Counted, At, Counting
  <1> QED BY <1>3, <1>4 DEF Core, CountInv

LEMMA StartUpKeeps == ASSUME Core, StartUp PROVE (CountInv /\ LiveInv)'
  <1>1. PICK t \in Slots : th' = Spawn(t, "pool", th)
    BY DEF StartUp
  <1>2. UNCHANGED <<count, ready>> /\ main' = "serving"
    BY DEF StartUp, countVars
  <1> QED BY <1>1, <1>2, SpawnKeeps DEF Core, Shape, LiveInv

LEMMA OnMessageKeeps == ASSUME Core, OnMessage PROVE (CountInv /\ LiveInv)'
  <1>1. PICK t \in Slots : th' = Spawn(t, "worker", th)
    BY DEF OnMessage
  <1>2. UNCHANGED <<count, ready>> /\ main' = "serving"
    BY DEF OnMessage, countVars
  <1> QED BY <1>1, <1>2, SpawnKeeps DEF Core, Shape, LiveInv

LEMMA OnReadyKeeps == ASSUME Core, OnReady PROVE (CountInv /\ LiveInv)'
  <1> DEFINE threads == Replaced
  <1>1. PICK t \in Slots : th' = Spawn(t, "lottery", threads)
    BY DEF OnReady
  <1>2. UNCHANGED count /\ main' = "serving" /\ ready \in Nat /\ ready' = ready + 1
    BY DEF OnReady, Core, Shape, countVars
  <1>3. /\ DOMAIN threads = Threads
        /\ \A s \in Threads :
             /\ threads[s].at = th[s].at /\ threads[s].kind = th[s].kind
             /\ \/ threads[s].stale = th[s].stale
                   /\ ~(th[s].kind = "lottery" /\ th[s].stale = "no")
                \/ threads[s].stale = "replaced" /\ th[s].stale = "no" /\ th[s].kind = "lottery"
    BY ReplacedFields DEF Core
  <1> HIDE DEF threads
  <1>4. ASSUME NEW s \in Threads, threads[s].at # "gone"
        PROVE  /\ threads[s].kind = "lottery" /\ threads[s].stale # "late" => ready' > 0
               /\ \/ threads[s].stale \in {"no", "late"}
                  \/ threads[s].stale = "replaced" /\ threads[s].kind = "lottery" /\ ready' > 1
    BY <1>2, <1>3, <1>4 DEF Core, LiveInv
  <1> QED BY <1>1, <1>2, <1>3, <1>4, SpawnKeeps

(* What the loop over the counter waits for: those that are left have not counted themselves. *)
LEMMA GoesOnKeeps ==
  ASSUME Core, GoesOn, UNCHANGED count
  PROVE  (CountInv /\ LiveInv)'
  <1>1. Counted = {}
    BY FiniteCount, FS_EmptySet DEF Core, CountInv, GoesOn, NoThreads
  <1>2. \A t \in Threads : th[t].at \in {"gone", "spawned"}
    BY <1>1 DEF Counted, At, Core, Shape, Places, Counting
  <1>3. \A t \in Threads : /\ th'[t].at \in {"gone", "spawned"}
                           /\ th'[t].at = "spawned" => th'[t].stale = "late"
    BY <1>2, DestroyedFields DEF GoesOn, Core
  <1>4. Counted' = {}
    BY <1>3 DEF Counted, At, Counting
  <1>5. (count >= Cardinality(Counted))'
    BY <1>1, <1>4 DEF Core, CountInv
  <1> QED BY <1>3, <1>5 DEF CountInv, LiveInv

LEMMA ExitKeeps == ASSUME Core, Exit PROVE (CountInv /\ LiveInv)'
  <1>1. \A t \in Threads : th'[t].at = "gone"
    BY GoneFields DEF Exit
  <1>2. Counted' = {}
    BY <1>1 DEF Counted, At, Counting
  <1>3. count' \in Nat /\ Cardinality({}) = 0
    BY FS_EmptySet DEF Exit, countVars, Core, Shape
  <1>4. (count >= Cardinality(Counted))'
    BY <1>2, <1>3
  <1> QED BY <1>1, <1>4 DEF CountInv, LiveInv

LEMMA MainKeeps == ASSUME Core, Main PROVE (CountInv /\ LiveInv)'
  <1>1. CASE StartUp
    BY <1>1, StartUpKeeps
  <1>2. CASE StartUpThrows \/ RunEnds \/ ShutdownComplete
    BY <1>2, ThreadsStay DEF StartUpThrows, RunEnds, ShutdownComplete, countVars
  <1>3. CASE ClientDestroyed \/ PoolDestroyed
    BY <1>3, GoesOnKeeps DEF ClientDestroyed, PoolDestroyed
  <1>4. CASE Exit
    BY <1>4, ExitKeeps
  <1> QED BY <1>1, <1>2, <1>3, <1>4 DEF Main

(* Who is counted in or out: as no increment is lost, the counter never falls behind. *)

LEMMA BeginsKeeps ==
  ASSUME Core, Kept', NEW t \in Threads, Begins(t)
  PROVE  (CountInv /\ LiveInv)'
  <1>1. th[t].at = "spawned" /\ th' = Go(t, "test") /\ UNCHANGED <<main, ready>>
    BY DEF Begins
  <1>2. count' = count + 1
    <2>1. count' = (count + 1) % Modulus /\ count + 1 # Modulus
      BY DEF Begins, CountedIn, Update, Kept
    <2> QED BY <2>1, ModulusPositive DEF Core, Shape
  <1>3. /\ \A s \in Threads \ {t} : th'[s] = th[s]
        /\ th'[t].at = "test" /\ th'[t].kind = th[t].kind /\ th'[t].stale = th[t].stale
    BY <1>1, GoFields DEF Core
  <1>4. t \notin Counted /\ Counted' = Counted \cup {t}
    BY <1>1, <1>3 DEF Counted, At, Counting
  <1>5. Cardinality(Counted') = Cardinality(Counted) + 1
    BY <1>4, FiniteCount, FS_AddElement
  <1>6. (count >= Cardinality(Counted))'
    BY <1>2, <1>5, FiniteCount DEF Core, Shape, CountInv
  <1> QED BY <1>1, <1>3, <1>6, OneThread

LEMMA EndsKeeps ==
  ASSUME Core, NEW t \in Threads, Ends(t)
  PROVE  (CountInv /\ LiveInv)'
  <1>1. th[t].at = "ending" /\ th' = [th EXCEPT ![t] = Gone] /\ UNCHANGED <<main, ready>>
    BY DEF Ends
  <1>2. count' \in {count, (count - 1) % Modulus}
    BY DEF Ends, CountedOut, Update
  <1>3. /\ \A s \in Threads \ {t} : th'[s] = th[s]
        /\ th'[t].at = "gone"
    BY <1>1, GoneFields DEF Core, Shape
  <1>4. t \in Counted /\ Counted' = Counted \ {t}
    BY <1>1, <1>3 DEF Counted, At, Counting
  <1>5. Cardinality(Counted') = Cardinality(Counted) - 1
    BY <1>4, FiniteCount, FS_RemoveElement
  <1>6. Cardinality(Counted) # 0
    BY <1>4, FiniteCount, FS_EmptySet
  <1>7. count \in 1 .. Modulus - 1
    BY <1>6, FiniteCount, ModulusPositive DEF Core, Shape, CountInv
  <1>8. (count - 1) % Modulus = count - 1
    BY <1>7, ModulusPositive
  <1>9. (count >= Cardinality(Counted))'
    BY <1>2, <1>5, <1>7, <1>8, FiniteCount DEF Core, CountInv
  <1> QED BY <1>1, <1>3, <1>9, OneThread

LEMMA WorkKeeps ==
  ASSUME Core, NEW t \in Threads, Test(t) \/ Works(t) \/ SoftRestartBot(t) \/ ShutdownBot(t)
  PROVE  (CountInv /\ LiveInv)'
  <1>1. PICK at \in Counting : th' = Go(t, at)
    BY DEF Test, Works, SoftRestartBot, ShutdownBot, Counting
  <1>2. th[t].at \in Counting /\ UNCHANGED <<main, count, ready>>
    BY DEF Test, Works, SoftRestartBot, ShutdownBot, Counting, countVars
  <1>3. /\ \A s \in Threads \ {t} : th'[s] = th[s]
        /\ th'[t].at = at /\ th'[t].kind = th[t].kind /\ th'[t].stale = th[t].stale
    BY <1>1, GoFields DEF Core
  <1>4. Counted' = Counted
    BY <1>2, <1>3 DEF Counted, At
  <1>5. (count >= Cardinality(Counted))'
    BY <1>2, <1>4 DEF Core, CountInv
  <1> QED BY <1>2, <1>3, <1>5, OneThread DEF Counting

LEMMA CoreStep == ASSUME Core, Kept', [Next]_vars PROVE (CountInv /\ LiveInv)'
  <1>1. CASE Main \/ OnReady \/ OnMessage
    BY <1>1, MainKeeps, OnReadyKeeps, OnMessageKeeps
  <1>2. CASE \E t \in Threads : Step(t) \/ SoftRestartBot(t) \/ ShutdownBot(t)
    BY <1>2, BeginsKeeps, EndsKeeps, WorkKeeps DEF Step
  <1>3. CASE Stopped \/ UNCHANGED vars
    BY <1>3, ThreadsStay DEF Stopped, vars, countVars
  <1> QED BY <1>1, <1>2, <1>3 DEF Next

(* A lost increment is not forgotten. *)
LEMMA MissedStays == ASSUME [Next]_vars, Kept' PROVE Kept
  BY CountSteps DEF Kept, vars, countVars

LEMMA LifeStep == LifeInv /\ [Next]_vars => LifeInv'
  <1> SUFFICES ASSUME LifeInv, [Next]_vars PROVE LifeInv'
    OBVIOUS
  <1>1. TypeOK'
    BY TypeStep DEF LifeInv
  <1>2. ASSUME Kept' PROVE (CountInv /\ LiveInv)'
    <2>1. Core
      BY <1>2, MissedStays, Shaped DEF LifeInv, Core
    <2> QED BY <1>2, <2>1, CoreStep
  <1> QED BY <1>1, <1>2 DEF LifeInv

LEMMA LifeInvariant == Spec => []LifeInv
  <1>1. Init => TypeOK
    BY InitTyped
  <1>2. Init => LifeInv
    BY <1>1, LifeInit DEF LifeInv
  <1> QED BY <1>2, LifeStep, PTL DEF Spec

-----------------------------------------------------------------------------
(* The objects that main destroys -- client, Lottery, pool -- are missing to no thread at work, *)
(* however serving ended, however often main starts over and whatever updates of the counter    *)
(* are lost, but in the three ways UsesLiveObjects names.                                       *)
THEOREM ObjectsOutliveThreads == Spec => []UsesLiveObjects
  <1>1. LifeInv => UsesLiveObjects
    <2> SUFFICES ASSUME LifeInv, Kept, NEW t \in At({"work"})
                 PROVE  \/ th[t].stale \in {"no", "late"}
                        \/ th[t].stale = "replaced" /\ th[t].kind = "lottery" /\ ready > 1
      BY DEF UsesLiveObjects, Kept
    <2>1. t \in Threads /\ th[t].at # "gone"
      BY DEF At
    <2> QED BY <2>1 DEF LifeInv, LiveInv
  <1> QED BY <1>1, LifeInvariant, PTL

(* "Ensure all threads are exited": the loop over the counter leaves a thread of the client      *)
(* before only if it had not counted itself when main looked for the last time, or an increment  *)
(* was lost before.                                                                              *)
THEOREM ThreadsEndFirst == Spec => OnlyLateOnesSurvive
  <1>1. LifeInv /\ [Next]_vars
        => [main = "reset" /\ main' = "top"
            => \A t \in At(Places \ {"gone"}) : th[t].stale = "late" \/ "in" \in missed]_vars
    BY DEF LifeInv, CountInv, Kept, At
  <1> QED BY <1>1, LifeInvariant, PTL DEF Spec, OnlyLateOnesSurvive

=============================================================================
