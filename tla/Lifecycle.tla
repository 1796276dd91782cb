----------------------------- MODULE Lifecycle ------------------------------
(***************************************************************************)
(* Starting, restarting and stopping the bot (src/src/main.cpp and the      *)
(* destructors and threads it relies on).                                   *)
(*                                                                         *)
(* main builds a pool and a client, serves messages until a command or an   *)
(* error ends that, and then waits for the other threads before it destroys *)
(* both and starts over.  The threads (one of the pool, one of the lottery, *)
(* one per command) are detached.  All that main knows of them is a counter *)
(* each of them increments when it begins and decrements when it ends, and  *)
(* all that they know of main is the flag Shutdown.                         *)
(***************************************************************************)
EXTENDS Integers, FiniteSets

CONSTANTS
    Threads,   \* bound: detached threads at one time
    MaxReady,  \* bound: READY events per client
    Modulus,   \* the counter is unsigned: 2^32 in the program
    Faults     \* what else may happen

FaultKinds == {"start",  \* setup, the pool's start or its reload throws
               "serve",  \* the connection fails, or onReady throws
               "race"}   \* of two threads that count at once, one's effect is lost

ASSUME ThreadsAssumption == IsFiniteSet(Threads) /\ MaxReady \in Nat
ASSUME ModulusAssumption == Modulus \in Nat /\ Modulus > Cardinality(Threads)
ASSUME FaultAssumption == Faults \subseteq FaultKinds

VARIABLES
    main,      \* where main is
    Shutdown,  \* GlobalConfig.General.Shutdown
    Quitting,  \* GlobalConfig.General.Quitting
    count,     \* GlobalConfig.General.Threads
    missed,    \* history: what main's count went without
    open,      \* is the connection to Discord open
    pool,      \* does RPCMan point to a pool
    ready,     \* READY events this client had: the number of its current Lottery, or 0
    th         \* the detached threads

flagVars == <<Shutdown, Quitting>>
countVars == <<count, missed>>
\* Increments and decrements that were lost, and threads main went on before they were counted.
Misses == {"in", "out", "late"}
vars == <<main, flagVars, countVars, open, pool, ready, th>>

-----------------------------------------------------------------------------
(* Threads.                                                                  *)

\* "spawned": started, not counted; "test": about to look at Shutdown; "work": at work on
\* its client, pool and apps; "ending": about to be uncounted.  The field stale tells how the
\* objects it was given went: "no", they exist; "replaced", by a second READY; main destroyed
\* them and went on, when the thread had yet to be counted, "late", or was counted, "left".
Gone == [kind |-> "worker", at |-> "gone", stale |-> "no"]
Spawn(t, kind, threads) == [threads EXCEPT ![t] = [Gone EXCEPT !.kind = kind, !.at = "spawned"]]

Slots == {t \in Threads : th[t].at = "gone"}
At(places) == {t \in Threads : th[t].at \in places}
Go(t, at) == [th EXCEPT ![t].at = at]

\* A second READY destroys the Lottery of this client's loop.
Replaced == [t \in Threads |-> IF th[t].kind = "lottery" /\ th[t].stale = "no"
                             THEN [th[t] EXCEPT !.stale = "replaced"] ELSE th[t]]

\* main destroys the objects of every thread that is left.
Destroyed ==
    [t \in Threads |->
        IF th[t].at = "gone" THEN th[t]
        ELSE [th[t] EXCEPT !.stale = IF th[t].at = "spawned" THEN "late" ELSE "left"]]

Everything == {"pool", "lottery", "worker"}

Init ==
    /\ main = "top" /\ Shutdown = FALSE /\ Quitting = FALSE
    /\ count = 0 /\ missed = {}
    /\ open = FALSE /\ pool = FALSE /\ ready = 0
    /\ th = [t \in Threads |-> Gone]

-----------------------------------------------------------------------------
(* main.                                                                     *)

\* A pool is created and reloaded, a client created, and the pool's thread started.
StartUp ==
    /\ main = "top" /\ ~Quitting
    /\ \E t \in Slots : th' = Spawn(t, "pool", th)
    /\ pool' = TRUE /\ open' = TRUE
    /\ main' = "serving"
    /\ UNCHANGED <<flagVars, countVars, ready>>

\* There is no client yet, so nothing waits in its destructor.
StartUpThrows ==
    /\ main = "top" /\ ~Quitting /\ "start" \in Faults
    /\ pool' \in BOOLEAN
    /\ Shutdown' = TRUE
    /\ main' = "waiting"
    /\ UNCHANGED <<Quitting, countVars, open, ready, th>>

\* Another READY builds another Lottery, and destroys the one there was.
OnReady ==
    /\ main = "serving" /\ ready < MaxReady
    /\ ready' = ready + 1
    /\ \E t \in Slots : th' = Spawn(t, "lottery", Replaced)
    /\ UNCHANGED <<main, flagVars, countVars, open, pool>>

\* A command gets its thread, whatever Shutdown says, and as long as run() has not returned.
OnMessage ==
    /\ main = "serving" /\ ready > 0
    /\ \E t \in Slots : th' = Spawn(t, "worker", th)
    /\ UNCHANGED <<main, flagVars, countVars, open, pool, ready>>

\* client.run() returns after quit(), or throws: ~TIPBOT sets Shutdown.
RunEnds ==
    /\ main = "serving"
    /\ ~open \/ "serve" \in Faults
    /\ open' = FALSE /\ Shutdown' = TRUE
    /\ main' = "client"
    /\ UNCHANGED <<Quitting, countVars, pool, ready, th>>

\* Variant with a mistake: nobody is waited for.
NoWait == TRUE

\* while (GlobalConfig.General.Threads);
NoThreads == count = 0

GoesOn ==
    /\ NoThreads
    /\ th' = Destroyed
    /\ missed' = missed \cup (IF At({"spawned"}) # {} THEN {"late"} ELSE {})

\* ~TIPBOT returns, and the apps and the client are destroyed.
ClientDestroyed ==
    /\ main = "client" /\ GoesOn
    /\ ready' = 0
    /\ main' = "waiting"
    /\ UNCHANGED <<flagVars, count, open, pool>>

PoolDestroyed ==
    /\ main = "waiting" /\ GoesOn
    /\ pool' = FALSE
    /\ main' = "reset"
    /\ UNCHANGED <<flagVars, count, open, ready>>

ShutdownComplete ==
    /\ main = "reset"
    /\ Shutdown' = FALSE
    /\ main' = "top"
    /\ UNCHANGED <<Quitting, countVars, open, pool, ready, th>>

\* main returns, and the process ends with all its threads.
Exit ==
    /\ main = "top" /\ Quitting
    /\ main' = "exit"
    /\ th' = [t \in Threads |-> Gone]
    /\ UNCHANGED <<flagVars, countVars, open, pool, ready>>

Main ==
    \/ StartUp \/ StartUpThrows \/ RunEnds \/ ClientDestroyed \/ PoolDestroyed
    \/ ShutdownComplete \/ Exit

-----------------------------------------------------------------------------
(* The detached threads.                                                     *)

Alive(t) == main # "exit" /\ th[t].at # "gone"

\* The counter is no atomic variable: an update may be lost to that of another thread which is
\* at the same point.
Update(t, n, kind) ==
    \/ count' = n % Modulus
       /\ missed' = missed \cup (IF n = Modulus THEN {"in"} ELSE {})  \* it starts from 0 again
    \/ "race" \in Faults /\ At({"spawned", "ending"}) # {t}
       /\ count' = count /\ missed' = missed \cup {kind}

\* Variants with a mistake: who ends is not counted out, who begins is counted down.
NotCounted(t) == UNCHANGED countVars
CountedDown(t) == count' = count - 1 /\ UNCHANGED missed

\* Threads++ and Threads--
CountedIn(t) == Update(t, count + 1, "in")
CountedOut(t) == Update(t, count - 1, "out")

Begins(t) ==
    /\ Alive(t) /\ th[t].at = "spawned"
    /\ CountedIn(t)
    /\ th' = Go(t, "test")
    /\ UNCHANGED <<main, flagVars, open, pool, ready>>

Ends(t) ==
    /\ Alive(t) /\ th[t].at = "ending"
    /\ CountedOut(t)
    /\ th' = [th EXCEPT ![t] = Gone]
    /\ UNCHANGED <<main, flagVars, open, pool, ready>>

\* Variant with a mistake: the lottery's loop does not look at the flag.
IgnoresShutdown(t) == Shutdown /\ th[t].kind # "lottery"

Stops(t) == Shutdown

Test(t) ==
    /\ Alive(t) /\ th[t].at = "test"
    /\ th' = Go(t, IF Stops(t) THEN "ending" ELSE "work")
    /\ UNCHANGED <<main, flagVars, countVars, open, pool, ready>>

\* A pass of the pool's or the lottery's loop, or a whole command, is over.
Works(t) ==
    /\ Alive(t) /\ th[t].at = "work"
    /\ th' = Go(t, IF th[t].kind = "worker" THEN "ending" ELSE "test")
    /\ UNCHANGED <<main, flagVars, countVars, open, pool, ready>>

\* quit() on the client the command was given; on one that is destroyed it does who knows what.
Quit(t) == open' = FALSE \/ (th[t].stale # "no" /\ open' = open)

\* !softrestartbot and !shutdown.
SoftRestartBot(t) ==
    /\ Alive(t) /\ th[t].at = "work" /\ th[t].kind = "worker"
    /\ Shutdown' = TRUE /\ Quit(t)
    /\ th' = Go(t, "ending")
    /\ UNCHANGED <<main, Quitting, countVars, pool, ready>>

ShutdownBot(t) ==
    /\ Alive(t) /\ th[t].at = "work" /\ th[t].kind = "worker"
    /\ Shutdown' = TRUE /\ Quitting' = TRUE /\ Quit(t)
    /\ th' = Go(t, "ending")
    /\ UNCHANGED <<main, countVars, pool, ready>>

Step(t) == Begins(t) \/ Ends(t) \/ Test(t) \/ Works(t)

\* The process is gone; or main waits for nobody, as an update of the counter was lost.
Stopped ==
    /\ \/ main = "exit"
       \/ main \in {"client", "waiting"} /\ Slots = Threads /\ missed \ {"late"} # {}
    /\ UNCHANGED vars

Next ==
    \/ Main \/ OnReady \/ OnMessage
    \/ \E t \in Threads : Step(t) \/ SoftRestartBot(t) \/ ShutdownBot(t)
    \/ Stopped

Spec == Init /\ [][Next]_vars

\* main and every thread run; what a command waits for ends.  Neither messages nor the
\* commands that stop the bot have to come.
FairSpec ==
    /\ Spec
    /\ WF_vars((main = "serving" => ~open) /\ Main)
    /\ \A t \in Threads : WF_vars(Step(t))

-----------------------------------------------------------------------------
(* Properties.                                                               *)

Places == {"gone", "spawned", "test", "work", "ending"}
Fates == {"no", "replaced", "late", "left"}

\* Every variable has its type.
TypeOK ==
    /\ main \in {"top", "serving", "client", "waiting", "reset", "exit"}
    /\ Shutdown \in BOOLEAN /\ Quitting \in BOOLEAN
    /\ count \in 0 .. Modulus - 1 /\ missed \subseteq Misses
    /\ open \in BOOLEAN /\ pool \in BOOLEAN /\ ready \in 0 .. MaxReady
    /\ th \in [Threads -> [kind : Everything, at : Places, stale : Fates]]

\* Over any number of restarts, and whether serving ended by a command, an error or a failed
\* start, only three kinds of threads can be at work without the client, the pool or the Lottery
\* they were given: the loop of a Lottery that a second READY replaced, one that had not counted
\* itself when main looked, and, once an increment was lost, any.  A lost decrement does no harm.
UsesLiveObjects ==
    \A t \in At({"work"}) :
        \/ th[t].stale \in {"no", "late"}
        \/ th[t].stale = "replaced" /\ th[t].kind = "lottery" /\ ready > 1
        \/ "in" \in missed

\* "Ensure all threads are exited": main never starts over while a thread of the client
\* before is left.  (It does.)
NoThreadSurvives ==
    [][main = "reset" /\ main' = "top" => At(Places \ {"gone"}) = {}]_vars

\* What is true of it: as long as no increment was lost, the threads that are left when main
\* starts over are those that had not counted themselves when it looked for the last time.
OnlyLateOnesSurvive ==
    [][main = "reset" /\ main' = "top"
       => \A t \in At(Places \ {"gone"}) : th[t].stale = "late" \/ "in" \in missed]_vars

\* !shutdown ends the process, although messages still come in until the connection closes,
\* unless an update of the counter is lost or a thread is late.
ShutdownEnds == Quitting ~> main = "exit" \/ missed # {}

\* Whatever stops the serving, main gets to its next start, with the flag down: no thread
\* keeps it waiting for ever, and the flag is not left up by a command that came at the end;
\* unless an update of the counter is lost or a thread is late.
Restarts == Shutdown ~> (main = "top" /\ ~Shutdown) \/ missed # {}

=============================================================================
