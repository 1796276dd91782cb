------------------------------- MODULE Faucet -------------------------------
(***************************************************************************)
(* The faucet (src/src/Faucet.cpp) and the user list it keeps its records   *)
(* in (src/src/Discord.cpp).                                                *)
(*                                                                         *)
(* !take pays an old enough Discord account once per timeout.  When a user  *)
(* may take again is a field of his record in the list of one of the        *)
(* servers the bot is on: the first list that has him, in the order of the  *)
(* server ids.  Every command runs in its own thread, no mutex protects the *)
(* list, and whoever changes it writes all of it to one file.  The list is  *)
(* read again, and continued with new members, whenever Discord says READY. *)
(***************************************************************************)
EXTENDS Integers, FiniteSets, FiniteSetsExt

CONSTANTS
    Users,        \* Discord ids: a later account has a greater one
    Young,        \* those whose account is not seven days old
    Threads,      \* bound: commands at one time
    Socket,       \* the thread that Discord's events are handled in
    NServers,     \* server ids are 1 .. NServers
    Members,      \* bound: per server, the users Discord may name as its members
    Timeout,      \* GlobalConfig.Faucet.timeout
    MaxTime,      \* bound: the clock stops here
    MaxCommands,  \* bound: commands given
    MaxReady,     \* bound: READY events, the first one and those after a restart included
    AtOnce,       \* who has !takes running at one time: "one", "users" or "all"
    Faults        \* what may happen

FaultKinds == {"rpc",      \* a wallet refuses a request before the transfer is made
               "note",     \* the transfer is made, its note is not
               "unknown",  \* Discord does not answer when it is asked about a user
               "look",     \* other commands look a user up
               "ready",    \* Discord says READY again while the bot is up
               "restart",  \* the bot is shut down and started again
               "crash",    \* the bot dies, and is started again
               "toggle"}   \* an admin disables or enables the faucet

Servers == 1 .. NServers
Savers == Threads \cup {Socket}

ASSUME ThreadsAssumption == IsFiniteSet(Threads) /\ Socket \notin Threads
ASSUME UsersAssumption == Users \subseteq Nat \ {0} /\ Young \subseteq Users
ASSUME ServersAssumption == NServers \in Nat \ {0} /\ Members \in [Servers -> SUBSET Users]
ASSUME TimeAssumption == Timeout \in Nat \ {0} /\ MaxTime \in Nat
ASSUME BoundsAssumption == MaxCommands \in Nat /\ MaxReady \in Nat
ASSUME FaultAssumption == AtOnce \in {"one", "users", "all"} /\ Faults \subseteq FaultKinds

VARIABLES
    now,       \* the clock
    enabled,   \* Faucet::enabled
    up,        \* is the bot running
    UserList,  \* a list per server, with a record or NoRecord per user
    Unknown,   \* the record UknownUser
    file,      \* DISCORDDATA.json: the list in it, whether it can be read, and whether
               \* the last that opened it was the only one to write it
    buffer,    \* per thread that saves: the list it has serialised
    th,        \* the commands that are running, and the READY that is handled
    commands,  \* commands given so far
    readies,   \* READY events so far
    granted,   \* history: per user, the time of the last command that paid him, or Never
    payments,  \* history: per user and server, what he was paid by a record of that list
    lost,      \* history: the users a payment or a record of whom was lost
    moved      \* history: the users who got a record in a list before their first, or
               \* were served with the record UknownUser

listVars == <<UserList, Unknown>>
fileVars == <<file, buffer>>
history == <<granted, payments, lost, moved>>
counts == <<commands, readies>>
vars == <<now, enabled, up, listVars, fileVars, th, counts, history>>

-----------------------------------------------------------------------------
(* Records and lists.                                                        *)

NoRecord == [next |-> -1, sent |-> 0]

\* Variant with a mistake: a field is forgotten.
RecordOfTime == [next |-> 0]

NewRecord == [next |-> 0, sent |-> 0]
Never == -Timeout - 1

NoLists == [s \in {} |-> NoRecord]

RecordIn(list, s, u) == IF s \in DOMAIN list THEN list[s][u] ELSE NoRecord
Known(list, u) == {s \in DOMAIN list : list[s][u] # NoRecord}

\* findUser: the first list that has the user.
FirstList(u) == Min(Known(UserList, u))

\* Where UserList.begin() leads.
FirstServer == Min(DOMAIN UserList)

Written(u, s, r) == [UserList EXCEPT ![s][u] = r]

\* refreshUserList, for one server: members are asked for from the last user of its list on.
Refreshed(list, s, names) ==
    [i \in DOMAIN list \cup {s} |->
       IF i # s THEN list[i]
       ELSE [u \in Users |->
               IF u \in names /\ \A v \in Users : RecordIn(list, s, v) # NoRecord => v < u
               THEN NewRecord ELSE RecordIn(list, s, u)]]

\* The users whom a new list has before the first place an old one has them.
Ahead(old, new) ==
    {u \in Users : /\ Known(old, u) # {}
                   /\ \E s \in Known(new, u) : \A i \in Known(old, u) : s < i}

\* The users about whom a list says something else than the one in memory.
Differ(list) ==
    {u \in Users : \E s \in Servers : RecordIn(list, s, u) # RecordIn(UserList, s, u)}

-----------------------------------------------------------------------------
(* Threads.                                                                  *)

\* The record a command uses: that of a list, UknownUser, or one that was freed.
NoServer == 0
Freed == -1

\* current is 0 until the clock is read.
Sleeping == [at |-> "idle", cmd |-> "none", who |-> 0, current |-> 0, server |-> NoServer]
Starting(cmd, u) ==
    [at |-> "find", cmd |-> cmd, who |-> u, current |-> 0, server |-> NoServer]

Go(t, at) == th' = [th EXCEPT ![t].at = at]
Ends(t) == th' = [th EXCEPT ![t] = Sleeping]

Running == {t \in Threads : th[t].at # "idle"}
Writing == {t \in Savers : th[t].at \in {"serialise", "flush"}}
Holders == {t \in Threads : th[t].cmd = "take" /\ th[t].server \in Servers}
Unrecorded == {t \in Threads : th[t].at = "note"}
Of(S) == {th[t].who : t \in S}

Init ==
    /\ now = 1 /\ enabled = TRUE /\ up = FALSE
    /\ UserList = NoLists /\ Unknown = NewRecord
    /\ file = [whole |-> TRUE, clean |-> TRUE, list |-> NoLists]
    /\ buffer = [t \in Savers |-> NoLists]
    /\ th = [t \in Savers |-> Sleeping]
    /\ commands = 0 /\ readies = 0
    /\ granted = [u \in Users |-> Never]
    /\ payments = [u \in Users |-> [s \in Servers |-> 0]]
    /\ lost = {} /\ moved = {}

Tick ==
    /\ now < MaxTime /\ now' = now + 1
    /\ UNCHANGED <<enabled, up, listVars, fileVars, th, counts, history>>

-----------------------------------------------------------------------------
(* Commands, one step per request to a wallet, to Discord or to the disk.     *)

MayTake(u) ==
    CASE AtOnce = "one" -> Running = {}
      [] AtOnce = "users" -> \A t \in Running : th[t].cmd = "take" => th[t].who # u
      [] AtOnce = "all" -> TRUE

Listening(t) ==
    /\ up /\ th[Socket].at = "idle" /\ th[t].at = "idle"
    /\ commands < MaxCommands /\ commands' = commands + 1 /\ UNCHANGED readies

Take(t, u) ==
    /\ Listening(t) /\ MayTake(u)
    /\ IF enabled
       THEN th' = [th EXCEPT ![t] = Starting("take", u)]
       ELSE UNCHANGED th
    /\ UNCHANGED <<now, enabled, up, listVars, fileVars, history>>

\* !status, !history, !whois: a user is looked up, and that is all.
Look(t, u) ==
    /\ Listening(t) /\ "look" \in Faults
    /\ th' = [th EXCEPT ![t] = Starting("look", u)]
    /\ UNCHANGED <<now, enabled, up, listVars, fileVars, history>>

\* findUser returns: !take reads the clock.
Found(t, s) ==
    th' = [th EXCEPT ![t] = IF th[t].cmd = "take"
                            THEN [th[t] EXCEPT !.at = "check", !.current = now, !.server = s]
                            ELSE Sleeping]

FindUser(t) ==
    /\ th[t].at = "find" /\ Known(UserList, th[t].who) # {}
    /\ Found(t, FirstList(th[t].who))
    /\ UNCHANGED <<now, enabled, up, listVars, fileVars, counts, history>>

AskDiscord(t) ==
    /\ th[t].at = "find" /\ Known(UserList, th[t].who) = {}
    /\ Go(t, "ask")
    /\ UNCHANGED <<now, enabled, up, listVars, fileVars, counts, history>>

\* Variant with a mistake: a record that is there by now is replaced.
Replaced(u, s) == NewRecord

\* What insert leaves: the record that is there, or a new one.
Inserted(u, s) == IF UserList[s][u] = NoRecord THEN NewRecord ELSE UserList[s][u]

\* Discord answers: the user is added to the first list, which is then saved.
AddUser(t) ==
    /\ th[t].at = "ask"
    /\ UserList' = Written(th[t].who, FirstServer, Inserted(th[t].who, FirstServer))
    /\ moved' = moved \cup Ahead(UserList, UserList')
    /\ th' = [th EXCEPT ![t].at = "open", ![t].server = FirstServer]
    /\ UNCHANGED <<now, enabled, up, Unknown, fileVars, counts, granted, payments, lost>>

DiscordFails(t) ==
    /\ th[t].at = "ask" /\ "unknown" \in Faults
    /\ Found(t, NoServer)
    /\ moved' = moved \cup (IF th[t].cmd = "take" THEN {th[t].who} ELSE {})
    /\ UNCHANGED <<now, enabled, up, listVars, fileVars, counts, granted, payments, lost>>

RecordAt(u, s) == IF s = NoServer THEN Unknown ELSE UserList[s][u]

\* Variant with a mistake: the age is not looked at.
AnyAge(u, s) == TRUE

OldEnough(u, s) == s = NoServer \/ u \notin Young

\* Variant with a mistake: the moment the timeout ends counts as over.
TimeoutReached(t) == th[t].current >= RecordAt(th[t].who, th[t].server).next

TimeoutOver(t) == th[t].current > RecordAt(th[t].who, th[t].server).next

Granted(t) == OldEnough(th[t].who, th[t].server) /\ TimeoutOver(t)

\* What a freed record says is anybody's guess.
CheckPasses(t) ==
    /\ th[t].at = "check"
    /\ th[t].server # Freed => Granted(t)
    /\ Go(t, "pay")
    /\ UNCHANGED <<now, enabled, up, listVars, fileVars, counts, history>>

\* Too young, too soon, the faucet has nothing, or a request to a wallet or Discord throws.
Refused(t) ==
    /\ \/ th[t].at = "check" /\ (th[t].server # Freed => ~Granted(t))
       \/ th[t].at \in {"find", "check", "pay"} /\ "rpc" \in Faults
       \/ th[t].at = "ask" /\ "unknown" \in Faults
    /\ Ends(t)
    /\ UNCHANGED <<now, enabled, up, listVars, fileVars, counts, history>>

\* transferMoneyToAddress up to its transfer.
Pay(t) ==
    /\ th[t].at = "pay"
    /\ Go(t, "note")
    /\ granted' = [granted EXCEPT ![th[t].who] = th[t].current]
    /\ payments' = IF th[t].server \in Servers
                   THEN [payments EXCEPT ![th[t].who][th[t].server] = @ + 1] ELSE payments
    /\ UNCHANGED <<now, enabled, up, listVars, fileVars, counts, lost, moved>>

NoteThrows(t) ==
    /\ th[t].at = "note" /\ "note" \in Faults
    /\ Ends(t)
    /\ lost' = lost \cup {th[t].who}
    /\ UNCHANGED <<now, enabled, up, listVars, fileVars, counts, granted, payments, moved>>

\* Variant with a mistake: the list is not saved after a payment.
Unsaved(t) == Ends(t)

Saved(t) == Go(t, "open")

\* The record the command holds is written, if it is still one.
Record(t) ==
    /\ th[t].at = "note"
    /\ IF th[t].server = Freed THEN UNCHANGED listVars
       ELSE LET old == RecordAt(th[t].who, th[t].server)
                new == [next |-> th[t].current + Timeout, sent |-> old.sent + 1]
            IN  IF th[t].server = NoServer THEN Unknown' = new /\ UNCHANGED UserList
                ELSE UserList' = Written(th[t].who, th[t].server, new) /\ UNCHANGED Unknown
    /\ Saved(t)
    /\ UNCHANGED <<now, enabled, up, fileVars, counts, history>>

-----------------------------------------------------------------------------
(* saveUserList: the file is emptied, the list goes to the stream's buffer,   *)
(* and closing the stream writes what the file does not have yet.             *)

OpenFile(t) ==
    /\ th[t].at = "open"
    /\ file' = [whole |-> FALSE, clean |-> Writing = {}, list |-> NoLists]
    /\ Go(t, "serialise")
    /\ UNCHANGED <<now, enabled, up, listVars, buffer, counts, history>>

Serialise(t) ==
    /\ th[t].at = "serialise"
    /\ buffer' = [buffer EXCEPT ![t] = UserList]
    /\ Go(t, "flush")
    /\ UNCHANGED <<now, enabled, up, listVars, file, counts, history>>

\* Some records of one list, the others of another.
Mixed(list, other, us) ==
    [s \in DOMAIN list |-> [u \in Users |-> IF u \in us /\ s \in DOMAIN other
                                            THEN other[s][u] ELSE list[s][u]]]

\* Writers that overlap leave the list of one, what nobody can read, or a mixture.
CloseFile(t) ==
    /\ th[t].at = "flush"
    /\ \/ file' = [file EXCEPT !.whole = TRUE, !.list = buffer[t]]
       \/ ~file.clean /\ file' = [file EXCEPT !.whole = FALSE, !.list = NoLists]
       \/ /\ ~file.clean
          /\ \E us \in SUBSET Users :
               file' = [file EXCEPT !.whole = TRUE, !.list = Mixed(buffer[t], file.list, us)]
    /\ buffer' = [buffer EXCEPT ![t] = NoLists]
    /\ IF t = Socket THEN Go(t, "refresh")
       ELSE IF th[t].current = 0 THEN Found(t, th[t].server) ELSE Ends(t)
    /\ UNCHANGED <<now, enabled, up, listVars, counts, history>>

Save(t) == OpenFile(t) \/ Serialise(t) \/ CloseFile(t)

Command(t) ==
    \/ FindUser(t) \/ AskDiscord(t) \/ AddUser(t) \/ DiscordFails(t)
    \/ CheckPasses(t) \/ Refused(t) \/ Pay(t) \/ NoteThrows(t) \/ Record(t)

-----------------------------------------------------------------------------
(* READY, admins, stops.                                                     *)

\* onReady: the list is what the file holds, and the members of the servers the bot is on
\* are added, server after server, each time followed by a save.  Records that a command
\* holds are freed.
OnReady(s, names) ==
    /\ th[Socket].at = "idle" /\ file.whole
    /\ up => "ready" \in Faults
    /\ readies < MaxReady /\ readies' = readies + 1
    /\ up' = TRUE /\ enabled' = TRUE
    /\ UserList' = Refreshed(file.list, s, names)
    /\ moved' = moved \cup Ahead(file.list, UserList')
    /\ lost' = lost \cup (IF up THEN Differ(file.list) \cup Of(Holders) ELSE {})
    /\ th' = [t \in Savers |-> IF t = Socket THEN [Sleeping EXCEPT !.at = "open", !.server = s]
                               ELSE IF t \in Holders THEN [th[t] EXCEPT !.server = Freed]
                               ELSE th[t]]
    /\ UNCHANGED <<now, Unknown, fileVars, commands, granted, payments>>

Refresh(s, names) ==
    /\ th[Socket].at = "refresh" /\ th[Socket].server < s
    /\ UserList' = Refreshed(UserList, s, names)
    /\ moved' = moved \cup Ahead(UserList, UserList')
    /\ th' = [th EXCEPT ![Socket].at = "open", ![Socket].server = s]
    /\ UNCHANGED <<now, enabled, up, Unknown, fileVars, counts, granted, payments, lost>>

ReadyEnds ==
    /\ th[Socket].at = "refresh"
    /\ Ends(Socket)
    /\ UNCHANGED <<now, enabled, up, listVars, fileVars, counts, history>>

ToggleFaucet ==
    /\ up /\ "toggle" \in Faults
    /\ commands < MaxCommands /\ commands' = commands + 1
    /\ enabled' = ~enabled
    /\ UNCHANGED <<now, up, listVars, fileVars, th, readies, history>>

Stops ==
    /\ up' = FALSE
    /\ th' = [t \in Savers |-> Sleeping] /\ buffer' = [t \in Savers |-> NoLists]
    /\ UserList' = NoLists
    /\ lost' = lost \cup Differ(file.list) \cup Of(Unrecorded)
    /\ UNCHANGED <<now, enabled, file, counts, granted, payments, moved>>

\* A shutdown waits for the commands that are running; UknownUser outlives it if the bot
\* is restarted within its process.
Shutdown ==
    /\ up /\ "restart" \in Faults /\ Running = {} /\ th[Socket].at = "idle"
    /\ Stops
    /\ Unknown' \in {Unknown, NewRecord}

\* A READY that cannot read the file throws what nobody catches.
Crash ==
    /\ up
    /\ \/ "crash" \in Faults
       \/ "ready" \in Faults /\ ~file.whole /\ th[Socket].at = "idle"
    /\ Stops
    /\ Unknown' = NewRecord

Next ==
    \/ Tick
    \/ \E t \in Threads : Command(t) \/ \E u \in Users : Take(t, u) \/ Look(t, u)
    \/ \E t \in Savers : Save(t)
    \/ \E s \in Servers : \E names \in SUBSET Members[s] :
          OnReady(s, names) \/ Refresh(s, names)
    \/ ReadyEnds \/ ToggleFaucet \/ Shutdown \/ Crash

Spec == Init /\ [][Next]_vars

-----------------------------------------------------------------------------
(* Properties.                                                               *)

\* Every variable has its type.
TypeOK ==
    /\ now \in Nat /\ enabled \in BOOLEAN /\ up \in BOOLEAN
    /\ commands \in Nat /\ readies \in Nat
    /\ LET Records == [next : Int, sent : Nat]
           AList(list) == /\ DOMAIN list \subseteq Servers
                          /\ list \in [DOMAIN list -> [Users -> Records]]
       IN  /\ AList(UserList) /\ AList(file.list) /\ \A t \in Savers : AList(buffer[t])
           /\ Unknown \in Records
    /\ file.whole \in BOOLEAN /\ file.clean \in BOOLEAN
    /\ \A t \in Savers :
         /\ th[t].at \in {"idle", "find", "ask", "check", "pay", "note",
                          "open", "serialise", "flush", "refresh"}
         /\ th[t].cmd \in {"none", "take", "look"}
         /\ t # Socket /\ th[t].at # "idle" => th[t].who \in Users
         /\ th[t].current \in Nat /\ th[t].server \in Servers \cup {NoServer, Freed}
    /\ granted \in [Users -> Int] /\ payments \in [Users -> [Servers -> Nat]]
    /\ lost \subseteq Users /\ moved \subseteq Users

\* "You're allowed one !take every N hours": two commands that pay the same user are
\* more than the timeout apart, over restarts, crashes and whatever others do meanwhile,
\* for every user whose record was neither lost nor hidden by one in an earlier list.
OneTakePerTimeout ==
    [][\A u \in Users \ (lost \cup moved) :
          granted'[u] # granted[u] => granted'[u] > granted[u] + Timeout]_vars

\* The age of an account is checked as long as Discord answers: a young account is paid
\* only by a command that had to make do with UknownUser, or whose record a READY freed.
OldUnlessUnknown ==
    [][\A u \in Young : granted'[u] # granted[u] =>
          \E t \in Threads :
             th[t].at = "pay" /\ th[t].who = u /\ th[t].server \notin Servers]_vars

\* When nothing runs and nobody else wrote while the last save did, the file can be read and
\* holds the list: whatever order records and files were written in, a restart then forgets
\* nothing.
FileHoldsList ==
    up /\ file.clean /\ (\A t \in Savers : th[t].at = "idle") =>
        file.whole /\ file.list = UserList

\* findTopTaker adds up a user's records in all lists: each holds the payments that were made
\* by it, even if he has several, unless one of them was lost.
SentAddsUp ==
    up => \A u \in Users \ (lost \cup Of(Unrecorded)), s \in Servers :
             RecordIn(UserList, s, u).sent = payments[u][s]

=============================================================================
