---------------------------- MODULE FaucetProofs ----------------------------
(***************************************************************************)
(* What the user list and its file guarantee to the faucet, one payment per *)
(* timeout, types, and that the records hold what was paid, for any users,  *)
(* servers, timeouts and numbers of commands and READY events.              *)
(***************************************************************************)
EXTENDS Faucet, FiniteSetTheorems, WellFoundedInduction, TLAPS

(* Nobody has two !takes running. *)
Patient == AtOnce # "all"

Records == [next : Int, sent : Nat]
IsList(list) == DOMAIN list \in SUBSET Servers /\ list \in [DOMAIN list -> [Users -> Records]]

Places == {"idle", "find", "ask", "check", "pay", "note",
           "open", "serialise", "flush", "refresh"}
Saving == {"open", "serialise", "flush"}
ThreadStates ==
    [at : Places, cmd : {"none", "take", "look"}, who : Users \cup {0},
     current : Nat, server : Servers \cup {NoServer, Freed}]

Typed ==
    /\ now \in Nat /\ enabled \in BOOLEAN /\ up \in BOOLEAN
    /\ commands \in Nat /\ readies \in Nat
    /\ IsList(UserList) /\ IsList(file.list) /\ Unknown \in Records
    /\ DOMAIN file = {"whole", "clean", "list"}
    /\ file.whole \in BOOLEAN /\ file.clean \in BOOLEAN
    /\ DOMAIN buffer = Savers /\ \A t \in Savers : IsList(buffer[t])
    /\ th \in [Savers -> ThreadStates]
    /\ granted \in [Users -> Int] /\ payments \in [Users -> [Servers -> Nat]]
    /\ lost \in SUBSET Users /\ moved \in SUBSET Users

(* What a thread is about, by the step it is at. *)
ThreadInv ==
    /\ up => DOMAIN UserList # {}
    /\ ~up => \A t \in Savers : th[t].at = "idle"
    /\ th[Socket].at \in Saving \cup {"idle", "refresh"} /\ th[Socket].cmd = "none"
    /\ \A t \in Threads :
         /\ th[t].at # "refresh"
         /\ th[t].at = "idle" => th[t].cmd = "none"
         /\ th[t].at # "idle" => th[t].who \in Users
         /\ th[t].at \in {"check", "pay", "note"} => th[t].cmd = "take"
         /\ th[t].at \in {"idle", "find", "ask"} => th[t].server = NoServer
         /\ th[t].cmd = "take" /\ th[t].server \in Servers => th[t].server \in DOMAIN UserList
         /\ th[t].at \in {"pay", "note"} /\ th[t].server \in Servers => th[t].who \notin Young

(* The file while its last writer was alone: it can be read once he is done, and lags behind
   the list only as long as somebody is about to save it. *)
Alone == up /\ file.clean
AboutToSave == \E t \in Savers : th[t].at = "open"
FileInv ==
    Alone =>
      /\ Writing = {} => file.whole
      /\ Writing # {} => ~file.whole
      /\ \A s, t \in Writing : s = t
      /\ Writing = {} /\ ~AboutToSave => file.list = UserList
      /\ \A t \in Writing : th[t].at = "flush" /\ ~AboutToSave => buffer[t] = UserList

BaseInv == Typed /\ ThreadInv /\ FileInv

-----------------------------------------------------------------------------
(* Records and lists.                                                        *)

LEMMA RecordTypes ==
  /\ NoRecord \in Records /\ NewRecord \in Records /\ NoRecord # NewRecord
  /\ NoRecord.sent = 0 /\ NewRecord.sent = 0 /\ NewRecord.next = 0
  BY DEF NoRecord, NewRecord, Records

LEMMA ServerIds ==
  /\ Servers \subseteq Nat /\ 0 \notin Servers /\ -1 \notin Servers
  /\ Socket \in Savers /\ Threads \subseteq Savers /\ Socket \notin Threads
  BY ServersAssumption, ThreadsAssumption DEF Servers, Savers

LEMMA UserIds == Users \subseteq Nat /\ 0 \notin Users /\ Young \subseteq Users
  BY UsersAssumption

LEMMA NoListsIsList == IsList(NoLists) /\ DOMAIN NoLists = {}
  BY DEF IsList, NoLists

LEMMA SleepingState == Sleeping \in ThreadStates /\ Sleeping.at = "idle" /\ Sleeping.cmd = "none"
                       /\ Sleeping.server = NoServer /\ Sleeping.current = 0
  BY DEF Sleeping, ThreadStates, Places

LEMMA Below ==
  ASSUME NEW x \in Nat, NEW y \in Nat, y < x
  PROVE  <<y, x>> \in OpToRel(<, Nat)
  <1>1. <<y, x>> \in {ss \in Nat \X Nat : ss[1] < ss[2]}
    OBVIOUS
  <1> QED BY <1>1 DEF OpToRel

LEMMA LeastId ==
  ASSUME NEW S \in SUBSET Servers, S # {}
  PROVE  \E x \in S : \A y \in S : x <= y
  <1>1. \E x \in S : \A y \in S : ~ (<<y, x>> \in OpToRel(<, Nat))
    BY ServerIds, WFMin, NatLessThanWellFounded
  <1>2. \A x, y \in Nat : y < x => <<y, x>> \in OpToRel(<, Nat)
    BY Below
  <1>3. \E x \in S : \A y \in S : ~ (y < x)
    BY <1>1, <1>2, ServerIds
  <1>4. \A x, y \in Nat : ~ (y < x) => x <= y
    OBVIOUS
  <1> QED BY <1>3, <1>4, ServerIds

LEMMA FirstId ==
  ASSUME NEW S \in SUBSET Servers, S # {}
  PROVE  Min(S) \in S /\ \A y \in S : Min(S) <= y
  <1>1. PICK x \in S : \A y \in S : x <= y
    BY LeastId
  <1> QED BY <1>1 DEF Min

LEMMA RecordInType ==
  ASSUME NEW list, IsList(list), NEW s, NEW u \in Users
  PROVE  RecordIn(list, s, u) \in Records
  BY RecordTypes DEF RecordIn, IsList

LEMMA KnownAs ==
  ASSUME NEW list, IsList(list), NEW u \in Users
  PROVE  Known(list, u) = {s \in Servers : RecordIn(list, s, u) # NoRecord}
  BY DEF Known, RecordIn, IsList

(* Writing a record changes nothing else in the list. *)
LEMMA WrittenList ==
  ASSUME IsList(UserList), NEW u \in Users, NEW s \in DOMAIN UserList, NEW r \in Records
  PROVE  /\ IsList(Written(u, s, r)) /\ DOMAIN Written(u, s, r) = DOMAIN UserList
         /\ RecordIn(Written(u, s, r), s, u) = r
         /\ \A v \in Users, i \in Servers :
              v # u \/ i # s => RecordIn(Written(u, s, r), i, v) = RecordIn(UserList, i, v)
  BY DEF Written, IsList, RecordIn

(* A list that has grown: new records where there was none, nothing else. *)
Grown(old, new) ==
    \A s \in Servers, u \in Users :
        \/ RecordIn(new, s, u) = RecordIn(old, s, u)
        \/ RecordIn(old, s, u) = NoRecord /\ RecordIn(new, s, u) = NewRecord

LEMMA RefreshedList ==
  ASSUME NEW list, IsList(list), NEW s \in Servers, NEW names
  PROVE  /\ IsList(Refreshed(list, s, names)) /\ s \in DOMAIN Refreshed(list, s, names)
         /\ DOMAIN list \subseteq DOMAIN Refreshed(list, s, names)
         /\ Grown(list, Refreshed(list, s, names))
  <1> DEFINE new == Refreshed(list, s, names)
  <1>1. DOMAIN new = DOMAIN list \cup {s}
    BY DEF Refreshed
  <1>2. \A i \in DOMAIN list : i # s => new[i] = list[i]
    BY DEF Refreshed
  <1>3. \A u \in Users : \/ new[s][u] = RecordIn(list, s, u)
                         \/ new[s][u] = NewRecord /\ RecordIn(list, s, u) = NoRecord
    <2> SUFFICES ASSUME NEW u \in Users
                 PROVE  \/ new[s][u] = RecordIn(list, s, u)
                        \/ new[s][u] = NewRecord /\ RecordIn(list, s, u) = NoRecord
      OBVIOUS
    <2>1. new[s][u] = IF u \in names /\ \A v \in Users : RecordIn(list, s, v) # NoRecord => v < u
                      THEN NewRecord ELSE RecordIn(list, s, u)
      BY DEF Refreshed
    <2>2. ~ (u < u)
      BY UserIds
    <2> QED BY <2>1, <2>2
  <1>4. new[s] \in [Users -> Records]
    <2>1. \A u \in Users : new[s][u] \in Records
      BY <1>3, RecordTypes, RecordInType
    <2>2. new[s] = [u \in Users |-> new[s][u]]
      BY DEF Refreshed
    <2> HIDE DEF new
    <2> QED BY <2>1, <2>2
  <1>5. new = [i \in DOMAIN new |-> new[i]]
    BY DEF Refreshed
  <1>6. IsList(new)
    <2> HIDE DEF new
    <2>1. \A i \in DOMAIN new : new[i] \in [Users -> Records]
      BY <1>1, <1>2, <1>4 DEF IsList
    <2> QED BY <1>1, <1>5, <2>1 DEF IsList
  <1>7. Grown(list, new)
    <2> HIDE DEF new
    <2> QED BY <1>1, <1>2, <1>3 DEF Grown, RecordIn
  <1> QED BY <1>1, <1>6, <1>7

LEMMA AddedList ==
  ASSUME IsList(UserList), NEW u \in Users, NEW s \in DOMAIN UserList
  PROVE  /\ IsList(Written(u, s, Inserted(u, s)))
         /\ DOMAIN Written(u, s, Inserted(u, s)) = DOMAIN UserList
         /\ Grown(UserList, Written(u, s, Inserted(u, s)))
  <1>1. Inserted(u, s) \in Records
    BY RecordTypes DEF Inserted, IsList
  <1>2. \/ Inserted(u, s) = RecordIn(UserList, s, u)
        \/ RecordIn(UserList, s, u) = NoRecord /\ Inserted(u, s) = NewRecord
    BY DEF Inserted, RecordIn
  <1> QED BY <1>1, <1>2, WrittenList DEF Grown

LEMMA MixedList ==
  ASSUME NEW list, IsList(list), NEW other, IsList(other), NEW us
  PROVE  IsList(Mixed(list, other, us))
  <1>1. \A s \in DOMAIN list, u \in Users :
          (IF u \in us /\ s \in DOMAIN other THEN other[s][u] ELSE list[s][u]) \in Records
    BY DEF IsList
  <1> QED BY <1>1 DEF Mixed, IsList

LEMMA FirstListKnown ==
  ASSUME IsList(UserList), NEW u \in Users, Known(UserList, u) # {}
  PROVE  /\ FirstList(u) \in Servers /\ FirstList(u) \in DOMAIN UserList
         /\ RecordIn(UserList, FirstList(u), u) # NoRecord
         /\ \A i \in Servers : RecordIn(UserList, i, u) # NoRecord => FirstList(u) <= i
  <1>1. Known(UserList, u) \in SUBSET Servers
    BY DEF Known, IsList
  <1>2. FirstList(u) \in Known(UserList, u) /\ \A i \in Known(UserList, u) : FirstList(u) <= i
    BY <1>1, FirstId DEF FirstList
  <1> QED BY <1>1, <1>2, KnownAs DEF Known

LEMMA FirstServerThere ==
  ASSUME IsList(UserList), DOMAIN UserList # {}
  PROVE  FirstServer \in DOMAIN UserList /\ FirstServer \in Servers
  BY FirstId DEF FirstServer, IsList

-----------------------------------------------------------------------------
(* What the steps of one thread do to th.                                    *)

LEMMA GoState ==
  ASSUME Typed, NEW t \in Savers, NEW at \in Places, Go(t, at)
  PROVE  /\ th' \in [Savers -> ThreadStates] /\ \A s \in Savers \ {t} : th'[s] = th[s]
         /\ th'[t].at = at /\ th'[t].cmd = th[t].cmd /\ th'[t].who = th[t].who
         /\ th'[t].current = th[t].current /\ th'[t].server = th[t].server
  BY DEF Typed, Go, ThreadStates

LEMMA EndsState ==
  ASSUME Typed, NEW t \in Savers, Ends(t)
  PROVE  /\ th' \in [Savers -> ThreadStates] /\ \A s \in Savers \ {t} : th'[s] = th[s]
         /\ th'[t] = Sleeping
  BY SleepingState DEF Typed, Ends

LEMMA StartState ==
  ASSUME Typed, NEW t \in Threads, NEW u \in Users, NEW cmd \in {"take", "look"},
         th' = [th EXCEPT ![t] = Starting(cmd, u)]
  PROVE  /\ th' \in [Savers -> ThreadStates] /\ \A s \in Savers \ {t} : th'[s] = th[s]
         /\ th'[t].at = "find" /\ th'[t].cmd = cmd /\ th'[t].who = u
         /\ th'[t].server = NoServer
  BY ServerIds DEF Typed, Starting, ThreadStates, Places

LEMMA FoundState ==
  ASSUME Typed, NEW t \in Threads, NEW s \in Servers \cup {NoServer, Freed}, Found(t, s)
  PROVE  /\ th' \in [Savers -> ThreadStates] /\ \A i \in Savers \ {t} : th'[i] = th[i]
         /\ \/ /\ th[t].cmd = "take"
               /\ th'[t].at = "check" /\ th'[t].cmd = "take" /\ th'[t].who = th[t].who
               /\ th'[t].current = now /\ th'[t].server = s
            \/ th[t].cmd # "take" /\ th'[t] = Sleeping
  <1>1. CASE th[t].cmd = "take"
    <2>1. th' = [th EXCEPT ![t] = [th[t] EXCEPT !.at = "check", !.current = now, !.server = s]]
      BY <1>1 DEF Found
    <2> QED BY <1>1, <2>1, ServerIds DEF Typed, ThreadStates, Places
  <1>2. CASE th[t].cmd # "take"
    <2>1. th' = [th EXCEPT ![t] = Sleeping]
      BY <1>2 DEF Found
    <2> QED BY <1>2, <2>1, ServerIds, SleepingState DEF Typed
  <1> QED BY <1>1, <1>2

LEMMA OpenState ==
  ASSUME Typed, NEW t \in Savers, NEW s \in Servers,
         th' = [th EXCEPT ![t].at = "open", ![t].server = s]
  PROVE  /\ th' \in [Savers -> ThreadStates] /\ \A i \in Savers \ {t} : th'[i] = th[i]
         /\ th'[t].at = "open" /\ th'[t].cmd = th[t].cmd /\ th'[t].who = th[t].who
         /\ th'[t].current = th[t].current /\ th'[t].server = s
  BY DEF Typed, ThreadStates, Places

-----------------------------------------------------------------------------
(* Types, threads and the file.                                              *)

(* A step of a command that leaves list and file alone, and is not about saving. *)
LEMMA QuietStep ==
  ASSUME BaseInv, NEW t \in Threads, UNCHANGED <<UserList, file, buffer, up>>,
         th' \in [Savers -> ThreadStates], \A s \in Savers \ {t} : th'[s] = th[s],
         th[t].at \notin Saving, th'[t].at \notin Saving
  PROVE  FileInv'
  <1>1. Writing' = Writing
    BY ServerIds DEF Writing, Saving
  <1>2. AboutToSave' = AboutToSave
    BY ServerIds DEF AboutToSave, Saving
  <1>3. \A s \in Writing : s # t
    BY DEF Writing, Saving
  <1>4. \A s \in Writing : th'[s] = th[s]
    BY <1>3 DEF Writing
  <1> QED BY <1>1, <1>2, <1>4 DEF BaseInv, FileInv, Alone

(* The thread that moved is as ThreadInv says, and the others are where they were. *)
LEMMA OtherThreads ==
  ASSUME BaseInv, NEW t \in Threads, UNCHANGED up, DOMAIN UserList' = DOMAIN UserList, up,
         \A s \in Savers \ {t} : th'[s] = th[s],
         th'[t].at # "refresh",
         th'[t].at = "idle" => th'[t].cmd = "none",
         th'[t].at # "idle" => th'[t].who \in Users,
         th'[t].at \in {"check", "pay", "note"} => th'[t].cmd = "take",
         th'[t].at \in {"idle", "find", "ask"} => th'[t].server = NoServer,
         th'[t].cmd = "take" /\ th'[t].server \in Servers => th'[t].server \in DOMAIN UserList,
         th'[t].at \in {"pay", "note"} /\ th'[t].server \in Servers => th'[t].who \notin Young
  PROVE  ThreadInv'
  <1>1. th'[Socket] = th[Socket]
    BY ServerIds
  <1>2. \A s \in Threads : s # t => th'[s] = th[s]
    BY ServerIds
  <1> QED BY <1>1, <1>2 DEF BaseInv, ThreadInv

LEMMA RunsUp ==
  ASSUME BaseInv, NEW t \in Savers, th[t].at # "idle"
  PROVE  up
  BY DEF BaseInv, ThreadInv

LEMMA CommandBase ==
  ASSUME BaseInv, NEW t \in Threads,
         FindUser(t) \/ AskDiscord(t) \/ DiscordFails(t) \/ CheckPasses(t) \/ Refused(t)
           \/ Pay(t) \/ NoteThrows(t)
  PROVE  BaseInv'
  <1>1. /\ UNCHANGED <<now, enabled, up, UserList, Unknown, file, buffer, commands, readies>>
        /\ th[t].at \in {"find", "ask", "check", "pay", "note"}
    BY DEF FindUser, AskDiscord, DiscordFails, CheckPasses, Refused, Pay, NoteThrows, listVars,
           fileVars, counts
  <1>2. up /\ th[t].who \in Users /\ t \in Savers
    BY <1>1, RunsUp, ServerIds DEF BaseInv, ThreadInv
  <1>3. /\ granted' \in [Users -> Int] /\ payments' \in [Users -> [Servers -> Nat]]
        /\ lost' \in SUBSET Users /\ moved' \in SUBSET Users
    <2>1. CASE Pay(t)
      <3>1. granted' \in [Users -> Int] /\ UNCHANGED <<lost, moved>>
        BY <2>1, <1>2 DEF Pay, BaseInv, Typed, ThreadStates
      <3>2. payments' \in [Users -> [Servers -> Nat]]
        BY <2>1, <1>2 DEF Pay, BaseInv, Typed, ThreadStates
      <3> QED BY <3>1, <3>2 DEF BaseInv, Typed
    <2>2. CASE NoteThrows(t) \/ DiscordFails(t)
      <3>1. UNCHANGED <<granted, payments>> /\ lost' \in SUBSET Users /\ moved' \in SUBSET Users
        BY <2>2, <1>2 DEF NoteThrows, DiscordFails, BaseInv, Typed
      <3> QED BY <3>1 DEF BaseInv, Typed
    <2>3. CASE UNCHANGED <<granted, payments, lost, moved>>
      BY <2>3 DEF BaseInv, Typed
    <2> QED BY <2>1, <2>2, <2>3 DEF FindUser, AskDiscord, CheckPasses, Refused, history
  <1>4. /\ th' \in [Savers -> ThreadStates] /\ \A s \in Savers \ {t} : th'[s] = th[s]
        /\ th'[t].at \in {"idle", "ask", "check", "pay", "note"}
        /\ ThreadInv'
    <2>1. CASE FindUser(t) \/ DiscordFails(t)
      <3>1. PICK i \in Servers \cup {NoServer} :
              Found(t, i) /\ (i \in Servers => i \in DOMAIN UserList)
        BY <2>1, <1>2, FirstListKnown, ServerIds
           DEF FindUser, DiscordFails, BaseInv, Typed, NoServer
      <3>2. /\ th' \in [Savers -> ThreadStates] /\ \A s \in Savers \ {t} : th'[s] = th[s]
            /\ \/ /\ th'[t].at = "check" /\ th'[t].cmd = "take" /\ th'[t].who = th[t].who
                  /\ th'[t].server = i
               \/ th'[t] = Sleeping
        BY <3>1, FoundState DEF BaseInv
      <3>3. CASE th'[t] = Sleeping
        BY <1>1, <1>2, <3>2, <3>3, SleepingState, OtherThreads
      <3>4. CASE /\ th'[t].at = "check" /\ th'[t].cmd = "take" /\ th'[t].who = th[t].who
                 /\ th'[t].server = i
        BY <1>1, <1>2, <3>1, <3>2, <3>4, OtherThreads
      <3> QED BY <3>2, <3>3, <3>4, SleepingState
    <2>2. CASE AskDiscord(t) \/ CheckPasses(t) \/ Pay(t)
      <3>1. PICK at \in {"ask", "pay", "note"} :
              /\ Go(t, at) /\ (at = "ask" => th[t].at = "find")
              /\ (at = "pay" => th[t].at = "check") /\ (at = "note" => th[t].at = "pay")
              /\ (at = "pay" /\ th[t].server \in Servers => th[t].who \notin Young)
        <4>1. CASE CheckPasses(t)
          BY <4>1, ServerIds DEF CheckPasses, Granted, OldEnough, NoServer, Freed
        <4> QED BY <2>2, <4>1 DEF AskDiscord, Pay
      <3>2. /\ th' \in [Savers -> ThreadStates] /\ \A s \in Savers \ {t} : th'[s] = th[s]
            /\ th'[t].at = at /\ th'[t].cmd = th[t].cmd /\ th'[t].who = th[t].who
            /\ th'[t].server = th[t].server
        BY <1>2, <3>1, GoState DEF Places, BaseInv
      <3>3. at = "ask" => th[t].server = NoServer
        BY <3>1 DEF BaseInv, ThreadInv
      <3>4. at \in {"pay", "note"} => th[t].cmd = "take"
        BY <3>1 DEF BaseInv, ThreadInv
      <3>5. at \in {"pay", "note"} /\ th[t].server \in Servers => th[t].who \notin Young
        BY <3>1 DEF BaseInv, ThreadInv
      <3>6. th[t].cmd = "take" /\ th[t].server \in Servers => th[t].server \in DOMAIN UserList
        BY DEF BaseInv, ThreadInv
      <3> QED BY <1>1, <1>2, <3>2, <3>3, <3>4, <3>5, <3>6, OtherThreads
    <2>3. CASE Refused(t) \/ NoteThrows(t)
      <3>1. /\ th' \in [Savers -> ThreadStates] /\ \A s \in Savers \ {t} : th'[s] = th[s]
            /\ th'[t] = Sleeping
        BY <2>3, <1>2, EndsState DEF Refused, NoteThrows, BaseInv
      <3> QED BY <1>1, <1>2, <3>1, SleepingState, OtherThreads, ServerIds DEF NoServer
    <2> QED BY <2>1, <2>2, <2>3
  <1>5. FileInv'
    BY <1>1, <1>4, QuietStep DEF Saving
  <1>6. Typed'
    BY <1>1, <1>3, <1>4 DEF BaseInv, Typed
  <1> QED BY <1>4, <1>5, <1>6 DEF BaseInv

LEMMA TakeBase ==
  ASSUME BaseInv, NEW t \in Threads, NEW u \in Users, Take(t, u) \/ Look(t, u)
  PROVE  BaseInv'
  <1>1. /\ UNCHANGED <<now, enabled, up, UserList, Unknown, file, buffer, history, readies>>
        /\ up /\ th[t].at = "idle" /\ t \in Savers /\ commands' = commands + 1
    BY ServerIds DEF Take, Look, Listening, listVars, fileVars
  <1>2. /\ th' \in [Savers -> ThreadStates] /\ \A s \in Savers \ {t} : th'[s] = th[s]
        /\ \/ th'[t].at = "find" /\ th'[t].who = u /\ th'[t].server = NoServer
           \/ UNCHANGED th
    <2>1. CASE UNCHANGED th
      BY <2>1 DEF BaseInv, Typed
    <2>2. ASSUME NEW cmd \in {"take", "look"}, th' = [th EXCEPT ![t] = Starting(cmd, u)]
          PROVE  /\ th' \in [Savers -> ThreadStates] /\ \A s \in Savers \ {t} : th'[s] = th[s]
                 /\ th'[t].at = "find" /\ th'[t].who = u /\ th'[t].server = NoServer
      BY <2>2, StartState DEF BaseInv
    <2> QED BY <2>1, <2>2 DEF Take, Look
  <1>3. FileInv'
    <2>1. th'[t].at \notin Saving
      BY <1>1, <1>2 DEF Saving
    <2> QED BY <1>1, <1>2, <2>1, QuietStep DEF Saving
  <1>4. ThreadInv'
    <2>1. CASE UNCHANGED th
      BY <1>1, <2>1 DEF BaseInv, ThreadInv
    <2>2. CASE th'[t].at = "find" /\ th'[t].who = u /\ th'[t].server = NoServer
      BY <1>1, <1>2, <2>2, ServerIds, OtherThreads DEF NoServer
    <2> QED BY <1>2, <2>1, <2>2
  <1>5. Typed'
    BY <1>1, <1>2 DEF BaseInv, Typed, history
  <1> QED BY <1>3, <1>4, <1>5 DEF BaseInv

(* A step that changes the list, after which its thread is about to save it. *)
LEMMA AboutToSaveStep ==
  ASSUME BaseInv, NEW t \in Savers, UNCHANGED <<file, buffer, up>>,
         \A s \in Savers \ {t} : th'[s] = th[s],
         th[t].at \notin Saving, th'[t].at = "open"
  PROVE  FileInv'
  <1>1. Writing' = Writing
    BY DEF Writing, Saving
  <1>2. AboutToSave'
    BY DEF AboutToSave
  <1> QED BY <1>1, <1>2 DEF BaseInv, FileInv, Alone

LEMMA AddBase ==
  ASSUME BaseInv, NEW t \in Threads, AddUser(t)
  PROVE  BaseInv'
  <1> DEFINE u == th[t].who
  <1>1. /\ UNCHANGED <<now, enabled, up, Unknown, file, buffer, commands, readies, granted,
                       payments, lost>>
        /\ th[t].at = "ask" /\ up /\ u \in Users /\ t \in Savers
    BY RunsUp, ServerIds DEF AddUser, fileVars, counts, BaseInv, ThreadInv
  <1>2. FirstServer \in DOMAIN UserList /\ FirstServer \in Servers
    BY <1>1, FirstServerThere DEF BaseInv, Typed, ThreadInv
  <1>3. UserList' = Written(u, FirstServer, Inserted(u, FirstServer))
    BY DEF AddUser
  <1>4. IsList(UserList') /\ DOMAIN UserList' = DOMAIN UserList
    <2> HIDE DEF u
    <2> QED BY <1>1, <1>2, <1>3, AddedList DEF BaseInv, Typed
  <1>5. /\ th' \in [Savers -> ThreadStates] /\ \A i \in Savers \ {t} : th'[i] = th[i]
        /\ th'[t].at = "open" /\ th'[t].cmd = th[t].cmd /\ th'[t].who = u
        /\ th'[t].server = FirstServer
    BY <1>1, <1>2, OpenState DEF AddUser, BaseInv
  <1>6. ThreadInv'
    BY <1>1, <1>2, <1>4, <1>5, OtherThreads
  <1>7. moved' \in SUBSET Users
    BY DEF AddUser, Ahead, BaseInv, Typed
  <1>8. Typed'
    BY <1>1, <1>4, <1>5, <1>7 DEF BaseInv, Typed
  <1>9. FileInv'
    BY <1>1, <1>5, AboutToSaveStep DEF Saving
  <1> QED BY <1>6, <1>8, <1>9 DEF BaseInv

(* What Record leaves: one record of the list, or of nobody, is a later one. *)
LEMMA RecordedList ==
  ASSUME BaseInv, NEW t \in Threads, Record(t)
  PROVE  /\ IsList(UserList') /\ DOMAIN UserList' = DOMAIN UserList /\ Unknown' \in Records
         /\ \A v \in Users, i \in Servers :
              v # th[t].who \/ i # th[t].server => RecordIn(UserList', i, v) = RecordIn(UserList, i, v)
         /\ th[t].server \in Servers =>
              RecordIn(UserList', th[t].server, th[t].who) =
                [next |-> th[t].current + Timeout,
                 sent |-> RecordIn(UserList, th[t].server, th[t].who).sent + 1]
  <1> DEFINE u == th[t].who
             s == th[t].server
             new == [next |-> th[t].current + Timeout, sent |-> RecordAt(u, s).sent + 1]
  <1>1. /\ u \in Users /\ th[t].current \in Nat /\ s \in Servers \cup {NoServer, Freed}
        /\ (s \in Servers => s \in DOMAIN UserList)
    BY ServerIds DEF Record, BaseInv, Typed, ThreadInv, ThreadStates
  <1>2. IsList(UserList) /\ Unknown \in Records
    BY DEF BaseInv, Typed
  <1>3. CASE s = Freed
    <2>1. UNCHANGED <<UserList, Unknown>>
      BY <1>3 DEF Record, listVars
    <2> QED BY <1>2, <1>3, <2>1, ServerIds DEF Freed
  <1>4. CASE s = NoServer
    <2>1. UserList' = UserList /\ Unknown' = new
      BY <1>4 DEF Record, NoServer, Freed
    <2>2. new \in Records
      BY <1>1, <1>2, <1>4, TimeAssumption DEF RecordAt, Records
    <2> QED BY <1>2, <1>4, <2>1, <2>2, ServerIds DEF NoServer
  <1>5. CASE s \in Servers
    <2>1. UserList' = Written(u, s, new) /\ Unknown' = Unknown
      BY <1>5, ServerIds DEF Record, NoServer, Freed
    <2>2. RecordAt(u, s) = RecordIn(UserList, s, u) /\ RecordAt(u, s) \in Records
      BY <1>1, <1>2, <1>5, ServerIds DEF RecordAt, RecordIn, NoServer, IsList
    <2>3. new \in Records /\ new = [next |-> th[t].current + Timeout,
                                    sent |-> RecordIn(UserList, s, u).sent + 1]
      BY <1>1, <2>2, TimeAssumption DEF Records
    <2>4. s \in DOMAIN UserList
      BY <1>1, <1>5
    <2> HIDE DEF u, s, new
    <2>5. /\ IsList(UserList') /\ DOMAIN UserList' = DOMAIN UserList
          /\ RecordIn(UserList', s, u) = new
          /\ \A v \in Users, i \in Servers :
               v # u \/ i # s => RecordIn(UserList', i, v) = RecordIn(UserList, i, v)
      BY <1>1, <1>2, <2>1, <2>3, <2>4, WrittenList
    <2> QED BY <1>2, <2>1, <2>3, <2>5 DEF u, s
  <1> QED BY <1>1, <1>3, <1>4, <1>5

LEMMA RecordBase ==
  ASSUME BaseInv, NEW t \in Threads, Record(t)
  PROVE  BaseInv'
  <1>1. /\ UNCHANGED <<now, enabled, up, file, buffer, commands, readies, history>>
        /\ th[t].at = "note" /\ up /\ th[t].who \in Users /\ t \in Savers
        /\ th[t].cmd = "take"
    BY RunsUp, ServerIds DEF Record, fileVars, counts, BaseInv, ThreadInv
  <1>2. IsList(UserList') /\ DOMAIN UserList' = DOMAIN UserList /\ Unknown' \in Records
    BY RecordedList
  <1>3. /\ th' \in [Savers -> ThreadStates] /\ \A i \in Savers \ {t} : th'[i] = th[i]
        /\ th'[t].at = "open" /\ th'[t].cmd = th[t].cmd /\ th'[t].who = th[t].who
        /\ th'[t].server = th[t].server
    BY <1>1, GoState DEF Record, Saved, Places, BaseInv
  <1>4. th[t].server \in Servers => th[t].server \in DOMAIN UserList
    BY <1>1 DEF BaseInv, ThreadInv
  <1>5. ThreadInv'
    BY <1>1, <1>2, <1>3, <1>4, OtherThreads
  <1>6. Typed'
    BY <1>1, <1>2, <1>3 DEF BaseInv, Typed, history
  <1>7. FileInv'
    BY <1>1, <1>3, AboutToSaveStep DEF Saving
  <1> QED BY <1>5, <1>6, <1>7 DEF BaseInv
(* A step of a save: only the place of its thread changes. *)
LEMMA SavePlace ==
  ASSUME BaseInv, NEW t \in Savers, th[t].at \in Saving, NEW at \in Saving \cup {"refresh"},
         at = "refresh" => t = Socket, Go(t, at), UNCHANGED <<UserList, up>>
  PROVE  /\ th' \in [Savers -> ThreadStates] /\ \A i \in Savers \ {t} : th'[i] = th[i]
         /\ th'[t].at = at /\ up
         /\ ThreadInv'
  <1>1. /\ th' \in [Savers -> ThreadStates] /\ \A s \in Savers \ {t} : th'[s] = th[s]
        /\ th'[t].at = at /\ th'[t].cmd = th[t].cmd /\ th'[t].who = th[t].who
        /\ th'[t].server = th[t].server
    BY GoState DEF Places, Saving, BaseInv
  <1>2. up
    BY RunsUp DEF Saving
  <1>3. CASE t = Socket
    <2>1. \A s \in Threads : th'[s] = th[s]
      BY <1>1, <1>3, ServerIds
    <2> QED BY <1>1, <1>2, <1>3, <2>1 DEF BaseInv, ThreadInv, Saving
  <1>4. CASE t \in Threads
    <2>1. /\ th'[t].at \in Saving /\ th'[t].who \in Users
          /\ (th'[t].cmd = "take" /\ th'[t].server \in Servers => th'[t].server \in DOMAIN UserList)
      BY <1>1, <1>4, ServerIds DEF BaseInv, ThreadInv, Saving
    <2> QED BY <1>1, <1>2, <1>4, <2>1, OtherThreads DEF Saving
  <1> QED BY <1>1, <1>2, <1>3, <1>4 DEF Savers

LEMMA OpenBase ==
  ASSUME BaseInv, NEW t \in Savers, OpenFile(t)
  PROVE  BaseInv'
  <1>1. /\ UNCHANGED <<now, enabled, up, UserList, Unknown, buffer, counts, history>>
        /\ th[t].at = "open" /\ Go(t, "serialise")
    BY DEF OpenFile, listVars
  <1>2. /\ th' \in [Savers -> ThreadStates] /\ \A i \in Savers \ {t} : th'[i] = th[i]
        /\ th'[t].at = "serialise" /\ up /\ ThreadInv'
    BY <1>1, SavePlace DEF Saving
  <1>3. /\ DOMAIN file' = {"whole", "clean", "list"} /\ file'.whole = FALSE
        /\ file'.list = NoLists /\ (file'.clean <=> Writing = {}) /\ file'.clean \in BOOLEAN
    BY DEF OpenFile
  <1>4. Writing' = Writing \cup {t}
    BY <1>1, <1>2 DEF Writing
  <1>5. FileInv'
    <2> SUFFICES ASSUME Alone' PROVE FileInv'
      BY DEF FileInv
    <2>1. Writing' = {t}
      BY <1>3, <1>4 DEF Alone
    <2> QED BY <1>2, <1>3, <2>1 DEF FileInv
  <1>6. Typed'
    BY <1>1, <1>2, <1>3, NoListsIsList DEF BaseInv, Typed, counts, history
  <1> QED BY <1>2, <1>5, <1>6 DEF BaseInv

LEMMA SerialiseBase ==
  ASSUME BaseInv, NEW t \in Savers, Serialise(t)
  PROVE  BaseInv'
  <1>1. /\ UNCHANGED <<now, enabled, up, UserList, Unknown, file, counts, history>>
        /\ th[t].at = "serialise" /\ Go(t, "flush")
    BY DEF Serialise, listVars
  <1>2. /\ th' \in [Savers -> ThreadStates] /\ \A i \in Savers \ {t} : th'[i] = th[i]
        /\ th'[t].at = "flush" /\ up /\ ThreadInv'
    BY <1>1, SavePlace DEF Saving
  <1>3. /\ DOMAIN buffer' = Savers /\ buffer'[t] = UserList
        /\ \A s \in Savers \ {t} : buffer'[s] = buffer[s]
    BY DEF Serialise, BaseInv, Typed
  <1>4. Writing' = Writing /\ t \in Writing /\ AboutToSave' = AboutToSave
    BY <1>1, <1>2 DEF Writing, AboutToSave
  <1>5. FileInv'
    <2> SUFFICES ASSUME Alone' PROVE FileInv'
      BY DEF FileInv
    <2>1. Alone
      BY <1>1 DEF Alone
    <2>2. Writing = {t}
      BY <1>4, <2>1 DEF BaseInv, FileInv
    <2> QED BY <1>1, <1>3, <1>4, <2>1, <2>2 DEF BaseInv, FileInv
  <1>6. Typed'
    BY <1>1, <1>2, <1>3 DEF BaseInv, Typed, counts, history
  <1> QED BY <1>2, <1>5, <1>6 DEF BaseInv

LEMMA CloseBase ==
  ASSUME BaseInv, NEW t \in Savers, CloseFile(t)
  PROVE  BaseInv'
  <1>1. /\ UNCHANGED <<now, enabled, up, UserList, Unknown, counts, history>>
        /\ th[t].at = "flush" /\ up
    BY RunsUp DEF CloseFile, listVars
  <1>2. /\ DOMAIN buffer' = Savers /\ buffer'[t] = NoLists
        /\ \A s \in Savers \ {t} : buffer'[s] = buffer[s]
    BY DEF CloseFile, BaseInv, Typed
  <1>3. /\ DOMAIN file' = {"whole", "clean", "list"} /\ file'.whole \in BOOLEAN
        /\ file'.clean = file.clean /\ IsList(file'.list)
        /\ file.clean => file'.whole /\ file'.list = buffer[t]
    <2>1. IsList(buffer[t]) /\ IsList(file.list) /\ DOMAIN file = {"whole", "clean", "list"}
      BY DEF BaseInv, Typed
    <2>2. CASE file' = [file EXCEPT !.whole = TRUE, !.list = buffer[t]]
      BY <2>1, <2>2
    <2>3. CASE ~file.clean /\ file' = [file EXCEPT !.whole = FALSE, !.list = NoLists]
      BY <2>1, <2>3, NoListsIsList
    <2>4. ASSUME ~file.clean, NEW us \in SUBSET Users,
                 file' = [file EXCEPT !.whole = TRUE, !.list = Mixed(buffer[t], file.list, us)]
          PROVE  /\ DOMAIN file' = {"whole", "clean", "list"} /\ file'.whole \in BOOLEAN
                 /\ file'.clean = file.clean /\ IsList(file'.list)
      <3>1. IsList(Mixed(buffer[t], file.list, us))
        BY <2>1, MixedList
      <3> QED BY <2>1, <2>4, <3>1
    <2> QED BY <2>2, <2>3, <2>4 DEF CloseFile
  <1>4. /\ th' \in [Savers -> ThreadStates] /\ \A i \in Savers \ {t} : th'[i] = th[i]
        /\ th'[t].at \in {"idle", "check", "refresh"} /\ ThreadInv'
    <2>1. CASE t = Socket
      BY <1>1, <2>1, SavePlace DEF CloseFile, Saving
    <2>2. CASE t # Socket /\ th[t].current = 0
      <3>1. t \in Threads /\ Found(t, th[t].server)
        BY <2>2, ServerIds DEF CloseFile, Savers
      <3>2. /\ th[t].server \in Servers \cup {NoServer, Freed} /\ th[t].who \in Users
            /\ (th[t].cmd = "take" /\ th[t].server \in Servers => th[t].server \in DOMAIN UserList)
        BY <1>1, <3>1 DEF BaseInv, Typed, ThreadStates, ThreadInv
      <3>3. /\ th' \in [Savers -> ThreadStates] /\ \A i \in Savers \ {t} : th'[i] = th[i]
            /\ \/ /\ th[t].cmd = "take"
                  /\ th'[t].at = "check" /\ th'[t].cmd = "take" /\ th'[t].who = th[t].who
                  /\ th'[t].server = th[t].server
               \/ th'[t] = Sleeping
        BY <3>1, <3>2, FoundState DEF BaseInv
      <3>4. CASE th'[t] = Sleeping
        BY <1>1, <3>1, <3>3, <3>4, SleepingState, OtherThreads
      <3>5. CASE /\ th[t].cmd = "take"
                 /\ th'[t].at = "check" /\ th'[t].cmd = "take" /\ th'[t].who = th[t].who
                 /\ th'[t].server = th[t].server
        BY <1>1, <3>1, <3>2, <3>3, <3>5, OtherThreads
      <3> QED BY <3>3, <3>4, <3>5, SleepingState
    <2>3. CASE t # Socket /\ th[t].current # 0
      <3>1. t \in Threads /\ Ends(t)
        BY <2>3, ServerIds DEF CloseFile, Savers
      <3>2. /\ th' \in [Savers -> ThreadStates] /\ \A i \in Savers \ {t} : th'[i] = th[i]
            /\ th'[t] = Sleeping
        BY <3>1, EndsState DEF BaseInv
      <3> QED BY <1>1, <3>1, <3>2, SleepingState, ServerIds, OtherThreads DEF NoServer
    <2> QED BY <2>1, <2>2, <2>3
  <1>5. Writing' = Writing \ {t} /\ t \in Writing /\ AboutToSave' = AboutToSave
    BY <1>1, <1>4 DEF Writing, AboutToSave
  <1>6. FileInv'
    <2> SUFFICES ASSUME Alone' PROVE FileInv'
      BY DEF FileInv
    <2>1. Alone /\ file'.whole /\ file'.list = buffer[t]
      BY <1>1, <1>3 DEF Alone
    <2>2. Writing = {t} /\ Writing' = {}
      BY <1>5, <2>1 DEF BaseInv, FileInv
    <2>3. ~AboutToSave => buffer[t] = UserList
      BY <1>1, <1>5, <2>1 DEF BaseInv, FileInv
    <2> QED BY <1>1, <1>5, <2>1, <2>2, <2>3 DEF FileInv
  <1>7. Typed'
    BY <1>1, <1>2, <1>3, <1>4, NoListsIsList DEF BaseInv, Typed, counts, history
  <1> QED BY <1>4, <1>6, <1>7 DEF BaseInv

LEMMA OnReadyState ==
  ASSUME BaseInv, NEW s \in Servers, NEW names, OnReady(s, names)
  PROVE  /\ th' \in [Savers -> ThreadStates]
         /\ th'[Socket].at = "open" /\ th'[Socket].cmd = "none"
         /\ \A t \in Threads :
              /\ th'[t].at = th[t].at /\ th'[t].cmd = th[t].cmd /\ th'[t].who = th[t].who
              /\ th'[t].current = th[t].current
              /\ th'[t].server = IF t \in Holders THEN Freed ELSE th[t].server
  <1> DEFINE ready == [Sleeping EXCEPT !.at = "open", !.server = s]
             freed(t) == [th[t] EXCEPT !.server = Freed]
  <1>1. ready \in ThreadStates /\ ready.at = "open" /\ ready.cmd = "none"
    BY SleepingState DEF Sleeping, ThreadStates, Places
  <1>2. \A t \in Savers : /\ freed(t) \in ThreadStates
                          /\ freed(t).at = th[t].at /\ freed(t).cmd = th[t].cmd
                          /\ freed(t).who = th[t].who /\ freed(t).current = th[t].current
                          /\ freed(t).server = Freed
    BY DEF BaseInv, Typed, ThreadStates
  <1>3. th' = [t \in Savers |-> IF t = Socket THEN ready
                                ELSE IF t \in Holders THEN freed(t) ELSE th[t]]
    BY DEF OnReady
  <1>4. th \in [Savers -> ThreadStates]
    BY DEF BaseInv, Typed
  <1> HIDE DEF ready, freed
  <1>5. th' \in [Savers -> ThreadStates]
    BY <1>1, <1>2, <1>3, <1>4
  <1>6. th'[Socket] = ready
    BY <1>3, ServerIds
  <1>7. \A t \in Threads : th'[t] = IF t \in Holders THEN freed(t) ELSE th[t]
    BY <1>3, ServerIds
  <1> QED BY <1>1, <1>2, <1>5, <1>6, <1>7, ServerIds

LEMMA OnReadyBase ==
  ASSUME BaseInv, NEW s \in Servers, NEW names, OnReady(s, names)
  PROVE  BaseInv'
  <1>1. /\ UNCHANGED <<now, Unknown, file, buffer, commands, granted, payments>>
        /\ th[Socket].at = "idle" /\ file.whole /\ up' = TRUE /\ enabled' = TRUE
        /\ readies' = readies + 1 /\ UserList' = Refreshed(file.list, s, names)
    BY DEF OnReady, fileVars
  <1>2. IsList(UserList') /\ s \in DOMAIN UserList'
    BY <1>1, RefreshedList DEF BaseInv, Typed
  <1>3. moved' \in SUBSET Users
    BY DEF OnReady, Ahead, BaseInv, Typed
  <1>4. lost' \in SUBSET Users
    <2>1. Of(Holders) \subseteq Users
      <3>1. \A t \in Holders : th[t].at # "idle"
        BY DEF Holders, BaseInv, ThreadInv
      <3> QED BY <3>1 DEF Of, Holders, BaseInv, ThreadInv
    <2>2. lost \subseteq Users /\ Differ(file.list) \subseteq Users
      BY DEF Differ, BaseInv, Typed
    <2>3. lost' = lost \cup (Differ(file.list) \cup Of(Holders)) \/ lost' = lost
      BY DEF OnReady
    <2> QED BY <2>1, <2>2, <2>3
  <1>5. Typed'
    <2>1. up' \in BOOLEAN /\ enabled' \in BOOLEAN
      BY <1>1
    <2>2. readies' \in Nat
      BY <1>1 DEF BaseInv, Typed
    <2> QED BY <1>1, <1>2, <1>3, <1>4, <2>1, <2>2, OnReadyState DEF BaseInv, Typed
  <1>6. ThreadInv'
    <2>1. ASSUME NEW t \in Threads
          PROVE  /\ th'[t].at # "refresh"
                 /\ th'[t].at = "idle" => th'[t].cmd = "none"
                 /\ th'[t].at # "idle" => th'[t].who \in Users
                 /\ th'[t].at \in {"check", "pay", "note"} => th'[t].cmd = "take"
                 /\ th'[t].at \in {"idle", "find", "ask"} => th'[t].server = NoServer
                 /\ ~(th'[t].cmd = "take" /\ th'[t].server \in Servers)
                 /\ (th'[t].at \in {"pay", "note"} /\ th'[t].server \in Servers
                       => th'[t].who \notin Young)
      <3>1. /\ th'[t].at = th[t].at /\ th'[t].cmd = th[t].cmd /\ th'[t].who = th[t].who
            /\ th'[t].server = IF t \in Holders THEN Freed ELSE th[t].server
        BY OnReadyState
      <3>2. th[t].at \in {"idle", "find", "ask"} => t \notin Holders
        BY ServerIds DEF Holders, BaseInv, ThreadInv, NoServer
      <3>3. t \notin Holders => ~(th[t].cmd = "take" /\ th[t].server \in Servers)
        BY DEF Holders
      <3>4. Freed \notin Servers
        BY ServerIds DEF Freed
      <3> QED BY <3>1, <3>2, <3>3, <3>4 DEF BaseInv, ThreadInv
    <2> QED BY <1>1, <1>2, <2>1, OnReadyState DEF ThreadInv, Saving
  <1>7. FileInv'
    <2> SUFFICES ASSUME Alone' PROVE FileInv'
      BY DEF FileInv
    <2>1. \A t \in Savers : th'[t].at \in {"serialise", "flush"} <=> th[t].at \in {"serialise", "flush"}
      BY <1>1, OnReadyState DEF Savers
    <2>2. Writing' = Writing
      BY <2>1 DEF Writing
    <2>3. AboutToSave'
      BY OnReadyState, ServerIds DEF AboutToSave
    <2>4. Writing = {}
      <3>1. CASE up
        BY <1>1, <3>1 DEF Alone, BaseInv, FileInv
      <3>2. CASE ~up
        BY <3>2 DEF Writing, BaseInv, ThreadInv
      <3> QED BY <3>1, <3>2
    <2> QED BY <1>1, <2>2, <2>3, <2>4 DEF FileInv
  <1> QED BY <1>5, <1>6, <1>7 DEF BaseInv

LEMMA RefreshBase ==
  ASSUME BaseInv, NEW s \in Servers, NEW names, Refresh(s, names)
  PROVE  BaseInv'
  <1>1. /\ UNCHANGED <<now, enabled, up, Unknown, file, buffer, counts, granted, payments, lost>>
        /\ th[Socket].at = "refresh" /\ UserList' = Refreshed(UserList, s, names)
        /\ Socket \in Savers
    BY ServerIds DEF Refresh, fileVars
  <1>2. IsList(UserList') /\ DOMAIN UserList \subseteq DOMAIN UserList'
    BY <1>1, RefreshedList DEF BaseInv, Typed
  <1>3. moved' \in SUBSET Users
    BY DEF Refresh, Ahead, BaseInv, Typed
  <1>4. /\ th' \in [Savers -> ThreadStates] /\ \A i \in Savers \ {Socket} : th'[i] = th[i]
        /\ th'[Socket].at = "open" /\ th'[Socket].cmd = th[Socket].cmd
    BY <1>1, OpenState DEF Refresh, BaseInv
  <1>5. \A t \in Threads : th'[t] = th[t]
    BY <1>4, ServerIds
  <1>6. up
    BY <1>1, RunsUp
  <1>7. ThreadInv'
    BY <1>1, <1>2, <1>4, <1>5, <1>6 DEF BaseInv, ThreadInv, Saving
  <1>8. Typed'
    BY <1>1, <1>2, <1>3, <1>4 DEF BaseInv, Typed, counts
  <1>9. FileInv'
    BY <1>1, <1>4, AboutToSaveStep DEF Saving
  <1> QED BY <1>7, <1>8, <1>9 DEF BaseInv

LEMMA ReadyEndsBase ==
  ASSUME BaseInv, ReadyEnds
  PROVE  BaseInv'
  <1>1. /\ UNCHANGED <<now, enabled, up, UserList, Unknown, file, buffer, counts, history>>
        /\ th[Socket].at = "refresh" /\ Socket \in Savers
    BY ServerIds DEF ReadyEnds, listVars, fileVars
  <1>2. /\ th' \in [Savers -> ThreadStates] /\ \A i \in Savers \ {Socket} : th'[i] = th[i]
        /\ th'[Socket].at = "idle" /\ th'[Socket].cmd = "none"
    BY <1>1, EndsState, SleepingState DEF ReadyEnds, BaseInv
  <1>3. \A t \in Threads : th'[t] = th[t]
    BY <1>2, ServerIds
  <1>4. up
    BY <1>1, RunsUp
  <1>5. ThreadInv'
    BY <1>1, <1>2, <1>3, <1>4 DEF BaseInv, ThreadInv
  <1>6. Writing' = Writing /\ AboutToSave' = AboutToSave /\ Socket \notin Writing
    BY <1>1, <1>2 DEF Writing, AboutToSave
  <1>7. FileInv'
    <2>1. \A t \in Writing : th'[t] = th[t]
      BY <1>2, <1>6 DEF Writing
    <2> QED BY <1>1, <1>6, <2>1 DEF BaseInv, FileInv, Alone
  <1>8. Typed'
    BY <1>1, <1>2 DEF BaseInv, Typed, counts, history
  <1> QED BY <1>5, <1>7, <1>8 DEF BaseInv

LEMMA StopsBase ==
  ASSUME BaseInv, Stops, Unknown' \in Records
  PROVE  BaseInv'
  <1>1. /\ UNCHANGED <<now, enabled, file, counts, granted, payments, moved>>
        /\ up' = FALSE /\ UserList' = NoLists
        /\ th' = [t \in Savers |-> Sleeping] /\ buffer' = [t \in Savers |-> NoLists]
    BY DEF Stops
  <1>2. lost' \in SUBSET Users
    <2>1. Of(Unrecorded) \subseteq Users
      BY DEF Of, Unrecorded, BaseInv, ThreadInv
    <2>2. lost \subseteq Users /\ Differ(file.list) \subseteq Users
      BY DEF Differ, BaseInv, Typed
    <2> QED BY <2>1, <2>2 DEF Stops
  <1>3. Typed'
    BY <1>1, <1>2, SleepingState, NoListsIsList DEF BaseInv, Typed, counts
  <1>4. ThreadInv'
    <2>1. \A t \in Savers : th'[t] = Sleeping
      BY <1>1
    <2>2. \A t \in Threads : th'[t] = Sleeping
      BY <2>1, ServerIds
    <2> QED BY <1>1, <2>1, <2>2, SleepingState, ServerIds DEF ThreadInv, Saving, NoServer
  <1>5. FileInv'
    BY <1>1 DEF FileInv, Alone
  <1> QED BY <1>3, <1>4, <1>5 DEF BaseInv

(* The clock and the admins leave list, file and commands alone. *)
LEMMA AroundBase ==
  ASSUME BaseInv, UNCHANGED <<up, UserList, Unknown, file, buffer, th, readies, history>>,
         now' \in Nat, enabled' \in BOOLEAN, commands' \in Nat
  PROVE  BaseInv'
  <1>1. Typed'
    BY DEF BaseInv, Typed, counts, history
  <1>2. ThreadInv'
    BY DEF BaseInv, ThreadInv
  <1>3. Writing' = Writing /\ AboutToSave' = AboutToSave /\ Alone' = Alone
    BY DEF Writing, AboutToSave, Alone
  <1>4. FileInv'
    BY <1>3 DEF BaseInv, FileInv
  <1> QED BY <1>1, <1>2, <1>4 DEF BaseInv

LEMMA BaseInit == Init => BaseInv
  <1> SUFFICES ASSUME Init PROVE BaseInv
    OBVIOUS
  <1>1. Typed
    <2>1. th \in [Savers -> ThreadStates]
      BY SleepingState DEF Init
    <2>2. granted \in [Users -> Int] /\ payments \in [Users -> [Servers -> Nat]]
      BY TimeAssumption DEF Init, Never
    <2> QED BY <2>1, <2>2, RecordTypes, NoListsIsList DEF Init, Typed
  <1>2. ThreadInv
    <2>1. \A t \in Savers : th[t] = Sleeping
      BY DEF Init
    <2>2. \A t \in Threads : th[t] = Sleeping
      BY <2>1, ServerIds
    <2> QED BY <2>1, <2>2, SleepingState, ServerIds DEF Init, ThreadInv, Saving, NoServer
  <1>3. FileInv
    BY DEF Init, FileInv, Alone
  <1> QED BY <1>1, <1>2, <1>3 DEF BaseInv

LEMMA BaseStep == BaseInv /\ [Next]_vars => BaseInv'
  <1> SUFFICES ASSUME BaseInv, [Next]_vars PROVE BaseInv'
    OBVIOUS
  <1>1. CASE Tick
    BY <1>1, AroundBase DEF Tick, listVars, fileVars, counts, BaseInv, Typed
  <1>2. ASSUME NEW t \in Threads, Command(t) PROVE BaseInv'
    BY <1>2, CommandBase, AddBase, RecordBase DEF Command
  <1>3. ASSUME NEW t \in Threads, NEW u \in Users, Take(t, u) \/ Look(t, u) PROVE BaseInv'
    BY <1>3, TakeBase
  <1>4. ASSUME NEW t \in Savers, Save(t) PROVE BaseInv'
    BY <1>4, OpenBase, SerialiseBase, CloseBase DEF Save
  <1>5. ASSUME NEW s \in Servers, NEW names, OnReady(s, names) \/ Refresh(s, names) PROVE BaseInv'
    BY <1>5, OnReadyBase, RefreshBase
  <1>6. CASE ReadyEnds
    BY <1>6, ReadyEndsBase
  <1>7. CASE ToggleFaucet
    BY <1>7, AroundBase DEF ToggleFaucet, listVars, fileVars, BaseInv, Typed
  <1>8. CASE Shutdown \/ Crash
    <2>1. Unknown' \in Records /\ Stops
      BY <1>8, RecordTypes DEF Shutdown, Crash, BaseInv, Typed
    <2> QED BY <2>1, StopsBase
  <1>9. CASE UNCHANGED vars
    BY <1>9, AroundBase DEF vars, listVars, fileVars, counts, BaseInv, Typed
  <1> QED BY <1>1, <1>2, <1>3, <1>4, <1>5, <1>6, <1>7, <1>8, <1>9 DEF Next

LEMMA BaseAlways == Spec => []BaseInv
  BY BaseInit, BaseStep, PTL DEF Spec

(* Every variable has its type. *)
THEOREM FaucetTypes == Spec => []TypeOK
  <1>1. BaseInv => TypeOK
    <2> SUFFICES ASSUME BaseInv PROVE TypeOK
      OBVIOUS
    <2>1. \A t \in Savers : t # Socket /\ th[t].at # "idle" => th[t].who \in Users
      BY DEF BaseInv, ThreadInv, Savers
    <2>2. \A t \in Savers :
            /\ th[t].at \in {"idle", "find", "ask", "check", "pay", "note",
                             "open", "serialise", "flush", "refresh"}
            /\ th[t].cmd \in {"none", "take", "look"}
            /\ th[t].current \in Nat /\ th[t].server \in Servers \cup {NoServer, Freed}
      BY DEF BaseInv, Typed, ThreadStates, Places
    <2> QED BY <2>1, <2>2 DEF BaseInv, Typed, TypeOK, IsList, Records
  <1> QED BY <1>1, BaseAlways, PTL

(* When nothing runs and the last save was alone, the file can be read and holds the list:
   whatever order commands and READY events recorded and saved in. *)
THEOREM FileIsTheList == Spec => []FileHoldsList
  <1>1. BaseInv => FileHoldsList
    BY DEF BaseInv, FileInv, Alone, AboutToSave, Writing, FileHoldsList
  <1> QED BY <1>1, BaseAlways, PTL

(* A thread that pays is in the step that pays. *)
LEMMA WhoIsPaid ==
  ASSUME BaseInv, Next, NEW u \in Users, granted'[u] # granted[u]
  PROVE  \E t \in Threads : Pay(t) /\ th[t].who = u
  <1>1. ASSUME NEW t \in Threads, Pay(t) PROVE th[t].who = u
    <2>1. granted' = [granted EXCEPT ![th[t].who] = th[t].current]
      BY <1>1 DEF Pay
    <2> QED BY <2>1 DEF BaseInv, Typed
  <1>2. ASSUME granted' # granted PROVE \E t \in Threads : Pay(t)
    BY <1>2 DEF Next, Tick, Command, FindUser, AskDiscord, AddUser, DiscordFails, CheckPasses,
                Refused, NoteThrows, Record, Take, Look, Save, OpenFile, Serialise, CloseFile,
                OnReady, Refresh, ReadyEnds, ToggleFaucet, Stops, Shutdown, Crash, history
  <1> QED BY <1>1, <1>2

(* A young account is paid only by a command that had to make do with the unknown user, or
   whose record a READY freed. *)
THEOREM NoYoungTaker == Spec => OldUnlessUnknown
  <1>1. ASSUME BaseInv, [Next]_vars, NEW u \in Young, granted'[u] # granted[u]
        PROVE  \E t \in Threads :
                  th[t].at = "pay" /\ th[t].who = u /\ th[t].server \notin Servers
    <2>1. Next
      BY <1>1 DEF vars, history
    <2>2. u \in Users
      BY UserIds
    <2>3. PICK t \in Threads : Pay(t) /\ th[t].who = u
      BY <1>1, <2>1, <2>2, WhoIsPaid
    <2> QED BY <1>1, <2>3 DEF Pay, BaseInv, ThreadInv
  <1>2. BaseInv /\ [Next]_vars
          => [\A u \in Young : granted'[u] # granted[u] =>
                \E t \in Threads :
                   th[t].at = "pay" /\ th[t].who = u /\ th[t].server \notin Servers]_vars
    BY <1>1
  <1> QED BY <1>2, BaseAlways, PTL DEF Spec, OldUnlessUnknown

-----------------------------------------------------------------------------
(* What a patient user is paid.                                              *)

(* No user has two !takes running. *)
Apart ==
    \A i, j \in Threads :
        th[i].cmd = "take" /\ th[j].cmd = "take" /\ i # j => th[i].who # th[j].who

(* The list that the next READY starts from, or that the bot works with. *)
Current == IF up THEN UserList ELSE file.list

(* The commands that have paid a user, by a record, and not yet recorded it. *)
Paying(u) == {t \in Threads : th[t].at = "note" /\ th[t].who = u}
Noting(u, s) == {t \in Paying(u) : th[t].server = s}

PaidInv ==
    \A u \in Users \ lost, s \in Servers :
        payments[u][s] = RecordIn(Current, s, u).sent + (IF Noting(u, s) = {} THEN 0 ELSE 1)

(* The record that a command finds. *)
First(list, s, u) ==
    /\ s \in Servers /\ RecordIn(list, s, u) # NoRecord
    /\ \A i \in Servers : RecordIn(list, i, u) # NoRecord => s <= i

Nowhere(list, u) == \A s \in Servers : RecordIn(list, s, u) = NoRecord

(* The first record of a user says no earlier a time than the timeout asks for. *)
Due(list, u, paid) ==
    /\ Nowhere(list, u) => paid = Never
    /\ \A s \in Servers : First(list, s, u) => paid + Timeout <= RecordIn(list, s, u).next

Followed == Users \ (lost \cup moved)

GrantInv == \A u \in Followed : Paying(u) = {} => Due(Current, u, granted[u])

(* A !take holds its user's first record, and has read the clock after it was due. *)
Holds(t) ==
    /\ th[t].server # Freed
    /\ th[t].server \in Servers => First(UserList, th[t].server, th[t].who)
    /\ th[t].at \in {"check", "pay", "note"} \cup Saving => th[t].server \in Servers
    /\ th[t].at = "pay" => granted[th[t].who] + Timeout < th[t].current
    /\ th[t].at = "note" => granted[th[t].who] = th[t].current

HoldInv == \A t \in Threads : th[t].cmd = "take" /\ th[t].who \in Followed => Holds(t)

TakeInv == BaseInv /\ Apart /\ PaidInv /\ GrantInv /\ HoldInv

LEMMA SameFirst ==
  ASSUME NEW old, NEW new, NEW u,
         \A s \in Servers : RecordIn(new, s, u) = RecordIn(old, s, u)
  PROVE  /\ \A s \in Servers : First(new, s, u) <=> First(old, s, u)
         /\ \A paid \in Int : Due(new, u, paid) <=> Due(old, u, paid)
  BY DEF First, Due, Nowhere

(* A list that has grown, but not ahead of a user's first record, leaves him that. *)
LEMMA GrownFirst ==
  ASSUME NEW old, IsList(old), NEW new, IsList(new), Grown(old, new),
         NEW u \in Users, u \notin Ahead(old, new), NEW s \in Servers
  PROVE  /\ First(old, s, u) => First(new, s, u) /\ RecordIn(new, s, u) = RecordIn(old, s, u)
         /\ First(new, s, u) =>
              \/ First(old, s, u)
              \/ Nowhere(old, u) /\ RecordIn(new, s, u) = NewRecord
  <1> DEFINE R(i) == RecordIn(old, i, u)
             Q(i) == RecordIn(new, i, u)
  <1>1. \A i \in Servers : Q(i) = R(i) \/ (R(i) = NoRecord /\ Q(i) = NewRecord)
    BY DEF Grown
  <1>2. NewRecord # NoRecord
    BY RecordTypes
  <1>3. (\E i \in Servers : R(i) # NoRecord) =>
           \A k \in Servers : Q(k) # NoRecord => \E i \in Servers : R(i) # NoRecord /\ ~(k < i)
    <2>1. /\ Known(old, u) = {i \in Servers : R(i) # NoRecord}
          /\ Known(new, u) = {i \in Servers : Q(i) # NoRecord}
      BY KnownAs
    <2>2. Known(old, u) = {} \/ \A k \in Known(new, u) : \E i \in Known(old, u) : ~(k < i)
      BY DEF Ahead
    <2> HIDE DEF R, Q
    <2> QED BY <2>1, <2>2
  <1>4. \A i \in Servers : R(i) # NoRecord => Q(i) # NoRecord
    BY <1>1, <1>2
  <1>5. /\ First(old, s, u) <=> R(s) # NoRecord /\ \A i \in Servers : R(i) # NoRecord => s <= i
        /\ First(new, s, u) <=> Q(s) # NoRecord /\ \A i \in Servers : Q(i) # NoRecord => s <= i
        /\ Nowhere(old, u) <=> \A i \in Servers : R(i) = NoRecord
    BY DEF First, Nowhere
  <1>6. \A i, k \in Servers : i \in Int /\ k \in Int
    BY ServerIds
  <1> HIDE DEF R, Q
  <1>7. ASSUME First(old, s, u)
        PROVE  First(new, s, u) /\ Q(s) = R(s)
    <2>1. R(s) # NoRecord /\ Q(s) = R(s)
      BY <1>1, <1>5, <1>7
    <2>2. ASSUME NEW k \in Servers, Q(k) # NoRecord PROVE s <= k
      <3>1. PICK i \in Servers : R(i) # NoRecord /\ ~(k < i)
        BY <1>3, <2>1, <2>2
      <3>2. s <= i
        BY <1>5, <1>7, <3>1
      <3> QED BY <1>6, <3>1, <3>2
    <2> QED BY <1>5, <2>1, <2>2
  <1>8. ASSUME First(new, s, u), ~(\A i \in Servers : R(i) = NoRecord)
        PROVE  First(old, s, u)
    <2>1. PICK i \in Servers : R(i) # NoRecord /\ ~(s < i)
      BY <1>3, <1>5, <1>8
    <2>2. s <= i
      BY <1>4, <1>5, <1>8, <2>1
    <2>3. s = i
      BY <1>6, <2>1, <2>2
    <2> QED BY <1>4, <1>5, <1>8, <2>1, <2>3
  <1>9. ASSUME First(new, s, u), \A i \in Servers : R(i) = NoRecord
        PROVE  Q(s) = NewRecord
    BY <1>1, <1>5, <1>9
  <1> QED BY <1>5, <1>7, <1>8, <1>9 DEF R, Q

LEMMA GrownDue ==
  ASSUME NEW old, IsList(old), NEW new, IsList(new), Grown(old, new),
         NEW u \in Users, u \notin Ahead(old, new), NEW paid \in Int, Due(old, u, paid)
  PROVE  Due(new, u, paid)
  <1>1. ASSUME Nowhere(new, u) PROVE paid = Never
    <2>1. Nowhere(old, u)
      BY <1>1, RecordTypes DEF Nowhere, Grown
    <2> QED BY <2>1 DEF Due
  <1>2. ASSUME NEW s \in Servers, First(new, s, u)
        PROVE  paid + Timeout <= RecordIn(new, s, u).next
    <2>1. CASE First(old, s, u)
      <3>1. paid + Timeout <= RecordIn(old, s, u).next
        BY <2>1 DEF Due
      <3>2. RecordIn(new, s, u) = RecordIn(old, s, u)
        BY <2>1, GrownFirst
      <3> QED BY <3>1, <3>2
    <2>2. CASE Nowhere(old, u) /\ RecordIn(new, s, u) = NewRecord
      <3>1. paid = Never
        BY <2>2 DEF Due
      <3>2. RecordIn(new, s, u).next = 0
        BY <2>2, RecordTypes
      <3> QED BY <3>1, <3>2, TimeAssumption DEF Never
    <2> QED BY <1>2, <2>1, <2>2, GrownFirst
  <1> QED BY <1>1, <1>2 DEF Due

(* A command that has paid is a !take that runs, and the only one of its user. *)
LEMMA PayingTakes ==
  ASSUME BaseInv, Apart, NEW t \in Threads, th[t].cmd = "take"
  PROVE  Paying(th[t].who) \subseteq {t}
  <1>1. \A i \in Paying(th[t].who) : i \in Threads /\ th[i].cmd = "take" /\ th[i].who = th[t].who
    BY DEF Paying, BaseInv, ThreadInv
  <1> QED BY <1>1 DEF Apart

LEMMA SamePaying ==
  ASSUME \A i \in Threads : th'[i].at = "note" <=> th[i].at = "note",
         \A i \in Threads : th[i].at = "note" =>
            th'[i].who = th[i].who /\ th'[i].server = th[i].server,
         NEW u
  PROVE  Paying(u)' = Paying(u) /\ \A s : Noting(u, s)' = Noting(u, s)
  <1>1. Paying(u)' = Paying(u)
    BY DEF Paying
  <1>2. \A i \in Paying(u) : th'[i].server = th[i].server
    BY DEF Paying
  <1> QED BY <1>1, <1>2 DEF Noting

(* What keeps payments and records together, user by user. *)
LEMMA PaidKept ==
  ASSUME PaidInv, lost \subseteq lost',
         \A u \in Users \ lost', s \in Servers :
            /\ payments'[u][s] = payments[u][s]
            /\ RecordIn(Current', s, u).sent = RecordIn(Current, s, u).sent
            /\ Noting(u, s)' = {} <=> Noting(u, s) = {}
  PROVE  PaidInv'
  BY DEF PaidInv

LEMMA GrantKept ==
  ASSUME GrantInv, lost \subseteq lost', moved \subseteq moved',
         \A u \in Followed' :
            /\ granted'[u] = granted[u]
            /\ Paying(u)' = {} => Paying(u) = {}
            /\ Due(Current, u, granted[u]) => Due(Current', u, granted[u])
  PROVE  GrantInv'
  <1>1. Followed' \subseteq Followed
    BY DEF Followed
  <1> QED BY <1>1 DEF GrantInv

(* A step that pays nobody and leaves the list alone. *)
LEMMA QuietKeeps ==
  ASSUME TakeInv, UNCHANGED <<UserList, up, payments, granted, lost>>, moved \subseteq moved',
         up \/ UNCHANGED file,
         \A i \in Threads : th'[i].at = "note" <=> th[i].at = "note",
         \A i \in Threads : th[i].at = "note" =>
            th'[i].who = th[i].who /\ th'[i].server = th[i].server
  PROVE  PaidInv' /\ GrantInv'
  <1>1. Current' = Current
    BY DEF Current
  <1>2. \A u : Paying(u)' = Paying(u) /\ \A s : Noting(u, s)' = Noting(u, s)
    BY SamePaying
  <1>3. PaidInv'
    BY <1>1, <1>2, PaidKept DEF TakeInv
  <1>4. GrantInv'
    BY <1>1, <1>2, GrantKept DEF TakeInv
  <1> QED BY <1>3, <1>4

(* The list grows from old to new, and for those who lost nothing old is the current one. *)
LEMMA GrowKeeps ==
  ASSUME TakeInv, NEW old, IsList(old), Grown(old, Current'), IsList(Current'),
         lost \subseteq lost', moved' = moved \cup Ahead(old, Current'),
         UNCHANGED <<payments, granted>>,
         \A u \in Users \ lost', s \in Servers :
            /\ RecordIn(old, s, u) = RecordIn(Current, s, u)
            /\ Noting(u, s)' = {} <=> Noting(u, s) = {},
         \A u \in Users : Paying(u)' = Paying(u)
  PROVE  PaidInv' /\ GrantInv'
  <1>1. PaidInv'
    <2>1. ASSUME NEW u \in Users \ lost', NEW s \in Servers
          PROVE  RecordIn(Current', s, u).sent = RecordIn(Current, s, u).sent
      <3>1. \/ RecordIn(Current', s, u) = RecordIn(old, s, u)
            \/ RecordIn(old, s, u) = NoRecord /\ RecordIn(Current', s, u) = NewRecord
        BY DEF Grown
      <3>2. RecordIn(old, s, u) = RecordIn(Current, s, u)
        OBVIOUS
      <3> QED BY <3>1, <3>2, RecordTypes
    <2> QED BY <2>1, PaidKept DEF TakeInv
  <1>2. ASSUME NEW u \in Followed', Due(Current, u, granted[u])
        PROVE  Due(Current', u, granted[u])
    <2>1. u \in Users /\ u \notin lost' /\ u \notin Ahead(old, Current') /\ granted[u] \in Int
      BY DEF Followed, TakeInv, BaseInv, Typed
    <2>2. \A s \in Servers : RecordIn(old, s, u) = RecordIn(Current, s, u)
      BY <2>1
    <2>3. Due(old, u, granted[u])
      BY <1>2, <2>1, <2>2, SameFirst
    <2> QED BY <2>1, <2>3, GrownDue
  <1>3. \A u \in Followed' : u \in Users
    BY DEF Followed
  <1>4. GrantInv'
    BY <1>2, <1>3, GrantKept DEF TakeInv
  <1> QED BY <1>1, <1>4

(* Threads that stay what they are about stay apart. *)
LEMMA ApartKept ==
  ASSUME Apart,
         \A i \in Threads : th'[i].cmd = "take" => th[i].cmd = "take" /\ th'[i].who = th[i].who
  PROVE  Apart'
  BY DEF Apart

(* One thread moves, the list is the same. *)
LEMMA HoldsKept ==
  ASSUME HoldInv, NEW t \in Savers, \A i \in Savers \ {t} : th'[i] = th[i],
         UNCHANGED <<UserList, granted>>, lost \subseteq lost', moved \subseteq moved',
         t \in Threads /\ th'[t].cmd = "take" /\ th'[t].who \in Followed' => Holds(t)'
  PROVE  HoldInv'
  <1> SUFFICES ASSUME NEW i \in Threads, th'[i].cmd = "take", th'[i].who \in Followed'
               PROVE  Holds(i)'
    BY DEF HoldInv
  <1>1. CASE i # t
    <2>1. th'[i] = th[i]
      BY <1>1, ServerIds
    <2>2. th[i].who \in Followed
      BY <2>1 DEF Followed
    <2>3. Holds(i)
      BY <2>1, <2>2 DEF HoldInv
    <2> QED BY <2>1, <2>3 DEF Holds
  <1> QED BY <1>1

LEMMA TakeKeeps ==
  ASSUME TakeInv, Patient, BaseInv', NEW t \in Threads, NEW u \in Users, Take(t, u) \/ Look(t, u)
  PROVE  TakeInv'
  <1>1. /\ UNCHANGED <<up, UserList, file, history>> /\ th[t].at = "idle" /\ t \in Savers
        /\ th[t].cmd = "none" /\ up
    BY ServerIds DEF Take, Look, Listening, listVars, fileVars, TakeInv, BaseInv, ThreadInv
  <1>2. CASE UNCHANGED th
    <2>1. PaidInv' /\ GrantInv'
      BY <1>1, <1>2, QuietKeeps DEF history
    <2>2. Apart' /\ HoldInv'
      BY <1>1, <1>2 DEF TakeInv, Apart, HoldInv, Holds, Followed, history
    <2> QED BY <2>1, <2>2 DEF TakeInv
  <1>3. ASSUME NEW cmd \in {"take", "look"}, th' = [th EXCEPT ![t] = Starting(cmd, u)],
               cmd = "take" => MayTake(u)
        PROVE  TakeInv'
    <2>1. /\ \A i \in Savers \ {t} : th'[i] = th[i]
          /\ th'[t].at = "find" /\ th'[t].cmd = cmd /\ th'[t].who = u
          /\ th'[t].server = NoServer
      BY <1>3, StartState DEF TakeInv, BaseInv
    <2>2. \A i \in Threads : i # t => th'[i] = th[i]
      BY <2>1, ServerIds
    <2>3. PaidInv' /\ GrantInv'
      BY <1>1, <2>1, <2>2, QuietKeeps DEF history
    <2>4. ASSUME cmd = "take", NEW i \in Threads, i # t, th[i].cmd = "take"
          PROVE  th[i].who # u
      <3>1. th[i].at # "idle"
        BY <2>4 DEF TakeInv, BaseInv, ThreadInv
      <3> QED BY <1>3, <2>4, <3>1, FaultAssumption DEF MayTake, Patient, Running
    <2>5. Apart'
      BY <2>1, <2>2, <2>4 DEF TakeInv, Apart
    <2>6. th'[t].server # Freed /\ th'[t].server \notin Servers
      BY <2>1, ServerIds DEF NoServer, Freed
    <2>7. Holds(t)'
      BY <2>1, <2>6 DEF Holds, Saving
    <2>8. HoldInv'
      BY <1>1, <2>1, <2>7, HoldsKept DEF TakeInv, history
    <2> QED BY <2>3, <2>5, <2>8 DEF TakeInv
  <1> QED BY <1>2, <1>3 DEF Take, Look

(* findUser and Discord's failures. *)
LEMMA FindKeeps ==
  ASSUME TakeInv, BaseInv', NEW t \in Threads, FindUser(t) \/ DiscordFails(t)
  PROVE  TakeInv'
  <1>1. /\ UNCHANGED <<up, UserList, file, granted, payments, lost>> /\ moved \subseteq moved'
        /\ th[t].at \in {"find", "ask"} /\ t \in Savers /\ up /\ th[t].who \in Users
    BY RunsUp, ServerIds DEF FindUser, DiscordFails, listVars, fileVars, history, TakeInv,
       BaseInv, ThreadInv
  <1>2. PICK s \in Servers \cup {NoServer} :
          /\ Found(t, s)
          /\ s \in Servers => First(UserList, s, th[t].who)
          /\ s \notin Servers => DiscordFails(t)
    BY <1>1, FirstListKnown, ServerIds
       DEF FindUser, DiscordFails, TakeInv, BaseInv, Typed, NoServer, First
  <1>3. /\ \A i \in Savers \ {t} : th'[i] = th[i]
        /\ \/ /\ th[t].cmd = "take"
              /\ th'[t].at = "check" /\ th'[t].cmd = "take" /\ th'[t].who = th[t].who
              /\ th'[t].server = s
           \/ th'[t] = Sleeping
    BY <1>2, FoundState DEF TakeInv, BaseInv
  <1>4. \A i \in Threads : i # t => th'[i] = th[i]
    BY <1>3, ServerIds
  <1>5. PaidInv' /\ GrantInv'
    BY <1>1, <1>3, <1>4, SleepingState, QuietKeeps
  <1>6. Apart'
    BY <1>3, <1>4, SleepingState, ApartKept DEF TakeInv
  <1>7. ASSUME th'[t].cmd = "take", th'[t].who \in Followed'
        PROVE  Holds(t)'
    <2>1. /\ th[t].cmd = "take" /\ th'[t].at = "check" /\ th'[t].who = th[t].who
          /\ th'[t].server = s
      BY <1>3, <1>7, SleepingState
    <2>2. s \in Servers
      <3> SUFFICES ASSUME s \notin Servers PROVE FALSE
        OBVIOUS
      <3>1. th[t].who \in moved'
        BY <1>2, <2>1 DEF DiscordFails
      <3> QED BY <1>7, <2>1, <3>1 DEF Followed
    <2>3. s # Freed
      BY <2>2, ServerIds DEF Freed
    <2> QED BY <1>1, <1>2, <2>1, <2>2, <2>3 DEF Holds, Saving
  <1>8. HoldInv'
    BY <1>1, <1>3, <1>7, HoldsKept DEF TakeInv
  <1> QED BY <1>5, <1>6, <1>8 DEF TakeInv

LEMMA AskCheckKeeps ==
  ASSUME TakeInv, BaseInv', NEW t \in Threads, AskDiscord(t) \/ CheckPasses(t)
  PROVE  TakeInv'
  <1>1. /\ UNCHANGED <<up, UserList, file, granted, payments, lost, moved>>
        /\ th[t].at \in {"find", "check"} /\ t \in Savers /\ up /\ th[t].who \in Users
    BY RunsUp, ServerIds DEF AskDiscord, CheckPasses, listVars, fileVars, history, TakeInv,
       BaseInv, ThreadInv
  <1>2. PICK at \in {"ask", "pay"} : Go(t, at) /\ (at = "pay" => CheckPasses(t))
                                     /\ (at = "ask" => th[t].at = "find")
    BY DEF AskDiscord, CheckPasses
  <1>3. /\ \A i \in Savers \ {t} : th'[i] = th[i]
        /\ th'[t].at = at /\ th'[t].cmd = th[t].cmd /\ th'[t].who = th[t].who
        /\ th'[t].server = th[t].server /\ th'[t].current = th[t].current
    BY <1>1, <1>2, GoState DEF Places, TakeInv, BaseInv
  <1>4. \A i \in Threads : i # t => th'[i] = th[i]
    BY <1>3, ServerIds
  <1>5. PaidInv' /\ GrantInv'
    BY <1>1, <1>3, <1>4, QuietKeeps
  <1>6. Apart'
    BY <1>3, <1>4, ApartKept DEF TakeInv
  <1>7. ASSUME th'[t].cmd = "take", th'[t].who \in Followed'
        PROVE  Holds(t)'
    <2> DEFINE u == th[t].who
               s == th[t].server
    <2>1. th[t].cmd = "take" /\ u \in Followed /\ Followed' = Followed
      BY <1>1, <1>3, <1>7 DEF Followed
    <2>2. Holds(t)
      BY <2>1 DEF TakeInv, HoldInv
    <2>3. CASE at = "ask"
      BY <1>1, <1>3, <2>2, <2>3 DEF Holds, Saving
    <2>4. CASE at = "pay"
      <3>1. th[t].at = "check" /\ (s # Freed => Granted(t))
        BY <1>2, <2>4 DEF CheckPasses
      <3>2. s \in Servers /\ s # Freed /\ First(UserList, s, u)
        BY <2>2, <3>1 DEF Holds
      <3>3. th[t].current > RecordAt(u, s).next
        BY <3>1, <3>2 DEF Granted, TimeoutOver
      <3>4. RecordAt(u, s) = RecordIn(UserList, s, u)
        <4>1. s # NoServer
          BY <3>2, ServerIds DEF NoServer
        <4>2. s \in DOMAIN UserList
          BY <2>1, <3>2 DEF TakeInv, BaseInv, ThreadInv
        <4> QED BY <4>1, <4>2 DEF RecordAt, RecordIn
      <3>5. Paying(u) = {}
        <4>1. t \notin Paying(u)
          BY <3>1 DEF Paying
        <4> QED BY <2>1, <4>1, PayingTakes DEF TakeInv
      <3>6. granted[u] + Timeout <= RecordIn(UserList, s, u).next
        BY <1>1, <2>1, <3>2, <3>5 DEF TakeInv, GrantInv, Current, Due
      <3>7. /\ RecordIn(UserList, s, u) \in Records /\ granted[u] \in Int
            /\ th[t].current \in Nat
        BY <1>1, RecordInType DEF TakeInv, BaseInv, Typed, ThreadStates
      <3>8. granted[u] + Timeout < th[t].current
        BY <3>3, <3>4, <3>6, <3>7, TimeAssumption DEF Records
      <3> QED BY <1>1, <1>3, <2>4, <3>2, <3>8 DEF Holds, Saving
    <2> QED BY <2>3, <2>4
  <1>8. HoldInv'
    BY <1>1, <1>3, <1>7, HoldsKept DEF TakeInv
  <1> QED BY <1>5, <1>6, <1>8 DEF TakeInv

(* A command that ends without having paid. *)
LEMMA RefusedKeeps ==
  ASSUME TakeInv, BaseInv', NEW t \in Threads, Refused(t)
  PROVE  TakeInv'
  <1>1. /\ UNCHANGED <<up, UserList, file, granted, payments, lost, moved>>
        /\ th[t].at \in {"find", "ask", "check", "pay"} /\ t \in Savers /\ up
    BY RunsUp, ServerIds DEF Refused, listVars, fileVars, history, TakeInv
  <1>2. /\ \A i \in Savers \ {t} : th'[i] = th[i]
        /\ th'[t] = Sleeping
    BY <1>1, EndsState DEF Refused, TakeInv, BaseInv
  <1>3. \A i \in Threads : i # t => th'[i] = th[i]
    BY <1>2, ServerIds
  <1>4. PaidInv' /\ GrantInv'
    BY <1>1, <1>2, <1>3, SleepingState, QuietKeeps
  <1>5. Apart'
    BY <1>2, <1>3, SleepingState, ApartKept DEF TakeInv
  <1>6. HoldInv'
    BY <1>1, <1>2, SleepingState, HoldsKept DEF TakeInv
  <1> QED BY <1>4, <1>5, <1>6 DEF TakeInv

(* Saving neither pays nor changes the list; the command that added its user goes on. *)
LEMMA SaveKeeps ==
  ASSUME TakeInv, BaseInv', NEW t \in Savers, Save(t)
  PROVE  TakeInv'
  <1>1. /\ UNCHANGED <<up, UserList, granted, payments, lost, moved>>
        /\ th[t].at \in Saving /\ up
    BY RunsUp DEF Save, OpenFile, Serialise, CloseFile, Saving, listVars, history, TakeInv
  <1>2. /\ \A i \in Savers \ {t} : th'[i] = th[i]
        /\ \/ /\ th'[t].at \in Saving \cup {"refresh", "check"} /\ th'[t].cmd = th[t].cmd
              /\ th'[t].who = th[t].who /\ th'[t].server = th[t].server
           \/ th'[t] = Sleeping
    <2>1. ASSUME NEW at \in Saving \cup {"refresh"}, Go(t, at)
          PROVE  /\ \A i \in Savers \ {t} : th'[i] = th[i]
                 /\ th'[t].at = at /\ th'[t].cmd = th[t].cmd
                 /\ th'[t].who = th[t].who /\ th'[t].server = th[t].server
      BY <2>1, GoState DEF Saving, Places, TakeInv, BaseInv
    <2>2. ASSUME Ends(t)
          PROVE  /\ \A i \in Savers \ {t} : th'[i] = th[i]
                 /\ th'[t] = Sleeping
      BY <2>2, EndsState DEF TakeInv, BaseInv
    <2>3. ASSUME t \in Threads, Found(t, th[t].server)
          PROVE  /\ \A i \in Savers \ {t} : th'[i] = th[i]
                 /\ \/ /\ th'[t].at = "check" /\ th'[t].cmd = th[t].cmd
                       /\ th'[t].who = th[t].who /\ th'[t].server = th[t].server
                    \/ th'[t] = Sleeping
      <3>1. th[t].server \in Servers \cup {NoServer, Freed}
        BY DEF TakeInv, BaseInv, Typed, ThreadStates
      <3> QED BY <2>3, <3>1, FoundState DEF TakeInv, BaseInv
    <2>4. CASE OpenFile(t) \/ Serialise(t)
      BY <2>1, <2>4 DEF OpenFile, Serialise, Saving
    <2>5. CASE CloseFile(t)
      <3>1. \/ Go(t, "refresh")
            \/ t \in Threads /\ Found(t, th[t].server)
            \/ Ends(t)
        BY <2>5 DEF CloseFile, Savers
      <3> QED BY <2>1, <2>2, <2>3, <3>1 DEF Saving
    <2> QED BY <2>4, <2>5 DEF Save
  <1>3. \A i \in Threads : i # t => th'[i] = th[i]
    BY <1>2, ServerIds
  <1>4. PaidInv' /\ GrantInv'
    BY <1>1, <1>2, <1>3, SleepingState, QuietKeeps DEF Saving
  <1>5. Apart'
    BY <1>2, <1>3, SleepingState, ApartKept DEF TakeInv
  <1>6. ASSUME t \in Threads, th'[t].cmd = "take", th'[t].who \in Followed'
        PROVE  Holds(t)'
    <2>1. /\ th'[t].at \in Saving \cup {"refresh", "check"} /\ th[t].cmd = "take"
          /\ th'[t].who = th[t].who /\ th'[t].server = th[t].server
      BY <1>2, <1>6, SleepingState
    <2>2. Holds(t)
      BY <1>1, <1>6, <2>1 DEF TakeInv, HoldInv, Followed
    <2> QED BY <1>1, <2>1, <2>2 DEF Holds, Saving
  <1>7. HoldInv'
    BY <1>1, <1>2, <1>6, HoldsKept DEF TakeInv
  <1> QED BY <1>4, <1>5, <1>7 DEF TakeInv

(* A user is added to the first of all lists: whoever has a record there has it first. *)
LEMMA AddKeeps ==
  ASSUME TakeInv, BaseInv', NEW t \in Threads, AddUser(t)
  PROVE  TakeInv'
  <1> DEFINE u == th[t].who
             s == FirstServer
  <1>1. /\ UNCHANGED <<up, file, granted, payments, lost>> /\ moved \subseteq moved'
        /\ moved' = moved \cup Ahead(UserList, UserList')
        /\ th[t].at = "ask" /\ t \in Savers /\ up /\ u \in Users
    BY RunsUp, ServerIds DEF AddUser, fileVars, TakeInv, BaseInv, ThreadInv
  <1>2. s \in DOMAIN UserList /\ s \in Servers /\ \A i \in DOMAIN UserList : s <= i
    BY <1>1, FirstId DEF FirstServer, TakeInv, BaseInv, Typed, ThreadInv, IsList
  <1>3. /\ UserList' = Written(u, s, Inserted(u, s))
        /\ IsList(UserList) /\ IsList(UserList') /\ DOMAIN UserList' = DOMAIN UserList
        /\ Grown(UserList, UserList')
    <2>1. UserList' = Written(u, s, Inserted(u, s)) /\ IsList(UserList)
      BY DEF AddUser, TakeInv, BaseInv, Typed
    <2> HIDE DEF u, s
    <2> QED BY <1>1, <1>2, <2>1, AddedList
  <1>4. /\ \A i \in Savers \ {t} : th'[i] = th[i]
        /\ th'[t].at = "open" /\ th'[t].cmd = th[t].cmd /\ th'[t].who = u
        /\ th'[t].server = s
    BY <1>1, <1>2, OpenState DEF AddUser, TakeInv, BaseInv
  <1>5. \A i \in Threads : i # t => th'[i] = th[i]
    BY <1>4, ServerIds
  <1>6. \A v : Paying(v)' = Paying(v) /\ \A i : Noting(v, i)' = Noting(v, i)
    BY <1>1, <1>4, <1>5, SamePaying
  <1>7. Current = UserList /\ Current' = UserList'
    BY <1>1 DEF Current
  <1>8. PaidInv' /\ GrantInv'
    BY <1>1, <1>3, <1>6, <1>7, GrowKeeps
  <1>9. Apart'
    BY <1>4, <1>5, ApartKept DEF TakeInv
  <1>10. First(UserList', s, u)
    <2>1. RecordIn(UserList', s, u) # NoRecord
      <3>1. Inserted(u, s) # NoRecord /\ Inserted(u, s) \in Records
        BY <1>1, <1>2, <1>3, RecordTypes DEF Inserted, IsList
      <3> HIDE DEF u, s
      <3> QED BY <1>1, <1>2, <1>3, <3>1, WrittenList
    <2>2. \A i \in Servers : RecordIn(UserList', i, u) # NoRecord => i \in DOMAIN UserList
      BY <1>3 DEF RecordIn
    <2> QED BY <1>2, <2>1, <2>2 DEF First
  <1>11. ASSUME NEW i \in Threads, th'[i].cmd = "take", th'[i].who \in Followed'
         PROVE  Holds(i)'
    <2>1. CASE i = t
      <3>1. s # Freed
        BY <1>2, ServerIds DEF Freed
      <3> QED BY <1>2, <1>4, <1>10, <2>1, <3>1 DEF Holds
    <2>2. CASE i # t
      <3>1. th'[i] = th[i] /\ th[i].who \in Followed /\ th[i].who \in Users
        BY <1>1, <1>5, <1>11, <2>2 DEF Followed
      <3>2. Holds(i) /\ th[i].who \notin Ahead(UserList, UserList')
        BY <1>1, <1>11, <3>1 DEF TakeInv, HoldInv, Followed
      <3>3. th[i].server \in Servers => First(UserList', th[i].server, th[i].who)
        BY <1>3, <3>1, <3>2, GrownFirst DEF Holds
      <3> QED BY <1>1, <3>1, <3>2, <3>3 DEF Holds
    <2> QED BY <2>1, <2>2
  <1>12. HoldInv'
    BY <1>11 DEF HoldInv
  <1> QED BY <1>8, <1>9, <1>12 DEF TakeInv

LEMMA PayKeeps ==
  ASSUME TakeInv, BaseInv', NEW t \in Threads, Pay(t)
  PROVE  TakeInv'
  <1> DEFINE s == th[t].server
  <1>0. PICK u \in Users : u = th[t].who
    BY DEF Pay, TakeInv, BaseInv, ThreadInv
  <1>1. /\ UNCHANGED <<up, UserList, file, lost, moved>>
        /\ th[t].at = "pay" /\ th[t].cmd = "take" /\ t \in Savers /\ up
    BY <1>0, RunsUp, ServerIds DEF Pay, listVars, fileVars, TakeInv, BaseInv, ThreadInv
  <1>2. /\ \A i \in Savers \ {t} : th'[i] = th[i]
        /\ th'[t].at = "note" /\ th'[t].cmd = "take" /\ th'[t].who = u
        /\ th'[t].server = s /\ th'[t].current = th[t].current
    BY <1>0, <1>1, GoState DEF Pay, Places, TakeInv, BaseInv
  <1>3. \A i \in Threads : i # t => th'[i] = th[i]
    BY <1>0, <1>2, ServerIds
  <1>4. Current' = Current
    BY <1>1 DEF Current
  <1>5. Paying(u) = {}
    BY <1>0, <1>1, PayingTakes DEF TakeInv, Paying
  <1>6. Paying(u)' = {t} /\ \A i : Noting(u, i)' = {t} \/ (i # s /\ Noting(u, i)' = {})
    <2>1. Paying(u)' = {t}
      <3>1. t \in Paying(u)'
        BY <1>0, <1>1, <1>2 DEF Paying
      <3>2. \A i \in Threads : i # t => ~(th'[i].at = "note" /\ th'[i].who = u)
        BY <1>0, <1>3, <1>5 DEF Paying
      <3> QED BY <1>0, <3>1, <3>2 DEF Paying
    <2> QED BY <1>0, <1>2, <2>1 DEF Noting
  <1>7. ASSUME NEW v \in Users, v # u
        PROVE  Paying(v)' = Paying(v) /\ \A i : Noting(v, i)' = Noting(v, i)
    <2>1. Paying(v)' = Paying(v) /\ \A i \in Paying(v) : i # t /\ th'[i] = th[i]
      BY <1>0, <1>1, <1>2, <1>3, <1>7 DEF Paying
    <2> QED BY <1>0, <2>1 DEF Noting
  <1>8. /\ granted'[u] = th[t].current /\ \A v \in Users : v # u => granted'[v] = granted[v]
        /\ \A v \in Users, i \in Servers :
             payments'[v][i] = IF v = u /\ i = s THEN payments[v][i] + 1 ELSE payments[v][i]
    <2>1. \A v \in Users, i \in Servers :
             payments'[v][i] = IF v = u /\ i = s THEN payments[v][i] + 1 ELSE payments[v][i]
      <3>1. CASE s \in Servers
        <4>1. payments' = [payments EXCEPT ![u][s] = @ + 1]
          BY <1>0, <3>1 DEF Pay
        <4> QED BY <1>0, <1>1, <3>1, <4>1 DEF TakeInv, BaseInv, Typed
      <3>2. CASE s \notin Servers
        BY <1>0, <3>2 DEF Pay
      <3> QED BY <3>1, <3>2
    <2> QED BY <1>0, <1>1, <2>1 DEF Pay, TakeInv, BaseInv, Typed
  <1>9. PaidInv'
    <2> SUFFICES ASSUME NEW v \in Users \ lost', NEW i \in Servers
                 PROVE  payments'[v][i] = RecordIn(Current', i, v).sent
                                            + (IF Noting(v, i)' = {} THEN 0 ELSE 1)
      BY DEF PaidInv
    <2>1. payments[v][i] = RecordIn(Current, i, v).sent + (IF Noting(v, i) = {} THEN 0 ELSE 1)
      BY <1>0, <1>1 DEF TakeInv, PaidInv
    <2>2. payments[v][i] \in Nat
      BY DEF TakeInv, BaseInv, Typed
    <2>3. RecordIn(Current, i, v).sent \in Nat
      BY <1>0, <1>1, RecordInType DEF TakeInv, BaseInv, Typed, Current, Records
    <2>4. CASE v # u
      BY <1>0, <1>4, <1>7, <1>8, <2>1, <2>4
    <2>5. CASE v = u /\ i = s
      <3>1. Noting(v, i) = {} /\ Noting(v, i)' # {}
        BY <1>0, <1>5, <1>6, <2>5 DEF Noting
      <3>2. payments'[v][i] = payments[v][i] + 1
        BY <1>0, <1>8, <2>5
      <3> QED BY <1>0, <1>4, <2>1, <2>2, <2>3, <3>1, <3>2
    <2>6. CASE v = u /\ i # s
      <3>1. Noting(v, i) = {} /\ Noting(v, i)' = {}
        BY <1>0, <1>2, <1>5, <1>6, <2>6 DEF Noting
      <3>2. payments'[v][i] = payments[v][i]
        BY <1>0, <1>8, <2>6
      <3> QED BY <1>0, <1>4, <2>1, <3>1, <3>2
    <2> QED BY <2>4, <2>5, <2>6
  <1>10. GrantInv'
    <2>1. ASSUME NEW v \in Followed', Paying(v)' = {}
          PROVE  Due(Current', v, granted'[v])
      <3>1. v \in Followed /\ v \in Users /\ v # u
        BY <1>0, <1>1, <1>6, <2>1 DEF Followed
      <3>2. Paying(v) = {} /\ granted'[v] = granted[v]
        BY <1>0, <1>7, <1>8, <2>1, <3>1
      <3> QED BY <1>0, <1>4, <3>1, <3>2 DEF TakeInv, GrantInv
    <2> QED BY <2>1 DEF GrantInv
  <1>11. Apart'
    BY <1>0, <1>1, <1>2, <1>3, ApartKept DEF TakeInv
  <1>12. ASSUME NEW i \in Threads, th'[i].cmd = "take", th'[i].who \in Followed'
         PROVE  Holds(i)'
    <2>1. th[i].cmd = "take" /\ th'[i].who = th[i].who /\ th[i].who \in Followed
          /\ th[i].who \in Users
      BY <1>0, <1>1, <1>2, <1>3, <1>12 DEF Followed
    <2>2. Holds(i)
      BY <1>0, <2>1 DEF TakeInv, HoldInv
    <2>3. CASE i = t
      BY <1>0, <1>1, <1>2, <1>8, <2>2, <2>3 DEF Holds
    <2>4. CASE i # t
      <3>1. granted'[th[i].who] = granted[th[i].who]
        BY <1>0, <1>1, <1>8, <2>1, <2>4 DEF TakeInv, Apart
      <3> QED BY <1>0, <1>1, <1>3, <2>2, <2>4, <3>1 DEF Holds
    <2> QED BY <2>3, <2>4
  <1>13. HoldInv'
    BY <1>12 DEF HoldInv
  <1> QED BY <1>9, <1>10, <1>11, <1>13 DEF TakeInv

(* A payment whose note throws is lost, and its user is not followed any more. *)
LEMMA NoteThrowsKeeps ==
  ASSUME TakeInv, BaseInv', NEW t \in Threads, NoteThrows(t)
  PROVE  TakeInv'
  <1>1. /\ UNCHANGED <<up, UserList, file, granted, payments, moved>>
        /\ th[t].at = "note" /\ t \in Savers /\ up /\ lost' = lost \cup {th[t].who}
    BY RunsUp, ServerIds DEF NoteThrows, listVars, fileVars, TakeInv
  <1>2. /\ \A i \in Savers \ {t} : th'[i] = th[i]
        /\ th'[t] = Sleeping
    BY <1>1, EndsState DEF NoteThrows, TakeInv, BaseInv
  <1>3. \A i \in Threads : i # t => th'[i] = th[i]
    BY <1>2, ServerIds
  <1>4. Current' = Current
    BY <1>1 DEF Current
  <1>5. ASSUME NEW v \in Users \ lost'
        PROVE  Paying(v)' = Paying(v) /\ \A i : Noting(v, i)' = Noting(v, i)
    <2>1. v # th[t].who
      BY <1>1
    <2>2. Paying(v)' = Paying(v) /\ \A i \in Paying(v) : th'[i] = th[i]
      BY <1>2, <1>3, <2>1, SleepingState DEF Paying
    <2> QED BY <2>2 DEF Noting
  <1>6. PaidInv'
    BY <1>1, <1>4, <1>5, PaidKept DEF TakeInv
  <1>7. \A v \in Followed' : v \in Users \ lost'
    BY DEF Followed
  <1>8. GrantInv'
    BY <1>1, <1>4, <1>5, <1>7, GrantKept DEF TakeInv
  <1>9. Apart'
    BY <1>2, <1>3, SleepingState, ApartKept DEF TakeInv
  <1>10. HoldInv'
    BY <1>1, <1>2, SleepingState, HoldsKept DEF TakeInv
  <1> QED BY <1>6, <1>8, <1>9, <1>10 DEF TakeInv

(* A recorded payment: the first record of its user says when he may take again. *)
LEMMA RecordKeeps ==
  ASSUME TakeInv, BaseInv', NEW t \in Threads, Record(t)
  PROVE  TakeInv'
  <1> DEFINE s == th[t].server
  <1>0. PICK u \in Users : u = th[t].who
    BY DEF Record, TakeInv, BaseInv, ThreadInv
  <1>1. /\ UNCHANGED <<up, file, granted, payments, lost, moved>>
        /\ th[t].at = "note" /\ th[t].cmd = "take" /\ t \in Savers /\ up
    BY RunsUp, ServerIds DEF Record, fileVars, history, TakeInv, BaseInv, ThreadInv
  <1>2. /\ \A i \in Savers \ {t} : th'[i] = th[i]
        /\ th'[t].at = "open" /\ th'[t].cmd = "take" /\ th'[t].who = u
        /\ th'[t].server = s
    BY <1>0, <1>1, GoState DEF Record, Saved, Places, TakeInv, BaseInv
  <1>3. \A i \in Threads : i # t => th'[i] = th[i]
    BY <1>2, ServerIds
  <1>4. Current = UserList /\ Current' = UserList'
    BY <1>1 DEF Current
  <1>5. /\ \A v \in Users, i \in Servers :
             v # u \/ i # s => RecordIn(UserList', i, v) = RecordIn(UserList, i, v)
        /\ s \in Servers =>
             RecordIn(UserList', s, u) = [next |-> th[t].current + Timeout,
                                          sent |-> RecordIn(UserList, s, u).sent + 1]
    BY <1>0, RecordedList DEF TakeInv
  <1>6. Paying(u) = {t} /\ Paying(u)' = {}
    <2>1. Paying(u) = {t}
      BY <1>0, <1>1, PayingTakes DEF TakeInv, Paying
    <2>2. \A i \in Threads : i # t => ~(th'[i].at = "note" /\ th'[i].who = u)
      BY <1>3, <2>1 DEF Paying
    <2> QED BY <1>2, <2>1, <2>2 DEF Paying
  <1>7. ASSUME NEW v \in Users, v # u
        PROVE  Paying(v)' = Paying(v) /\ \A i : Noting(v, i)' = Noting(v, i)
    <2>1. Paying(v)' = Paying(v) /\ \A i \in Paying(v) : i # t /\ th'[i] = th[i]
      BY <1>0, <1>1, <1>2, <1>3, <1>7 DEF Paying
    <2> QED BY <2>1 DEF Noting
  <1>8. PaidInv'
    <2> SUFFICES ASSUME NEW v \in Users \ lost', NEW i \in Servers
                 PROVE  payments'[v][i] = RecordIn(Current', i, v).sent
                                            + (IF Noting(v, i)' = {} THEN 0 ELSE 1)
      BY DEF PaidInv
    <2>1. payments[v][i] = RecordIn(UserList, i, v).sent + (IF Noting(v, i) = {} THEN 0 ELSE 1)
      BY <1>1, <1>4 DEF TakeInv, PaidInv
    <2>2. RecordIn(UserList, i, v).sent \in Nat
      BY RecordInType DEF TakeInv, BaseInv, Typed, Records
    <2>3. CASE v # u
      BY <1>1, <1>4, <1>5, <1>7, <2>1, <2>3
    <2>4. CASE v = u /\ i = s
      <3>1. Noting(v, i) # {} /\ Noting(v, i)' = {}
        BY <1>6, <2>4 DEF Noting
      <3>2. RecordIn(UserList', i, v).sent = RecordIn(UserList, i, v).sent + 1
        BY <1>5, <2>4
      <3> QED BY <1>1, <1>4, <2>1, <2>2, <3>1, <3>2
    <2>5. CASE v = u /\ i # s
      <3>1. Noting(v, i) = {} /\ Noting(v, i)' = {}
        BY <1>6, <2>5 DEF Noting
      <3>2. RecordIn(UserList', i, v) = RecordIn(UserList, i, v)
        BY <1>5, <2>5
      <3> QED BY <1>1, <1>4, <2>1, <3>1, <3>2
    <2> QED BY <2>3, <2>4, <2>5
  <1>9. ASSUME u \in Followed
        PROVE  /\ s \in Servers /\ First(UserList, s, u) /\ granted[u] = th[t].current
               /\ RecordIn(UserList', s, u) # NoRecord /\ First(UserList', s, u)
    <2>1. s \in Servers /\ First(UserList, s, u) /\ granted[u] = th[t].current
      BY <1>0, <1>1, <1>9 DEF TakeInv, HoldInv, Holds
    <2>2. RecordIn(UserList', s, u) # NoRecord
      <3>1. th[t].current + Timeout \in Nat
        BY <1>1, TimeAssumption DEF TakeInv, BaseInv, Typed, ThreadStates
      <3>2. RecordIn(UserList', s, u).next # NoRecord.next
        BY <1>5, <2>1, <3>1 DEF NoRecord
      <3> QED BY <3>2
    <2>3. First(UserList', s, u)
      BY <1>5, <2>1, <2>2 DEF First
    <2> QED BY <2>1, <2>2, <2>3
  <1>10. GrantInv'
    <2> SUFFICES ASSUME NEW v \in Followed, Paying(v)' = {}
                 PROVE  Due(UserList', v, granted[v])
      BY <1>1, <1>4 DEF GrantInv, Followed
    <2>1. v \in Users /\ granted[v] \in Int
      BY DEF Followed, TakeInv, BaseInv, Typed
    <2>2. CASE v # u
      <3>1. Due(UserList, v, granted[v])
        BY <1>4, <1>7, <2>1, <2>2 DEF TakeInv, GrantInv
      <3> QED BY <1>5, <2>1, <2>2, <3>1, SameFirst
    <2>3. CASE v = u
      <3>1. ASSUME NEW i \in Servers, First(UserList', i, u) PROVE i = s
        <4>1. s <= i /\ i <= s
          BY <1>9, <2>3, <3>1 DEF First
        <4>2. s \in Nat /\ i \in Nat
          BY <1>9, <2>3, ServerIds
        <4> QED BY <4>1, <4>2
      <3>2. granted[u] + Timeout <= RecordIn(UserList', s, u).next
        BY <1>5, <1>9, <2>1, <2>3, TimeAssumption
      <3>3. ~Nowhere(UserList', u)
        BY <1>9, <2>3 DEF Nowhere
      <3> QED BY <2>3, <3>1, <3>2, <3>3 DEF Due
    <2> QED BY <2>2, <2>3
  <1>11. Apart'
    BY <1>0, <1>1, <1>2, <1>3, ApartKept DEF TakeInv
  <1>12. ASSUME NEW i \in Threads, th'[i].cmd = "take", th'[i].who \in Followed'
         PROVE  Holds(i)'
    <2>1. /\ th[i].cmd = "take" /\ th'[i].who = th[i].who /\ th'[i].server = th[i].server
          /\ th[i].who \in Followed /\ th[i].who \in Users
      BY <1>0, <1>1, <1>2, <1>3, <1>12 DEF Followed
    <2>2. Holds(i)
      BY <2>1 DEF TakeInv, HoldInv
    <2>3. CASE i = t
      <3>1. s # Freed
        BY <1>0, <1>9, <2>1, <2>3, ServerIds DEF Freed
      <3> QED BY <1>0, <1>2, <1>9, <2>1, <2>3, <3>1 DEF Holds
    <2>4. CASE i # t
      <3>1. th[i].who # u
        BY <1>0, <1>1, <2>1, <2>4 DEF TakeInv, Apart
      <3>2. \A k \in Servers : RecordIn(UserList', k, th[i].who) = RecordIn(UserList, k, th[i].who)
        BY <1>5, <2>1, <3>1
      <3>3. \A k \in Servers : First(UserList', k, th[i].who) <=> First(UserList, k, th[i].who)
        BY <3>2, SameFirst
      <3> QED BY <1>1, <1>3, <2>2, <2>4, <3>3 DEF Holds
    <2> QED BY <2>3, <2>4
  <1>13. HoldInv'
    BY <1>12 DEF HoldInv
  <1> QED BY <1>8, <1>10, <1>11, <1>13 DEF TakeInv

(* A READY: for those who lost nothing, the file's list is the one that there was. *)
LEMMA OnReadyKeeps ==
  ASSUME TakeInv, BaseInv', NEW s \in Servers, NEW names, OnReady(s, names)
  PROVE  TakeInv'
  <1>1. /\ UNCHANGED <<granted, payments>> /\ up' = TRUE /\ lost \subseteq lost'
        /\ UserList' = Refreshed(file.list, s, names)
        /\ moved' = moved \cup Ahead(file.list, UserList')
        /\ up => Differ(file.list) \cup Of(Holders) \subseteq lost'
    BY DEF OnReady
  <1>2. Current' = UserList'
    BY <1>1 DEF Current
  <1>3. IsList(file.list) /\ IsList(UserList') /\ Grown(file.list, UserList')
    BY <1>1, RefreshedList DEF TakeInv, BaseInv, Typed
  <1>4. \A t \in Threads :
          /\ th'[t].at = th[t].at /\ th'[t].cmd = th[t].cmd /\ th'[t].who = th[t].who
          /\ th'[t].server = IF t \in Holders THEN Freed ELSE th[t].server
    BY OnReadyState DEF TakeInv
  <1>5. \A u : Paying(u)' = Paying(u)
    BY <1>4 DEF Paying
  <1>6. ASSUME NEW t \in Threads, th[t].cmd = "take", th[t].who \notin lost'
        PROVE  th[t].server \notin Servers /\ th'[t].server = th[t].server
    <2>1. up
      BY <1>6 DEF TakeInv, BaseInv, ThreadInv, Savers
    <2>2. t \notin Holders
      BY <1>1, <1>6, <2>1 DEF Of
    <2> QED BY <1>4, <1>6, <2>2 DEF Holders
  <1>7. ASSUME NEW u \in Users \ lost', NEW i \in Servers
        PROVE  /\ RecordIn(file.list, i, u) = RecordIn(Current, i, u)
               /\ Noting(u, i)' = {} /\ Noting(u, i) = {}
    <2>1. RecordIn(file.list, i, u) = RecordIn(Current, i, u)
      BY <1>1 DEF Current, Differ
    <2>2. \A t \in Paying(u) : th[t].server \notin Servers /\ th'[t].server = th[t].server
      BY <1>6 DEF Paying, TakeInv, BaseInv, ThreadInv
    <2> QED BY <1>5, <2>1, <2>2 DEF Noting
  <1>8. PaidInv' /\ GrantInv'
    BY <1>1, <1>2, <1>3, <1>5, <1>7, GrowKeeps
  <1>9. Apart'
    BY <1>4, ApartKept DEF TakeInv
  <1>10. ASSUME NEW t \in Threads, th'[t].cmd = "take", th'[t].who \in Followed'
         PROVE  Holds(t)'
    <2>1. /\ th[t].cmd = "take" /\ th[t].who \in Followed /\ th[t].who \notin lost'
          /\ th'[t].at = th[t].at
      BY <1>1, <1>4, <1>10 DEF Followed
    <2>2. th[t].server \notin Servers /\ th'[t].server = th[t].server
      BY <1>6, <2>1
    <2>3. Holds(t)
      BY <2>1 DEF TakeInv, HoldInv
    <2> QED BY <2>1, <2>2, <2>3 DEF Holds, Saving
  <1>11. HoldInv'
    BY <1>10 DEF HoldInv
  <1> QED BY <1>8, <1>9, <1>11 DEF TakeInv

LEMMA RefreshKeeps ==
  ASSUME TakeInv, BaseInv', NEW s \in Servers, NEW names, Refresh(s, names)
  PROVE  TakeInv'
  <1>1. /\ UNCHANGED <<up, granted, payments, lost>> /\ moved \subseteq moved'
        /\ UserList' = Refreshed(UserList, s, names)
        /\ moved' = moved \cup Ahead(UserList, UserList')
        /\ up /\ Socket \in Savers
    BY RunsUp, ServerIds DEF Refresh, TakeInv
  <1>2. Current = UserList /\ Current' = UserList'
    BY <1>1 DEF Current
  <1>3. IsList(UserList) /\ IsList(UserList') /\ Grown(UserList, UserList')
    BY <1>1, RefreshedList DEF TakeInv, BaseInv, Typed
  <1>4. \A t \in Threads : th'[t] = th[t]
    <2>1. \A t \in Savers \ {Socket} : th'[t] = th[t]
      BY <1>1, OpenState DEF Refresh, TakeInv, BaseInv
    <2> QED BY <2>1, ServerIds
  <1>5. \A u : Paying(u)' = Paying(u) /\ \A i : Noting(u, i)' = Noting(u, i)
    BY <1>4, SamePaying
  <1>6. PaidInv' /\ GrantInv'
    BY <1>1, <1>2, <1>3, <1>5, GrowKeeps
  <1>7. Apart'
    BY <1>4, ApartKept DEF TakeInv
  <1>8. ASSUME NEW t \in Threads, th'[t].cmd = "take", th'[t].who \in Followed'
        PROVE  Holds(t)'
    <2>1. /\ Holds(t) /\ th'[t] = th[t] /\ th[t].who \in Users
          /\ th[t].who \notin Ahead(UserList, UserList')
      BY <1>1, <1>4, <1>8 DEF TakeInv, HoldInv, Followed
    <2>2. th[t].server \in Servers => First(UserList', th[t].server, th[t].who)
      BY <1>3, <2>1, GrownFirst DEF Holds
    <2> QED BY <1>1, <2>1, <2>2 DEF Holds
  <1>9. HoldInv'
    BY <1>8 DEF HoldInv
  <1> QED BY <1>6, <1>7, <1>9 DEF TakeInv

(* A stop: who is not lost has in the file what he had in the list, and no command runs. *)
LEMMA StopsKeeps ==
  ASSUME TakeInv, BaseInv', up, Stops
  PROVE  TakeInv'
  <1>1. /\ UNCHANGED <<file, granted, payments, moved>> /\ up' = FALSE
        /\ lost' = lost \cup Differ(file.list) \cup Of(Unrecorded)
        /\ th' = [t \in Savers |-> Sleeping]
    BY DEF Stops
  <1>2. \A t \in Threads : th'[t] = Sleeping
    BY <1>1, ServerIds
  <1>3. \A u : Paying(u)' = {} /\ \A i : Noting(u, i)' = {}
    BY <1>2, SleepingState DEF Paying, Noting
  <1>4. ASSUME NEW u \in Users \ lost'
        PROVE  /\ Paying(u) = {} /\ \A i : Noting(u, i) = {}
               /\ \A s \in Servers : RecordIn(Current', s, u) = RecordIn(Current, s, u)
    <2>1. Paying(u) = {}
      BY <1>1 DEF Paying, Of, Unrecorded
    <2>2. \A s \in Servers : RecordIn(Current', s, u) = RecordIn(Current, s, u)
      BY <1>1 DEF Current, Differ
    <2> QED BY <2>1, <2>2 DEF Noting
  <1>5. PaidInv'
    BY <1>1, <1>3, <1>4, PaidKept DEF TakeInv
  <1>6. ASSUME NEW u \in Followed', Due(Current, u, granted[u])
        PROVE  Due(Current', u, granted[u])
    <2>1. u \in Users \ lost' /\ granted[u] \in Int
      BY DEF Followed, TakeInv, BaseInv, Typed
    <2> QED BY <1>4, <1>6, <2>1, SameFirst
  <1>7. \A u \in Followed' : u \in Users \ lost'
    BY DEF Followed
  <1>8. GrantInv'
    BY <1>1, <1>4, <1>6, <1>7, GrantKept DEF TakeInv
  <1>9. Apart' /\ HoldInv'
    BY <1>2, SleepingState DEF Apart, HoldInv
  <1> QED BY <1>5, <1>8, <1>9 DEF TakeInv

LEMMA AroundKeeps ==
  ASSUME TakeInv, BaseInv', UNCHANGED <<up, UserList, file, history>>,
         \A t \in Threads : th'[t] = th[t]
  PROVE  TakeInv'
  <1>1. PaidInv' /\ GrantInv'
    BY QuietKeeps DEF history
  <1>2. Apart' /\ HoldInv'
    BY DEF TakeInv, Apart, HoldInv, Holds, Followed, history
  <1> QED BY <1>1, <1>2 DEF TakeInv

LEMMA TakeInit == Init => TakeInv
  <1> SUFFICES ASSUME Init PROVE TakeInv
    OBVIOUS
  <1>1. BaseInv
    BY BaseInit
  <1>2. \A t \in Threads : th[t] = Sleeping
    BY ServerIds DEF Init
  <1>3. \A u : Paying(u) = {} /\ \A s : Noting(u, s) = {}
    BY <1>2, SleepingState DEF Paying, Noting
  <1>4. \A u, s : RecordIn(Current, s, u) = NoRecord
    BY NoListsIsList DEF Init, Current, RecordIn
  <1>5. PaidInv
    BY <1>3, <1>4, RecordTypes DEF Init, PaidInv
  <1>6. GrantInv
    BY <1>3, <1>4 DEF Init, GrantInv, Followed, Due, First
  <1>7. Apart /\ HoldInv
    BY <1>2, SleepingState DEF Apart, HoldInv
  <1> QED BY <1>1, <1>5, <1>6, <1>7 DEF TakeInv

LEMMA TakeStep ==
  ASSUME Patient, TakeInv, [Next]_vars
  PROVE  TakeInv'
  <1>0. BaseInv'
    BY BaseStep DEF TakeInv
  <1>1. CASE Tick \/ ToggleFaucet \/ UNCHANGED vars
    BY <1>0, <1>1, AroundKeeps DEF Tick, ToggleFaucet, vars, listVars, fileVars
  <1>2. ASSUME NEW t \in Threads, Command(t) PROVE TakeInv'
    BY <1>0, <1>2, FindKeeps, AskCheckKeeps, AddKeeps, RefusedKeeps, PayKeeps, NoteThrowsKeeps,
       RecordKeeps DEF Command
  <1>3. ASSUME NEW t \in Threads, NEW u \in Users, Take(t, u) \/ Look(t, u) PROVE TakeInv'
    BY <1>0, <1>3, TakeKeeps
  <1>4. ASSUME NEW t \in Savers, Save(t) PROVE TakeInv'
    BY <1>0, <1>4, SaveKeeps
  <1>5. ASSUME NEW s \in Servers, NEW names, OnReady(s, names) \/ Refresh(s, names) PROVE TakeInv'
    BY <1>0, <1>5, OnReadyKeeps, RefreshKeeps
  <1>6. CASE ReadyEnds
    <2>1. \A t \in Threads : th'[t] = th[t]
      BY <1>6, ServerIds, EndsState DEF ReadyEnds, TakeInv, BaseInv
    <2> QED BY <1>0, <1>6, <2>1, AroundKeeps DEF ReadyEnds, listVars, fileVars
  <1>7. CASE Shutdown \/ Crash
    BY <1>0, <1>7, StopsKeeps DEF Shutdown, Crash
  <1> QED BY <1>1, <1>2, <1>3, <1>4, <1>5, <1>6, <1>7 DEF Next

LEMMA TakeAlways == ASSUME Patient PROVE Spec => []TakeInv
  <1>1. TakeInv /\ [Next]_vars => TakeInv'
    BY TakeStep
  <1> QED BY <1>1, TakeInit, PTL DEF Spec

(* Each record of a user holds the payments that were made by it, in every server's list, as
   long as nobody has two !takes running and none of his was lost. *)
THEOREM RecordsHoldPayments == ASSUME Patient PROVE Spec => []SentAddsUp
  <1>1. TakeInv => SentAddsUp
    <2> SUFFICES ASSUME TakeInv, up, NEW u \in Users \ (lost \cup Of(Unrecorded)),
                        NEW s \in Servers
                 PROVE  RecordIn(UserList, s, u).sent = payments[u][s]
      BY DEF SentAddsUp
    <2>1. Noting(u, s) = {}
      BY DEF Noting, Paying, Of, Unrecorded
    <2>2. payments[u][s] = RecordIn(UserList, s, u).sent + 0
      BY <2>1 DEF TakeInv, PaidInv, Current
    <2>3. RecordIn(UserList, s, u).sent \in Nat
      BY RecordInType DEF TakeInv, BaseInv, Typed, Records
    <2> QED BY <2>2, <2>3
  <1> QED BY <1>1, TakeAlways, PTL

(* One payment per timeout, for every user whose record was neither lost nor hidden, if he
   waits for the answer to one !take before he gives the next. *)
THEOREM OneTakeEach == ASSUME Patient PROVE Spec => OneTakePerTimeout
  <1>1. ASSUME TakeInv, [Next]_vars, NEW u \in Users \ (lost \cup moved),
               granted'[u] # granted[u]
        PROVE  granted'[u] > granted[u] + Timeout
    <2>1. Next
      BY <1>1 DEF vars, history
    <2>2. PICK t \in Threads : Pay(t) /\ th[t].who = u
      BY <1>1, <2>1, WhoIsPaid DEF TakeInv
    <2>3. th[t].cmd = "take" /\ th[t].at = "pay"
      BY <1>1, <2>2 DEF Pay, TakeInv, BaseInv, ThreadInv
    <2>4. granted[u] + Timeout < th[t].current
      BY <1>1, <2>2, <2>3 DEF TakeInv, HoldInv, Holds, Followed
    <2>5. granted'[u] = th[t].current
      BY <1>1, <2>2 DEF Pay, TakeInv, BaseInv, Typed
    <2>6. granted[u] \in Int /\ th[t].current \in Int
      BY <1>1 DEF TakeInv, BaseInv, Typed, ThreadStates, Savers
    <2> QED BY <2>4, <2>5, <2>6, TimeAssumption
  <1>2. TakeInv /\ [Next]_vars
          => [\A u \in Users \ (lost \cup moved) :
                granted'[u] # granted[u] => granted'[u] > granted[u] + Timeout]_vars
    BY <1>1
  <1> QED BY <1>2, TakeAlways, PTL DEF Spec, OneTakePerTimeout

=============================================================================
