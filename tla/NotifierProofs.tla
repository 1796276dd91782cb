--------------------------- MODULE NotifierProofs ---------------------------
(***************************************************************************)
(* Whom the background thread tells of what, proved for any users, payments *)
(* and blocks, and for every combination of failures but one.               *)
(***************************************************************************)
EXTENDS Notifier, WellFoundedInduction, FiniteSetTheorems, TLAPS

(* All these transfers went to wallet w. *)
Own(list, w) == \A x \in list : x[1] \in Payments /\ To[x[1]] = w

(* A wallet, and what is stored of it, holds transfers to its owner; an entry has its own
   user's wallet, and in its list that wallet's transfers. *)
EntriesOwn ==
    \A u \in Users :
        /\ Own(stored[u], u)
        /\ entry[u].wallet \in {u, Nobody}
        /\ Own(entry[u].seen, entry[u].wallet)
        /\ Own(entry[u].known, u)

(* What a pass is about to tell went to the user it visits, and nothing is left over from
   the user before. *)
PassOwn ==
    /\ pass.todo \subseteq Users
    /\ pass.at \in {"tell", "store"} => pass.who \in Users
    /\ pass.at \in {"idle", "visit"} => pass.diff = {}
    /\ pass.at = "tell" => Own(pass.unsent, pass.who)
    /\ pass.at = "visit" => pass.todo # {}
    /\ pass.at \in {"idle", "visit", "tell", "store"}

EntryFields == {"in", "alive", "wallet", "seen", "known"}
PassFields == {"at", "todo", "who", "diff", "unsent"}

Shape ==
    /\ DOMAIN entry = Users /\ DOMAIN stored = Users
    /\ \A u \in Users : DOMAIN entry[u] = EntryFields
    /\ DOMAIN pass = PassFields
    /\ DOMAIN told = Users /\ \A u \in Users : DOMAIN told[u] = Payments

OwnInv ==
    /\ Shape
    /\ "setup" \notin amiss => EntriesOwn /\ PassOwn /\ ToldOfOwn

-----------------------------------------------------------------------------

LEMMA EntryParts ==
  /\ DOMAIN NoEntry = EntryFields /\ DOMAIN Launched = EntryFields
  /\ NoEntry.wallet = Nobody /\ NoEntry.seen = {} /\ NoEntry.known = {}
  /\ Launched.wallet = Nobody /\ Launched.seen = {} /\ Launched.known = {}
  BY DEF NoEntry, Launched, EntryFields

LEMMA PassParts ==
  /\ DOMAIN IdlePass = PassFields /\ IdlePass.at = "idle"
  /\ IdlePass.todo = {} /\ IdlePass.diff = {} /\ IdlePass.unsent = {}
  BY DEF IdlePass, PassFields

LEMMA Below ==
  ASSUME NEW x \in Nat, NEW y \in Nat, y < x
  PROVE  <<y, x>> \in OpToRel(<, Nat)
  <1>1. <<y, x>> \in {ss \in Nat \X Nat : ss[1] < ss[2]}
    OBVIOUS
  <1> QED BY <1>1 DEF OpToRel

LEMMA FirstUser == ASSUME NEW S \in SUBSET Users, S # {} PROVE Min(S) \in S
  <1>1. \E x \in S : \A y \in S : ~ (<<y, x>> \in OpToRel(<, Nat))
    BY UsersAssumption, WFMin, NatLessThanWellFounded
  <1>2. \A x, y \in Nat : y < x => <<y, x>> \in OpToRel(<, Nat)
    BY Below
  <1>3. \E x \in S : \A y \in S : ~ (y < x)
    BY <1>1, <1>2, UsersAssumption
  <1>4. \A x, y \in Nat : ~ (y < x) => x <= y
    OBVIOUS
  <1>5. PICK x \in S : \A y \in S : x <= y
    BY <1>3, <1>4, UsersAssumption
  <1> QED BY <1>5 DEF Min

LEMMA ChainOwn == \A w : Own(OnChain(w), w)
  BY DEF Own, OnChain, Payments

LEMMA OwnRules ==
  \A w : Own({}, w) /\ \A S, T : Own(S, w) /\ T \subseteq S => Own(T, w)
  BY DEF Own

LEMMA OwnInit == Init => OwnInv
  <1> SUFFICES ASSUME Init PROVE OwnInv
    OBVIOUS
  <1>1. Shape
    BY EntryParts, PassParts DEF Init, Shape
  <1>2. EntriesOwn
    BY EntryParts, OwnRules DEF Init, EntriesOwn
  <1>3. PassOwn
    BY PassParts DEF Init, PassOwn
  <1>4. ToldOfOwn
    BY DEF Init, ToldOfOwn
  <1> QED BY <1>1, <1>2, <1>3, <1>4 DEF OwnInv

(* One entry is set up or refreshed; others may go. *)
LEMMA EntryChanges ==
  ASSUME OwnInv, NEW u \in Users, UNCHANGED <<stored, pass, told>>,
         "setup" \in amiss => "setup" \in amiss',
         DOMAIN entry' = Users, \A v \in Users \ {u} : entry'[v] \in {entry[v], NoEntry},
         DOMAIN entry'[u] = EntryFields,
         "setup" \notin amiss' => /\ entry'[u].wallet \in {u, Nobody}
                                 /\ Own(entry'[u].seen, entry'[u].wallet)
                                 /\ Own(entry'[u].known, u)
  PROVE  OwnInv'
  <1>1. Shape'
    BY EntryParts DEF OwnInv, Shape
  <1> SUFFICES ASSUME "setup" \notin amiss' PROVE EntriesOwn' /\ PassOwn' /\ ToldOfOwn'
    BY <1>1 DEF OwnInv
  <1>2. EntriesOwn /\ PassOwn /\ ToldOfOwn
    BY DEF OwnInv
  <1>3. EntriesOwn'
    BY <1>2, EntryParts, OwnRules DEF EntriesOwn
  <1>4. PassOwn' /\ ToldOfOwn'
    BY <1>2 DEF PassOwn, ToldOfOwn
  <1> QED BY <1>3, <1>4

(* The pass goes on, and nobody is told anything. *)
LEMMA PassChanges ==
  ASSUME OwnInv, UNCHANGED <<entry, told>>, DOMAIN stored' = Users,
         "setup" \in amiss => "setup" \in amiss',
         DOMAIN pass' = PassFields,
         "setup" \notin amiss /\ EntriesOwn /\ PassOwn =>
             PassOwn' /\ \A w \in Users : Own(stored'[w], w)
  PROVE  OwnInv'
  <1>1. Shape'
    BY DEF OwnInv, Shape
  <1> SUFFICES ASSUME "setup" \notin amiss' PROVE EntriesOwn' /\ PassOwn' /\ ToldOfOwn'
    BY <1>1 DEF OwnInv
  <1>2. EntriesOwn /\ PassOwn /\ ToldOfOwn
    BY DEF OwnInv
  <1> QED BY <1>2 DEF EntriesOwn, ToldOfOwn

LEMMA GoesOn ==
  ASSUME NEW p, DOMAIN p = PassFields, p.todo \subseteq Users, p.diff = {}, pass' = GoOn(p)
  PROVE  DOMAIN pass' = PassFields /\ PassOwn'
  <1>1. CASE p.todo = {}
    BY <1>1, PassParts DEF GoOn, PassOwn
  <1>2. CASE p.todo # {}
    <2>1. /\ DOMAIN pass' = PassFields /\ pass'.at = "visit"
          /\ pass'.todo = p.todo /\ pass'.diff = p.diff
      BY <1>2 DEF GoOn, PassFields
    <2> QED BY <1>2, <2>1 DEF PassOwn
  <1> QED BY <1>1, <1>2

LEMMA PassEnds == ASSUME pass' = IdlePass PROVE DOMAIN pass' = PassFields /\ PassOwn'
  BY PassParts DEF PassOwn

LEMMA StoredOwn ==
  ASSUME OwnInv, "setup" \notin amiss, NEW S \in SUBSET Users
  PROVE  \A w \in Users : Own(Stored(S)[w], w)
  <1>1. SUFFICES ASSUME NEW w \in Users PROVE Own(Stored(S)[w], w)
    OBVIOUS
  <1> DEFINE by == {u \in S : entry[u].wallet = w}
  <1>2. Stored(S)[w] = IF by = {} THEN stored[w] ELSE UNION {entry[u].seen : u \in by}
    BY DEF Stored
  <1>3. Own(stored[w], w)
    BY DEF OwnInv, EntriesOwn
  <1>4. \A u \in by : Own(entry[u].seen, w)
    BY DEF OwnInv, EntriesOwn
  <1> HIDE DEF by
  <1>5. Own(UNION {entry[u].seen : u \in by}, w)
    BY <1>4 DEF Own
  <1> QED BY <1>2, <1>3, <1>5

LEMMA StoredDomain == \A S : DOMAIN Stored(S) = Users
  BY DEF Stored

-----------------------------------------------------------------------------
(* Entries. *)

LEMMA CompleteOwn ==
  ASSUME OwnInv, NEW u \in Users, NEW before, NEW e \in Complete(u, before)
  PROVE  /\ DOMAIN e = EntryFields
         /\ "setup" \notin amiss => /\ e.wallet = u
                                    /\ Own(e.seen, u) /\ Own(e.known, u)
  <1>1. PICK found \in {stored[u], OnChain(u)} :
          e = [Launched EXCEPT !.wallet = u, !.seen = found, !.known = found]
    BY DEF Complete, FreshList
  <1>2. DOMAIN e = EntryFields /\ e.wallet = u /\ e.seen = found /\ e.known = found
    BY <1>1 DEF Launched, NoEntry, EntryFields
  <1>3. "setup" \notin amiss => Own(found, u)
    BY ChainOwn DEF OwnInv, EntriesOwn
  <1> QED BY <1>2, <1>3

LEMMA IncompleteShape ==
  ASSUME NEW u, NEW before, DOMAIN before = EntryFields, NEW e \in Incomplete(u, before)
  PROVE  DOMAIN e = EntryFields
  BY EntryParts DEF Incomplete, EntryFields

LEMMA SetUpKeeps ==
  ASSUME OwnInv, NEW u \in Users, NEW before, DOMAIN before = EntryFields, NEW others,
         SetUp(u, before, others)
  PROVE  OwnInv'
  <1>1. PICK e \in Complete(u, before) \cup Incomplete(u, before) :
          /\ entry' = [v \in Users |-> IF v = u THEN e
                                       ELSE IF v \in others THEN NoEntry ELSE entry[v]]
          /\ \/ e \in Complete(u, before) /\ UNCHANGED amiss
             \/ e \in Incomplete(u, before) /\ Strikes("setup")
    BY DEF SetUp
  <1>2. UNCHANGED <<stored, pass, told>>
    BY DEF SetUp
  <1>3. DOMAIN e = EntryFields
    BY <1>1, CompleteOwn, IncompleteShape
  <1>4. "setup" \in amiss => "setup" \in amiss'
    BY <1>1 DEF Strikes
  <1>5. "setup" \notin amiss' => e.wallet = u /\ Own(e.seen, u) /\ Own(e.known, u)
    BY <1>1, CompleteOwn DEF Strikes
  <1>6. /\ DOMAIN entry' = Users /\ entry'[u] = e
        /\ \A v \in Users \ {u} : entry'[v] \in {entry[v], NoEntry}
    BY <1>1
  <1> QED BY <1>2, <1>3, <1>4, <1>5, <1>6, EntryChanges

LEMMA RestartedShape == ASSUME OwnInv, NEW u \in Users PROVE DOMAIN Restarted(u) = EntryFields
  BY DEF Restarted, OwnInv, Shape, EntryFields

LEMMA SettersKeep ==
  ASSUME OwnInv, NEW u \in Users, NEW old \in Users,
         SpinUp(u) \/ TakeOver(u, old) \/ WatchDog(u)
  PROVE  OwnInv'
  BY SetUpKeeps, EntryParts, RestartedShape DEF SpinUp, TakeOver, WatchDog, OwnInv, Shape

LEMMA RestartWalletKeeps == ASSUME OwnInv, NEW u \in Users, RestartWallet(u) PROVE OwnInv'
  <1>1. PICK e \in Complete(u, Restarted(u)) : entry' = [entry EXCEPT ![u] = e]
    BY DEF RestartWallet
  <1>2. UNCHANGED <<stored, pass, told>> /\ amiss \subseteq amiss'
    BY DEF RestartWallet, Strikes
  <1>3. DOMAIN entry' = Users /\ entry'[u] = e /\ \A v \in Users \ {u} : entry'[v] = entry[v]
    BY <1>1 DEF OwnInv, Shape
  <1> QED BY <1>1, <1>2, <1>3, CompleteOwn, EntryChanges

LEMMA LosersKeep ==
  ASSUME OwnInv, NEW u \in Users, NEW old \in Users, TakeOverDead(u, old) \/ CheckAborts(u)
  PROVE  OwnInv'
  <1>1. PICK v \in Users : entry' = [entry EXCEPT ![v] = NoEntry]
    BY DEF TakeOverDead, CheckAborts
  <1>2. UNCHANGED <<stored, pass, told, amiss>>
    BY DEF TakeOverDead, CheckAborts, historyVars
  <1>3. DOMAIN entry' = Users /\ entry'[v] = NoEntry /\ \A w \in Users \ {v} : entry'[w] = entry[w]
    BY <1>1 DEF OwnInv, Shape
  <1> QED BY <1>2, <1>3, EntryParts, OwnRules, EntryChanges

LEMMA ProcessKeeps ==
  ASSUME OwnInv, NEW u \in Users, Refresh(u) \/ Crash(u)
  PROVE  OwnInv'
  <1>1. UNCHANGED <<stored, pass, told>> /\ amiss \subseteq amiss'
    BY DEF Refresh, Crash, Strikes, historyVars
  <1>2. /\ DOMAIN entry' = Users /\ \A v \in Users \ {u} : entry'[v] = entry[v]
        /\ DOMAIN entry'[u] = EntryFields /\ entry'[u].known = entry[u].known
        /\ \/ entry'[u].wallet = entry[u].wallet /\ entry'[u].seen = OnChain(entry[u].wallet)
           \/ entry'[u].wallet = Nobody /\ entry'[u].seen = {}
    BY DEF Refresh, Crash, OwnInv, Shape, EntryFields
  <1>3. "setup" \notin amiss' => entry[u].wallet \in {u, Nobody} /\ Own(entry[u].known, u)
    BY <1>1 DEF OwnInv, EntriesOwn
  <1> QED BY <1>1, <1>2, <1>3, ChainOwn, OwnRules, EntryChanges

LEMMA SaveWalletsKeeps == ASSUME OwnInv, SaveWallets PROVE OwnInv'
  <1>1. UNCHANGED <<entry, pass, told>> /\ amiss \subseteq amiss'
    BY DEF SaveWallets, Strikes, historyVars
  <1>2. PICK S \in SUBSET Users : stored' = Stored(S)
    BY DEF SaveWallets, Answering, Entries
  <1>3. DOMAIN stored' = Users /\ ("setup" \notin amiss => \A w \in Users : Own(stored'[w], w))
    BY <1>2, StoredDomain, StoredOwn
  <1>4. DOMAIN pass' = PassFields /\ (PassOwn => PassOwn')
    BY <1>1 DEF OwnInv, Shape, PassOwn
  <1> QED BY <1>1, <1>3, <1>4, PassChanges

LEMMA RebootKeeps == ASSUME OwnInv, Reboot PROVE OwnInv'
  <1>1. /\ entry' = [u \in Users |-> NoEntry] /\ pass' = IdlePass
        /\ UNCHANGED told /\ amiss \subseteq amiss'
    BY DEF Reboot, Strikes, historyVars
  <1>2. stored' \in {stored, Stored(Answering)} /\ Answering \subseteq Users
    BY DEF Reboot, Answering, Entries
  <1>3. DOMAIN stored' = Users /\ ("setup" \notin amiss => \A w \in Users : Own(stored'[w], w))
    BY <1>2, StoredDomain, StoredOwn DEF OwnInv, Shape, EntriesOwn
  <1>4. Shape'
    BY <1>1, <1>3, EntryParts, PassParts DEF OwnInv, Shape
  <1>5. "setup" \notin amiss' => EntriesOwn' /\ PassOwn' /\ ToldOfOwn'
    BY <1>1, <1>3, EntryParts, OwnRules, PassEnds DEF OwnInv, EntriesOwn, ToldOfOwn
  <1> QED BY <1>4, <1>5 DEF OwnInv

-----------------------------------------------------------------------------
(* The pass. *)

LEMMA BeginKeeps == ASSUME OwnInv, Begin PROVE OwnInv'
  <1>1. UNCHANGED <<entry, stored, told, amiss>> /\ Entries # {} /\ Entries \subseteq Users
    BY DEF Begin, historyVars, Entries
  <1>2. /\ DOMAIN pass' = PassFields /\ pass'.at = "visit"
        /\ pass'.todo = Entries /\ pass'.diff = {}
    BY DEF Begin, IdlePass, PassFields
  <1>3. PassOwn'
    BY <1>1, <1>2 DEF PassOwn
  <1> QED BY <1>1, <1>2, <1>3, PassChanges DEF OwnInv, Shape, EntriesOwn

LEMMA EndersKeep == ASSUME OwnInv, VisitThrows \/ StoreThrows PROVE OwnInv'
  <1>1. UNCHANGED <<entry, stored, told>> /\ amiss \subseteq amiss' /\ pass' = IdlePass
    BY DEF VisitThrows, StoreThrows, Strikes, historyVars
  <1> QED BY <1>1, PassEnds, PassChanges DEF OwnInv, Shape, EntriesOwn

(* The list an entry gets when it is visited is the one of its own wallet. *)
LEMMA VisitKeeps == ASSUME OwnInv, Visit PROVE OwnInv'
  <1> DEFINE new == entry[Visited].seen
  <1>1. PICK d \in Differences(new, entry[Visited].known) :
          LET diff == pass.diff \cup d
              p == [pass EXCEPT !.todo = @ \ {Visited}, !.who = Visited, !.diff = diff,
                                !.unsent = diff]
          IN  pass' = IF diff = {} THEN GoOn(p) ELSE [p EXCEPT !.at = "tell"]
    BY DEF Visit
  <1> DEFINE diff == pass.diff \cup d
             p == [pass EXCEPT !.todo = @ \ {Visited}, !.who = Visited, !.diff = diff,
                               !.unsent = diff]
  <1>2. /\ entry' = [entry EXCEPT ![Visited].known = new]
        /\ UNCHANGED <<stored, told, amiss>> /\ pass.at = "visit" /\ Answers(Visited)
    BY DEF Visit, historyVars
  <1>3. /\ DOMAIN p = PassFields /\ p.todo = pass.todo \ {Visited} /\ p.who = Visited
        /\ p.diff = diff /\ p.unsent = diff
    BY DEF OwnInv, Shape, PassFields
  <1>4. pass' = IF diff = {} THEN GoOn(p) ELSE [p EXCEPT !.at = "tell"]
    BY <1>1
  <1>5. d \subseteq new
    BY DEF Differences
  <1> HIDE DEF p
  <1>6. DOMAIN pass' = PassFields
    <2>1. DOMAIN IdlePass = PassFields /\ DOMAIN GoOn(p) = PassFields
      BY <1>3, PassParts DEF GoOn
    <2> QED BY <1>3, <1>4, <2>1
  <1>7. Shape'
    BY <1>2, <1>6 DEF OwnInv, Shape, EntryFields
  <1> SUFFICES ASSUME "setup" \notin amiss' PROVE EntriesOwn' /\ PassOwn' /\ ToldOfOwn'
    BY <1>7 DEF OwnInv
  <1>8. EntriesOwn /\ PassOwn /\ ToldOfOwn
    BY <1>2 DEF OwnInv
  <1>9. Visited \in Users /\ entry[Visited].wallet = Visited
    BY <1>2, <1>8, FirstUser DEF PassOwn, Visited, EntriesOwn, Answers
  <1>10. Own(new, Visited) /\ pass.diff = {} /\ Own(diff, Visited)
    BY <1>2, <1>5, <1>8, <1>9, OwnRules DEF EntriesOwn, PassOwn
  <1>11. /\ \A u \in Users : /\ entry'[u].wallet = entry[u].wallet /\ entry'[u].seen = entry[u].seen
                              /\ u # Visited => entry'[u].known = entry[u].known
         /\ entry'[Visited].known = new
    BY <1>2, <1>9 DEF OwnInv, Shape, EntryFields
  <1>12. EntriesOwn'
    BY <1>2, <1>8, <1>10, <1>11 DEF EntriesOwn
  <1>13. PassOwn'
    <2>1. CASE diff = {}
      BY <1>3, <1>4, <1>8, <2>1, GoesOn DEF PassOwn
    <2>2. CASE diff # {}
      <3>1. /\ pass'.at = "tell" /\ pass'.todo = p.todo /\ pass'.who = Visited
            /\ pass'.unsent = diff
        BY <1>3, <1>4, <2>2 DEF PassFields
      <3> QED BY <1>3, <1>8, <1>9, <1>10, <3>1 DEF PassOwn
    <2> QED BY <2>1, <2>2
  <1>14. ToldOfOwn'
    BY <1>2, <1>8 DEF ToldOfOwn
  <1> QED BY <1>12, <1>13, <1>14

LEMMA TellKeeps == ASSUME OwnInv, Tell PROVE OwnInv'
  <1>1. PICK x \in pass.unsent :
          /\ told' = [told EXCEPT ![pass.who][x[1]] = IF @ < 2 THEN @ + 1 ELSE @]
          /\ pass' = [pass EXCEPT !.unsent = @ \ {x},
                                  !.at = IF pass.unsent = {x} THEN "store" ELSE "tell"]
    BY DEF Tell
  <1>2. UNCHANGED <<entry, stored, amiss>> /\ pass.at = "tell"
    BY DEF Tell
  <1>3. /\ DOMAIN pass' = PassFields /\ pass'.todo = pass.todo /\ pass'.who = pass.who
        /\ pass'.diff = pass.diff /\ pass'.unsent = pass.unsent \ {x}
        /\ pass'.at \in {"tell", "store"}
    BY <1>1 DEF OwnInv, Shape, PassFields
  <1>4. DOMAIN told' = Users /\ \A u \in Users : DOMAIN told'[u] = Payments
    BY <1>1 DEF OwnInv, Shape
  <1>5. Shape'
    BY <1>2, <1>3, <1>4 DEF OwnInv, Shape
  <1> SUFFICES ASSUME "setup" \notin amiss' PROVE EntriesOwn' /\ PassOwn' /\ ToldOfOwn'
    BY <1>5 DEF OwnInv
  <1>6. EntriesOwn /\ PassOwn /\ ToldOfOwn
    BY <1>2 DEF OwnInv
  <1>7. EntriesOwn'
    BY <1>2, <1>6 DEF EntriesOwn
  <1>8. PassOwn'
    BY <1>2, <1>3, <1>6, OwnRules DEF PassOwn
  <1>9. pass.who \in Users /\ x[1] \in Payments /\ To[x[1]] = pass.who
    BY <1>2, <1>6 DEF PassOwn, Own
  <1>10. ASSUME NEW u \in Users, NEW q \in Payments, told'[u][q] > 0 PROVE To[q] = u
    <2>1. CASE u = pass.who /\ q = x[1]
      BY <1>9, <2>1
    <2>2. CASE ~(u = pass.who /\ q = x[1])
      <3>1. told'[u][q] = told[u][q]
        BY <1>1, <1>9, <2>2 DEF OwnInv, Shape
      <3> QED BY <1>2, <1>6, <1>10, <3>1 DEF ToldOfOwn
    <2> QED BY <2>1, <2>2
  <1>11. ToldOfOwn'
    BY <1>10 DEF ToldOfOwn
  <1> QED BY <1>7, <1>8, <1>11

LEMMA TellThrowsKeeps == ASSUME OwnInv, TellThrows PROVE OwnInv'
  <1>1. UNCHANGED <<entry, stored, told>> /\ amiss \subseteq amiss' /\ pass.at = "tell"
    BY DEF TellThrows, Strikes, historyVars
  <1>2. CASE pass' = [pass EXCEPT !.at = "store", !.unsent = {}]
    <2>1. /\ DOMAIN pass' = PassFields /\ pass'.at = "store"
          /\ pass'.todo = pass.todo /\ pass'.who = pass.who
      BY <1>2 DEF OwnInv, Shape, PassFields
    <2>2. PassOwn => PassOwn'
      BY <1>1, <2>1 DEF PassOwn
    <2> QED BY <1>1, <2>1, <2>2, PassChanges DEF OwnInv, Shape, EntriesOwn
  <1>3. CASE pass' = GoOn([pass EXCEPT !.unsent = {}, !.diff = {}])
    <2> DEFINE p == [pass EXCEPT !.unsent = {}, !.diff = {}]
    <2>1. DOMAIN p = PassFields /\ p.todo = pass.todo /\ p.diff = {} /\ pass' = GoOn(p)
      BY <1>3 DEF OwnInv, Shape, PassFields
    <2> HIDE DEF p
    <2>2. DOMAIN pass' = PassFields
      BY <2>1, PassParts DEF GoOn
    <2>3. PassOwn => PassOwn'
      BY <2>1, GoesOn DEF PassOwn
    <2> QED BY <1>1, <2>2, <2>3, PassChanges DEF OwnInv, Shape, EntriesOwn
  <1> QED BY <1>2, <1>3 DEF TellThrows, Cleared

LEMMA StoreKeeps == ASSUME OwnInv, Store PROVE OwnInv'
  <1> DEFINE p == [pass EXCEPT !.diff = {}]
  <1>1. /\ UNCHANGED <<entry, told, amiss>> /\ pass.at = "store"
        /\ stored' = Stored({pass.who}) /\ pass' = GoOn(p)
    BY DEF Store, StoredOne, Cleared, historyVars
  <1>2. DOMAIN p = PassFields /\ p.todo = pass.todo /\ p.diff = {}
    BY DEF OwnInv, Shape, PassFields
  <1> HIDE DEF p
  <1>3. DOMAIN pass' = PassFields
    BY <1>1, <1>2, PassParts DEF GoOn
  <1>4. PassOwn => PassOwn'
    BY <1>1, <1>2, GoesOn DEF PassOwn
  <1>5. "setup" \notin amiss /\ PassOwn => \A w \in Users : Own(stored'[w], w)
    BY <1>1, StoredOwn DEF PassOwn
  <1> QED BY <1>1, <1>3, <1>4, <1>5, StoredDomain, PassChanges

-----------------------------------------------------------------------------

LEMMA ChainKeeps == ASSUME OwnInv, Mine \/ Reorg \/ UNCHANGED vars PROVE OwnInv'
  <1>1. UNCHANGED <<entry, stored, pass, told>> /\ amiss \subseteq amiss'
    BY DEF Mine, Reorg, Strikes, historyVars, vars
  <1>2. DOMAIN pass' = PassFields /\ (PassOwn => PassOwn')
    BY <1>1 DEF OwnInv, Shape, PassOwn
  <1> QED BY <1>1, <1>2, PassChanges DEF OwnInv, Shape, EntriesOwn

LEMMA OwnStep == OwnInv /\ [Next]_vars => OwnInv'
  <1> SUFFICES ASSUME OwnInv, [Next]_vars PROVE OwnInv'
    OBVIOUS
  <1>1. ASSUME NEW u \in Users, NEW old \in Users,
               \/ SpinUp(u) \/ TakeOver(u, old) \/ WatchDog(u)
               \/ TakeOverDead(u, old) \/ CheckAborts(u)
        PROVE  OwnInv'
    BY <1>1, SettersKeep, LosersKeep
  <1>2. ASSUME NEW u \in Users, RestartWallet(u) \/ Refresh(u) \/ Crash(u)
        PROVE  OwnInv'
    BY <1>2, RestartWalletKeeps, ProcessKeeps
  <1>3. CASE SaveWallets \/ Reboot \/ Begin
    BY <1>3, SaveWalletsKeeps, RebootKeeps, BeginKeeps
  <1>4. CASE Pass
    BY <1>4, VisitKeeps, EndersKeep, TellKeeps, TellThrowsKeeps, StoreKeeps DEF Pass
  <1>5. CASE Mine \/ Reorg \/ UNCHANGED vars
    BY <1>5, ChainKeeps
  <1> QED BY <1>1, <1>2, <1>3, <1>4, <1>5 DEF Next

LEMMA OwnInvariant == Spec => []OwnInv
  BY OwnInit, OwnStep, PTL DEF Spec

(* "You've recieved money!": processNewTransactions tells a user of payments to himself only,  *)
(* in a process that others had before him, after crashes, restarts and messages that could   *)
(* not be sent -- unless setting an entry up failed half-way.                                 *)
THEOREM TellsTheRightUser == Spec => []ToldOfOwn
  <1>1. OwnInv => ToldOfOwn
    BY DEF OwnInv, ToldOfOwn
  <1> QED BY <1>1, OwnInvariant, PTL

(* What Tip::history shows to a user who passes getAccount's check are his own transfers,       *)
(* unless setting an entry up failed half-way.                                                  *)
THEOREM ShowsTheRightHistory == Spec => []HistoryIsOwn
  <1>1. OwnInv => HistoryIsOwn
    BY DEF OwnInv, EntriesOwn, Own, HistoryIsOwn, Shown, Entries
  <1> QED BY <1>1, OwnInvariant, PTL

-----------------------------------------------------------------------------
(* Types. *)

Items == Payments \X (1 .. MaxHeight)

EntryTyped(e) ==
    /\ e.in \in BOOLEAN /\ e.alive \in BOOLEAN /\ e.wallet \in Users \cup {Nobody}
    /\ e.seen \subseteq Items /\ e.known \subseteq Items

PassTyped(p) ==
    /\ p.at \in {"idle", "visit", "tell", "store"} /\ p.todo \subseteq Users
    /\ p.who \in Users \cup {0} /\ p.diff \subseteq Items /\ p.unsent \subseteq Items

ChainTyped ==
    /\ height \in 0 .. MaxHeight /\ at \in [Payments -> 0 .. MaxHeight]
    /\ \A p \in Payments : at[p] <= height
ListsTyped == \A u \in Users : EntryTyped(entry[u]) /\ stored[u] \subseteq Items
HistoryTyped ==
    /\ told \in [Users -> [Payments -> 0 .. 2]]
    /\ absorbed \subseteq Payments /\ amiss \subseteq FaultKinds

(* A pass that goes on has somebody to visit, and one that tells somebody to tell. *)
Visiting(p) ==
    /\ p.at = "visit" => p.todo # {}
    /\ p.at \in {"tell", "store"} => p.who \in Users

TypeInv ==
    /\ OwnInv /\ ChainTyped /\ ListsTyped /\ PassTyped(pass) /\ HistoryTyped
    /\ Visiting(pass)

LEMMA TypeParts == TypeInv => TypeOK
  BY DEF TypeInv, TypeOK, ChainTyped, ListsTyped, EntryTyped, PassTyped, HistoryTyped, Items

LEMMA IdleTyped ==
  EntryTyped(NoEntry) /\ EntryTyped(Launched) /\ PassTyped(IdlePass)
  <1>1. /\ NoEntry.in = FALSE /\ NoEntry.alive = FALSE
        /\ Launched.in = TRUE /\ Launched.alive = TRUE /\ IdlePass.who = 0
    BY DEF NoEntry, Launched, IdlePass
  <1> QED BY <1>1, EntryParts, PassParts DEF EntryTyped, PassTyped

LEMMA ChainLists == ASSUME ChainTyped PROVE \A w : OnChain(w) \subseteq Items
  <1> SUFFICES ASSUME NEW w, NEW p \in Payments, at[p] # 0
               PROVE  <<p, at[p]>> \in Items
    BY DEF OnChain
  <1>1. at[p] \in 1 .. MaxHeight
    BY BoundsAssumption DEF ChainTyped
  <1> QED BY <1>1 DEF Items

LEMMA CompleteFields ==
  ASSUME NEW u, NEW before, NEW e \in Complete(u, before)
  PROVE  /\ e.in = TRUE /\ e.alive = TRUE /\ e.wallet = u /\ e.known = e.seen
         /\ e.seen \in {stored[u], OnChain(u)} /\ DOMAIN e = EntryFields
  <1>1. PICK found \in {stored[u], OnChain(u)} :
          e = [Launched EXCEPT !.wallet = u, !.seen = found, !.known = found]
    BY DEF Complete, FreshList
  <1> QED BY <1>1 DEF Launched, NoEntry, EntryFields

LEMMA SetUpTyped ==
  ASSUME TypeInv, NEW u \in Users, NEW before, DOMAIN before = EntryFields,
         EntryTyped(before), NEW e \in Complete(u, before) \cup Incomplete(u, before)
  PROVE  EntryTyped(e)
  <1>1. stored[u] \subseteq Items /\ OnChain(u) \subseteq Items
    BY ChainLists DEF TypeInv, ListsTyped
  <1>2. CASE e \in Complete(u, before)
    <2>1. /\ e.in = TRUE /\ e.alive = TRUE /\ e.wallet = u /\ e.known = e.seen
          /\ e.seen \in {stored[u], OnChain(u)}
      BY <1>2, CompleteFields
    <2> QED BY <1>1, <2>1 DEF EntryTyped
  <1>3. CASE e \in Incomplete(u, before)
    <2>1. CASE e \in {before, NoEntry}
      BY <2>1, IdleTyped
    <2>2. CASE e \notin {before, NoEntry}
      <3>1. PICK found \in {stored[u], OnChain(u)} :
              e = [before EXCEPT !.wallet = u, !.seen = found]
        BY <1>3, <2>2 DEF Incomplete
      <3>2. /\ e.in = before.in /\ e.alive = before.alive /\ e.wallet = u
            /\ e.seen = found /\ e.known = before.known
        BY <3>1 DEF EntryFields
      <3> QED BY <1>1, <3>2 DEF EntryTyped
    <2> QED BY <2>1, <2>2
  <1> QED BY <1>2, <1>3

LEMMA AbsorbedTyped ==
  ASSUME NEW list, list \subseteq Items PROVE {x[1] : x \in list} \subseteq Payments
  BY DEF Items

LEMMA StrikeTyped ==
  ASSUME NEW kind \in FaultKinds, Strikes(kind), HistoryTyped PROVE amiss' \subseteq FaultKinds
  BY DEF Strikes, HistoryTyped

LEMMA SettersTyped ==
  ASSUME TypeInv, NEW u \in Users, NEW before, DOMAIN before = EntryFields,
         EntryTyped(before), NEW others, SetUp(u, before, others)
  PROVE  ListsTyped' /\ HistoryTyped'
  <1>1. PICK e \in Complete(u, before) \cup Incomplete(u, before) :
          /\ entry' = [v \in Users |-> IF v = u THEN e
                                       ELSE IF v \in others THEN NoEntry ELSE entry[v]]
          /\ \/ amiss' = amiss /\ absorbed' = absorbed \cup {x[1] : x \in e.known}
             \/ Strikes("setup") /\ absorbed' = absorbed
    BY DEF SetUp
  <1>2. EntryTyped(e)
    BY SetUpTyped
  <1>3. UNCHANGED <<stored, told>>
    BY DEF SetUp
  <1>4. ListsTyped'
    BY <1>1, <1>2, <1>3, IdleTyped DEF TypeInv, ListsTyped
  <1>5. e.known \subseteq Items /\ HistoryTyped
    BY <1>2 DEF EntryTyped, TypeInv
  <1>6. absorbed' \subseteq Payments
    BY <1>1, <1>5, AbsorbedTyped DEF HistoryTyped
  <1>7. amiss' \subseteq FaultKinds
    BY <1>1, <1>5, StrikeTyped DEF HistoryTyped, FaultKinds
  <1> QED BY <1>3, <1>4, <1>5, <1>6, <1>7 DEF HistoryTyped

LEMMA RestartedTyped ==
  ASSUME TypeInv, NEW u \in Users
  PROVE  DOMAIN Restarted(u) = EntryFields /\ EntryTyped(Restarted(u))
  <1>1. DOMAIN entry[u] = EntryFields /\ EntryTyped(entry[u])
    BY DEF TypeInv, OwnInv, Shape, ListsTyped
  <1>2. /\ Restarted(u).in = entry[u].in /\ Restarted(u).alive = TRUE
        /\ Restarted(u).wallet = Nobody /\ Restarted(u).seen = {}
        /\ Restarted(u).known = entry[u].known /\ DOMAIN Restarted(u) = EntryFields
    BY <1>1 DEF Restarted, EntryFields
  <1> QED BY <1>1, <1>2 DEF EntryTyped

LEMMA StoredTyped ==
  ASSUME TypeInv, NEW S \in SUBSET Users PROVE \A w \in Users : Stored(S)[w] \subseteq Items
  <1> SUFFICES ASSUME NEW w \in Users PROVE Stored(S)[w] \subseteq Items
    OBVIOUS
  <1>1. \A u \in S : entry[u].seen \subseteq Items
    BY DEF TypeInv, ListsTyped, EntryTyped
  <1>2. stored[w] \subseteq Items
    BY DEF TypeInv, ListsTyped
  <1> QED BY <1>1, <1>2 DEF Stored

(* What the steps of the thread and of the others do to the lists. *)
LEMMA ListsStep == ASSUME TypeInv, Next PROVE ListsTyped' /\ HistoryTyped'
  <1> USE DEF TypeInv
  <1>0. /\ \A u \in Users : DOMAIN entry[u] = EntryFields /\ EntryTyped(entry[u])
        /\ DOMAIN entry = Users
    BY DEF OwnInv, Shape, ListsTyped
  <1>1. ASSUME NEW u \in Users, NEW old \in Users, SpinUp(u) \/ TakeOver(u, old) \/ WatchDog(u)
        PROVE  ListsTyped' /\ HistoryTyped'
    BY <1>0, <1>1, SettersTyped, EntryParts, IdleTyped, RestartedTyped DEF SpinUp, TakeOver, WatchDog
  <1>2. ASSUME NEW u \in Users, NEW old \in Users, TakeOverDead(u, old) \/ CheckAborts(u)
        PROVE  ListsTyped' /\ HistoryTyped'
    <2>1. PICK v \in Users : entry' = [entry EXCEPT ![v] = NoEntry]
      BY <1>2 DEF TakeOverDead, CheckAborts
    <2>2. UNCHANGED <<stored, historyVars, amiss>>
      BY <1>2 DEF TakeOverDead, CheckAborts
    <2>3. \A w \in Users : entry'[w] \in {entry[w], NoEntry}
      BY <1>0, <2>1
    <2> QED BY <2>2, <2>3, IdleTyped DEF ListsTyped, HistoryTyped, historyVars
  <1>3. ASSUME NEW u \in Users, RestartWallet(u)
        PROVE  ListsTyped' /\ HistoryTyped'
    <2>1. PICK e \in Complete(u, Restarted(u)) :
            entry' = [entry EXCEPT ![u] = e] /\ absorbed' = absorbed \cup {x[1] : x \in e.known}
      BY <1>3 DEF RestartWallet
    <2>2. UNCHANGED <<stored, told>> /\ (amiss' = amiss \/ Strikes("command"))
      BY <1>3 DEF RestartWallet
    <2>3. EntryTyped(e)
      BY SetUpTyped, RestartedTyped
    <2>4. \A w \in Users : entry'[w] = IF w = u THEN e ELSE entry[w]
      BY <1>0, <2>1
    <2>5. ListsTyped'
      BY <2>2, <2>3, <2>4 DEF ListsTyped
    <2>6. absorbed' \subseteq Payments
      BY <2>1, <2>3, AbsorbedTyped DEF EntryTyped, HistoryTyped
    <2>7. amiss' \subseteq FaultKinds
      BY <2>2, StrikeTyped DEF HistoryTyped, FaultKinds
    <2> QED BY <2>2, <2>5, <2>6, <2>7 DEF HistoryTyped
  <1>4. ASSUME NEW u \in Users, Refresh(u) \/ Crash(u)
        PROVE  ListsTyped' /\ HistoryTyped'
    <2>1. UNCHANGED <<stored, told, absorbed>> /\ (amiss' = amiss \/ Strikes("crash"))
      BY <1>4 DEF Refresh, Crash, historyVars
    <2>2. /\ \A v \in Users \ {u} : entry'[v] = entry[v]
          /\ entry'[u].in = entry[u].in /\ entry'[u].known = entry[u].known
          /\ \/ /\ entry'[u].wallet = entry[u].wallet /\ entry'[u].alive = entry[u].alive
                /\ entry'[u].seen = OnChain(entry[u].wallet)
             \/ entry'[u].wallet = Nobody /\ entry'[u].seen = {} /\ entry'[u].alive = FALSE
      BY <1>0, <1>4 DEF Refresh, Crash, EntryFields
    <2>3. EntryTyped(entry'[u])
      <3>1. EntryTyped(entry[u]) /\ OnChain(entry[u].wallet) \subseteq Items
        BY <1>0, ChainLists
      <3>2. CASE entry'[u].wallet = Nobody /\ entry'[u].seen = {} /\ entry'[u].alive = FALSE
        BY <2>2, <3>1, <3>2 DEF EntryTyped
      <3>3. CASE /\ entry'[u].wallet = entry[u].wallet /\ entry'[u].alive = entry[u].alive
                 /\ entry'[u].seen = OnChain(entry[u].wallet)
        BY <2>2, <3>1, <3>3 DEF EntryTyped
      <3> QED BY <2>2, <3>2, <3>3
    <2>4. amiss' \subseteq FaultKinds
      BY <2>1, StrikeTyped DEF HistoryTyped, FaultKinds
    <2> QED BY <2>1, <2>2, <2>3, <2>4 DEF ListsTyped, HistoryTyped
  <1>5. ASSUME NEW S \in SUBSET Users, stored' \in {stored, Stored(S)},
               entry' \in {entry, [u \in Users |-> NoEntry]}
        PROVE  ListsTyped'
    BY <1>0, <1>5, StoredTyped, IdleTyped DEF ListsTyped
  <1>6. CASE SaveWallets
    <2>1. PICK S \in SUBSET Users : stored' = Stored(S)
      BY <1>6 DEF SaveWallets, Answering, Entries
    <2>2. UNCHANGED <<entry, historyVars>> /\ (amiss' = amiss \/ Strikes("store"))
      BY <1>6 DEF SaveWallets
    <2>3. amiss' \subseteq FaultKinds
      BY <2>2, StrikeTyped DEF HistoryTyped, FaultKinds
    <2> QED BY <1>5, <2>1, <2>2, <2>3 DEF HistoryTyped, historyVars
  <1>7. CASE Reboot
    <2>1. stored' \in {stored, Stored(Answering)} /\ Answering \subseteq Users
      BY <1>7 DEF Reboot, Answering, Entries
    <2>2. entry' = [u \in Users |-> NoEntry] /\ UNCHANGED historyVars
      BY <1>7 DEF Reboot
    <2>3. Strikes("reboot") \/ Strikes("bot")
      BY <1>7 DEF Reboot
    <2>4. amiss' \subseteq FaultKinds
      BY <2>3, StrikeTyped DEF FaultKinds
    <2> QED BY <1>5, <2>1, <2>2, <2>4 DEF HistoryTyped, historyVars
  <1>8. CASE Store
    <2>1. stored' = Stored({pass.who}) /\ pass.who \in Users /\ UNCHANGED <<entry, historyVars, amiss>>
      BY <1>8 DEF Store, StoredOne, Visiting
    <2> QED BY <1>5, <2>1 DEF HistoryTyped, historyVars
  <1>9. CASE Visit
    <2>1. /\ entry' = [entry EXCEPT ![Visited].known = entry[Visited].seen]
          /\ UNCHANGED <<stored, historyVars, amiss>>
      BY <1>9 DEF Visit
    <2>2. Visited \in Users
      BY <1>9, FirstUser DEF Visit, Visited, Visiting, PassTyped
    <2>3. \A u \in Users : /\ entry'[u].in = entry[u].in /\ entry'[u].alive = entry[u].alive
                           /\ entry'[u].wallet = entry[u].wallet /\ entry'[u].seen = entry[u].seen
                           /\ entry'[u].known \in {entry[u].known, entry[u].seen}
      BY <1>0, <2>1, <2>2 DEF EntryFields
    <2>4. \A u \in Users : EntryTyped(entry'[u])
      BY <1>0, <2>3 DEF EntryTyped
    <2> QED BY <2>1, <2>4 DEF ListsTyped, HistoryTyped, historyVars
  <1>10. CASE Tell
    <2>1. PICK x \in pass.unsent :
            told' = [told EXCEPT ![pass.who][x[1]] = IF @ < 2 THEN @ + 1 ELSE @]
      BY <1>10 DEF Tell
    <2>2. UNCHANGED <<entry, stored, absorbed, amiss>>
      BY <1>10 DEF Tell
    <2>3. \A n \in 0 .. 2 : (IF n < 2 THEN n + 1 ELSE n) \in 0 .. 2
      OBVIOUS
    <2>4. told' \in [Users -> [Payments -> 0 .. 2]]
      BY <2>1, <2>3 DEF HistoryTyped
    <2> QED BY <2>2, <2>4 DEF ListsTyped, HistoryTyped
  <1>11. ASSUME NEW kind \in FaultKinds, amiss' \in {amiss, amiss \cup {kind}},
                UNCHANGED <<entry, stored, historyVars>>
         PROVE  ListsTyped' /\ HistoryTyped'
    BY <1>11 DEF ListsTyped, HistoryTyped, historyVars
  <1>12. CASE VisitThrows \/ TellThrows \/ StoreThrows \/ Reorg \/ Begin \/ Mine
    <2>1. UNCHANGED <<entry, stored, historyVars>>
      BY <1>12 DEF VisitThrows, TellThrows, StoreThrows, Reorg, Begin, Mine
    <2>2. \E kind \in {"rpc", "discord", "store", "reorg"} : amiss' \in {amiss, amiss \cup {kind}}
      BY <1>12 DEF VisitThrows, TellThrows, StoreThrows, Reorg, Begin, Mine, Strikes
    <2> QED BY <1>11, <2>1, <2>2 DEF FaultKinds
  <1> QED BY <1>1, <1>2, <1>3, <1>4, <1>6, <1>7, <1>8, <1>9, <1>10, <1>12 DEF Next, Pass

LEMMA GoesOnTyped ==
  ASSUME NEW p, DOMAIN p = PassFields, PassTyped(p), NEW q, q = GoOn(p)
  PROVE  PassTyped(q) /\ Visiting(q)
  <1>1. CASE p.todo = {}
    BY <1>1, IdleTyped, PassParts DEF GoOn, Visiting
  <1>2. CASE p.todo # {}
    <2>1. /\ q.at = "visit" /\ q.todo = p.todo /\ q.who = p.who
          /\ q.diff = p.diff /\ q.unsent = p.unsent
      BY <1>2 DEF GoOn, PassFields
    <2> QED BY <1>2, <2>1 DEF PassTyped, Visiting
  <1> QED BY <1>1, <1>2

LEMMA PassStep == ASSUME TypeInv, Next PROVE PassTyped(pass)' /\ Visiting(pass)'
  <1> USE DEF TypeInv
  <1>0. DOMAIN pass = PassFields
    BY DEF OwnInv, Shape
  <1>1. CASE UNCHANGED pass
    BY <1>1 DEF PassTyped, Visiting
  <1>2. CASE pass' = IdlePass
    BY <1>2, IdleTyped, PassParts DEF Visiting
  <1>3. CASE Begin
    <2>1. pass' = [IdlePass EXCEPT !.at = "visit", !.todo = Entries] /\ Entries # {}
      BY <1>3 DEF Begin
    <2>2. /\ pass'.at = "visit" /\ pass'.todo = Entries /\ pass'.who = 0
          /\ pass'.diff = {} /\ pass'.unsent = {} /\ Entries \subseteq Users
      BY <2>1 DEF IdlePass, Entries
    <2> QED BY <2>1, <2>2 DEF PassTyped, Visiting
  <1>4. CASE Visit
    <2> DEFINE P(d) == [pass EXCEPT !.todo = @ \ {Visited}, !.who = Visited,
                                    !.diff = pass.diff \cup d, !.unsent = pass.diff \cup d]
    <2>1. PICK d \in SUBSET entry[Visited].seen :
            pass' = IF pass.diff \cup d = {} THEN GoOn(P(d)) ELSE [P(d) EXCEPT !.at = "tell"]
      BY <1>4 DEF Visit, Differences
    <2>2. Visited \in Users
      BY <1>4, FirstUser DEF Visit, Visited, Visiting, PassTyped
    <2>3. d \subseteq Items
      BY <2>2 DEF ListsTyped, EntryTyped
    <2>4. /\ DOMAIN P(d) = PassFields /\ P(d).at = pass.at /\ P(d).todo = pass.todo \ {Visited}
          /\ P(d).who = Visited /\ P(d).diff = pass.diff \cup d /\ P(d).unsent = pass.diff \cup d
      BY <1>0 DEF PassFields
    <2> HIDE DEF P
    <2>5. PassTyped(P(d))
      BY <2>2, <2>3, <2>4 DEF PassTyped
    <2>6. CASE pass' = GoOn(P(d))
      BY <2>4, <2>5, <2>6, GoesOnTyped
    <2>7. CASE pass' = [P(d) EXCEPT !.at = "tell"]
      <3>1. /\ pass'.at = "tell" /\ pass'.todo = P(d).todo /\ pass'.who = Visited
            /\ pass'.diff = P(d).diff /\ pass'.unsent = P(d).unsent
        BY <2>4, <2>7 DEF PassFields
      <3> QED BY <2>2, <2>5, <3>1 DEF PassTyped, Visiting
    <2> QED BY <2>1, <2>6, <2>7
  <1>5. ASSUME pass.at = "tell", pass'.at \in {"tell", "store"}, pass'.todo = pass.todo,
               pass'.who = pass.who, pass'.diff = pass.diff, pass'.unsent \subseteq pass.unsent
        PROVE  PassTyped(pass)' /\ Visiting(pass)'
    BY <1>5 DEF PassTyped, Visiting
  <1>6. CASE Tell
    <2>1. PICK x \in pass.unsent :
            pass' = [pass EXCEPT !.unsent = @ \ {x},
                                 !.at = IF pass.unsent = {x} THEN "store" ELSE "tell"]
      BY <1>6 DEF Tell
    <2>2. /\ pass'.at \in {"tell", "store"} /\ pass'.todo = pass.todo /\ pass'.who = pass.who
          /\ pass'.diff = pass.diff /\ pass'.unsent \subseteq pass.unsent
      BY <1>0, <2>1 DEF PassFields
    <2> QED BY <1>5, <1>6, <2>2 DEF Tell
  <1>7. ASSUME NEW p, p \in {[pass EXCEPT !.diff = {}], [pass EXCEPT !.unsent = {}, !.diff = {}]},
               pass' = GoOn(p)
        PROVE  PassTyped(pass)' /\ Visiting(pass)'
    <2>1. /\ DOMAIN p = PassFields /\ p.at = pass.at /\ p.todo = pass.todo
          /\ p.who = pass.who /\ p.diff = {} /\ p.unsent \in {{}, pass.unsent}
      BY <1>0, <1>7 DEF PassFields
    <2>2. PassTyped(p)
      BY <2>1 DEF PassTyped
    <2> QED BY <1>7, <2>1, <2>2, GoesOnTyped
  <1>8. CASE TellThrows
    <2>1. CASE pass' = [pass EXCEPT !.at = "store", !.unsent = {}]
      <3>1. /\ pass'.at = "store" /\ pass'.todo = pass.todo /\ pass'.who = pass.who
            /\ pass'.diff = pass.diff /\ pass'.unsent = {}
        BY <1>0, <2>1 DEF PassFields
      <3> QED BY <1>5, <1>8, <3>1 DEF TellThrows
    <2>2. CASE pass' = GoOn([pass EXCEPT !.unsent = {}, !.diff = {}])
      BY <1>7, <2>2
    <2> QED BY <1>8, <2>1, <2>2 DEF TellThrows, Cleared
  <1>9. CASE Store
    BY <1>7, <1>9 DEF Store, Cleared
  <1>10. CASE VisitThrows \/ StoreThrows \/ Reboot
    BY <1>2, <1>10 DEF VisitThrows, StoreThrows, Reboot
  <1>11. ASSUME NEW u \in Users, NEW old \in Users,
                \/ SpinUp(u) \/ TakeOver(u, old) \/ WatchDog(u) \/ TakeOverDead(u, old)
                \/ CheckAborts(u) \/ RestartWallet(u) \/ Refresh(u) \/ Crash(u)
         PROVE  UNCHANGED pass
    BY <1>11 DEF SpinUp, TakeOver, WatchDog, SetUp, TakeOverDead, CheckAborts, RestartWallet,
                 Refresh, Crash
  <1>12. CASE SaveWallets \/ Mine \/ Reorg
    BY <1>1, <1>12 DEF SaveWallets, Mine, Reorg
  <1> QED BY <1>1, <1>3, <1>4, <1>6, <1>8, <1>9, <1>10, <1>11, <1>12 DEF Next, Pass

LEMMA ChainStep == ASSUME TypeInv, Next PROVE ChainTyped'
  <1>1. CASE Mine
    <2>1. height' \in 0 .. MaxHeight /\ height' = height + 1 /\ height \in Nat
      BY <1>1, BoundsAssumption DEF Mine, TypeInv, ChainTyped
    <2>2. PICK S \in SUBSET Payments :
            at' = [p \in Payments |-> IF p \in S THEN height' ELSE at[p]]
      BY <1>1 DEF Mine
    <2>3. \A p \in Payments : at[p] \in 0 .. MaxHeight /\ at[p] <= height
      BY DEF TypeInv, ChainTyped
    <2>4. \A p \in Payments : at'[p] \in 0 .. MaxHeight /\ at'[p] <= height'
      BY <2>1, <2>2, <2>3, BoundsAssumption
    <2> QED BY <2>1, <2>2, <2>4 DEF ChainTyped
  <1>2. CASE Reorg
    <2>1. 0 \in 0 .. MaxHeight /\ 0 <= height /\ height <= height
      BY BoundsAssumption DEF TypeInv, ChainTyped
    <2> QED BY <1>2, <2>1 DEF Reorg, TypeInv, ChainTyped
  <1>3. CASE UNCHANGED chainVars
    BY <1>3 DEF chainVars, TypeInv, ChainTyped
  <1>4. CASE SaveWallets \/ Reboot \/ Begin \/ Pass
    BY <1>3, <1>4 DEF SaveWallets, Reboot, Begin, Pass, Visit, VisitThrows, Tell, TellThrows,
                      Store, StoreThrows
  <1>5. ASSUME NEW u \in Users, NEW old \in Users,
               \/ SpinUp(u) \/ TakeOver(u, old) \/ WatchDog(u) \/ TakeOverDead(u, old)
               \/ CheckAborts(u) \/ RestartWallet(u) \/ Refresh(u) \/ Crash(u)
        PROVE  UNCHANGED chainVars
    BY <1>5 DEF SpinUp, TakeOver, WatchDog, SetUp, TakeOverDead, CheckAborts, RestartWallet,
                Refresh, Crash
  <1> QED BY <1>1, <1>2, <1>3, <1>4, <1>5 DEF Next

LEMMA TypeInit == Init => TypeInv
  <1> SUFFICES ASSUME Init PROVE TypeInv
    OBVIOUS
  <1>1. OwnInv
    BY OwnInit
  <1>2. ChainTyped
    BY BoundsAssumption DEF Init, ChainTyped
  <1>3. ListsTyped
    BY IdleTyped DEF Init, ListsTyped
  <1>4. PassTyped(pass) /\ Visiting(pass)
    BY IdleTyped, PassParts DEF Init, Visiting
  <1>5. HistoryTyped
    BY DEF Init, HistoryTyped
  <1> QED BY <1>1, <1>2, <1>3, <1>4, <1>5 DEF TypeInv

LEMMA TypeStep == TypeInv /\ [Next]_vars => TypeInv'
  <1> SUFFICES ASSUME TypeInv, [Next]_vars PROVE TypeInv'
    OBVIOUS
  <1>1. OwnInv'
    BY OwnStep DEF TypeInv
  <1>2. CASE Next
    BY <1>1, <1>2, ListsStep, PassStep, ChainStep DEF TypeInv
  <1>3. CASE UNCHANGED vars
    BY <1>1, <1>3 DEF vars, chainVars, historyVars, TypeInv, ChainTyped, ListsTyped, EntryTyped,
                      PassTyped, HistoryTyped, Visiting
  <1> QED BY <1>2, <1>3

LEMMA TypeInvariant == Spec => []TypeInv
  BY TypeInit, TypeStep, PTL DEF Spec

(* Every variable of the notifier keeps its type: no step of the thread, of a command or of a  *)
(* wallet makes a list, a pass or a count that processNewTransactions could not read.          *)
THEOREM NotifierTypes == Spec => []TypeOK
  BY TypeParts, TypeInvariant, PTL

-----------------------------------------------------------------------------
(* Told once. *)

Calm == amiss \cap {"store", "bot", "discord", "setup", "reorg"} = {}

(* A list holds a block's transfers all or not at all: the chain grows by whole blocks. *)
Whole(list, chain) ==
    list \subseteq chain /\ \A x \in list, y \in chain : y[2] = x[2] => y \in list

(* What the user was told of is in the list. *)
Holds(list, u) == \A p \in Payments : told[u][p] > 0 => <<p, at[p]>> \in list

Telling(u) == IF pass.at \in {"tell", "store"} /\ pass.who = u THEN pass.diff ELSE {}

ListsWhole ==
    \A u \in Users : /\ Whole(stored[u], OnChain(u))
                     /\ Whole(entry[u].seen, OnChain(u))
                     /\ Whole(entry[u].known, OnChain(u))

(* What a user was told of is stored, or the pass that tells him will see to it. *)
ToldIsKept ==
    \A u \in Users :
        /\ Holds(stored[u] \cup Telling(u), u)
        /\ entry[u].wallet = u => stored[u] \subseteq entry[u].seen /\ Holds(entry[u].known, u)

(* What is still to be told is new, and the wallet that will be stored has it. *)
PassIsNew ==
    LET u == pass.who
    IN  /\ pass.at \in {"tell", "store"} =>
             /\ pass.diff \subseteq OnChain(u)
             /\ entry[u].wallet = u => pass.diff \subseteq entry[u].seen \cap entry[u].known
        /\ pass.at = "tell" =>
             pass.unsent \subseteq pass.diff /\ \A x \in pass.unsent : told[u][x[1]] = 0

OnceInv == Calm => ListsWhole /\ ToldIsKept /\ PassIsNew /\ ToldOnce

LEMMA OnceInit == Init => OnceInv
  <1> SUFFICES ASSUME Init PROVE OnceInv
    OBVIOUS
  <1>1. \A u \in Users : /\ stored[u] = {} /\ entry[u].wallet = Nobody
                         /\ entry[u].seen = {} /\ entry[u].known = {}
                         /\ \A p \in Payments : told[u][p] = 0
    BY EntryParts DEF Init
  <1>2. pass.at = "idle"
    BY PassParts DEF Init
  <1>3. ListsWhole
    BY <1>1 DEF ListsWhole, Whole
  <1>4. ToldIsKept
    BY <1>1, UsersAssumption DEF ToldIsKept, Holds
  <1>5. PassIsNew
    BY <1>2 DEF PassIsNew
  <1>6. ToldOnce
    BY <1>1 DEF ToldOnce
  <1> QED BY <1>3, <1>4, <1>5, <1>6 DEF OnceInv

LEMMA ChainFinite == ASSUME ChainTyped, NEW w PROVE IsFiniteSet(OnChain(w))
  <1> DEFINE f == [p \in Payments |-> <<p, at[p]>>]
             T == {<<p, at[p]>> : p \in Payments}
  <1>1. f \in Surjection(Payments, T)
    BY DEF Surjection
  <1>2. IsFiniteSet(T)
    BY <1>1, PaymentsAssumption, FS_Surjection
  <1>3. OnChain(w) \subseteq T
    BY DEF OnChain
  <1> QED BY <1>2, <1>3, FS_Subset

(* std::set_difference, which compares blocks only, takes nothing the entry knew already. *)
LEMMA DifferencesAreNew ==
  ASSUME ChainTyped, NEW w, NEW new, NEW old, Whole(new, OnChain(w)), Whole(old, OnChain(w)),
         NEW d \in Differences(new, old)
  PROVE  d \cap old = {}
  <1> SUFFICES ASSUME NEW x \in d, x \in old PROVE FALSE
    OBVIOUS
  <1>1. d \subseteq new
    BY DEF Differences
  <1>2. x[2] \in 1 .. MaxHeight
    <2>1. PICK p \in Payments : x = <<p, at[p]>> /\ at[p] # 0
      BY <1>1 DEF Whole, OnChain
    <2> QED BY <2>1, BoundsAssumption DEF ChainTyped
  <1>3. AtHeight(new, x[2]) = AtHeight(old, x[2])
    BY <1>1 DEF AtHeight, Whole
  <1> DEFINE c == Cardinality(AtHeight(new, x[2]))
  <1>4. IsFiniteSet(AtHeight(new, x[2])) /\ IsFiniteSet(AtHeight(d, x[2]))
    BY <1>1, ChainFinite, FS_Subset DEF AtHeight, Whole
  <1>5. c \in Nat
    BY <1>4, FS_CardinalityType
  <1>6. Cardinality(AtHeight(d, x[2])) = IF c - c > 0 THEN c - c ELSE 0
    BY <1>2, <1>3 DEF Differences
  <1>7. Cardinality(AtHeight(d, x[2])) = 0
    BY <1>5, <1>6
  <1>8. AtHeight(d, x[2]) = {}
    BY <1>4, <1>7, FS_EmptySet
  <1> QED BY <1>8 DEF AtHeight

LEMMA WholeRules ==
  \A w : Whole({}, OnChain(w)) /\ Whole(OnChain(w), OnChain(w))
  BY DEF Whole

LEMMA WholeOnChain ==
  ASSUME NEW w, NEW list, Whole(list, OnChain(w)) PROVE list \subseteq OnChain(w)
  BY DEF Whole

(* One new block: whatever was whole still is. *)
LEMMA MineKeepsOnce == ASSUME TypeInv, OnceInv, Mine, Calm' PROVE OnceInv'
  <1>1. UNCHANGED <<entry, stored, pass, told, amiss>>
    BY DEF Mine, historyVars
  <1>2. PICK S \in SUBSET {p \in Payments : at[p] = 0} :
          at' = [p \in Payments |-> IF p \in S THEN height' ELSE at[p]]
    BY DEF Mine
  <1>3. /\ height' = height + 1 /\ height \in Nat
        /\ \A p \in Payments : at[p] \in 0 .. MaxHeight /\ at[p] <= height
    BY BoundsAssumption DEF Mine, TypeInv, ChainTyped
  <1>4. \A p \in Payments : at[p] # 0 => at'[p] = at[p]
    BY <1>2
  <1>5. \A w : OnChain(w) \subseteq OnChain(w)'
    BY <1>4 DEF OnChain
  <1>6. ASSUME NEW w, NEW y \in OnChain(w)', y \notin OnChain(w)
        PROVE  y[2] = height'
    <2>1. PICK p \in Payments : y = <<p, at'[p]>> /\ To[p] = w /\ at'[p] # 0
      BY DEF OnChain
    <2>2. p \in S
      BY <1>2, <1>6, <2>1 DEF OnChain
    <2> QED BY <1>2, <2>1, <2>2
  <1>7. ASSUME NEW w, NEW x \in OnChain(w) PROVE x[2] # height'
    <2>1. PICK p \in Payments : x = <<p, at[p]>>
      BY DEF OnChain
    <2> QED BY <1>3, <2>1
  <1>8. \A w, list : Whole(list, OnChain(w)) => Whole(list, OnChain(w)')
    BY <1>5, <1>6, <1>7 DEF Whole
  <1>9. Calm /\ ListsWhole /\ ToldIsKept /\ PassIsNew /\ ToldOnce
    BY <1>1 DEF Calm, OnceInv
  <1>10. ListsWhole'
    BY <1>1, <1>8, <1>9 DEF ListsWhole
  <1>11. \A u \in Users, p \in Payments : told[u][p] > 0 => at'[p] = at[p]
    <2> SUFFICES ASSUME NEW u \in Users, NEW p \in Payments, told[u][p] > 0 PROVE at[p] # 0
      BY <1>4
    <2>1. <<p, at[p]>> \in stored[u] \cup Telling(u)
      BY <1>9 DEF ToldIsKept, Holds
    <2>2. stored[u] \cup Telling(u) \subseteq OnChain(u)
      BY <1>9 DEF ListsWhole, Whole, PassIsNew, Telling
    <2> QED BY <2>1, <2>2 DEF OnChain
  <1>12. ToldIsKept'
    <2>1. \A u \in Users : \A list : Holds(list, u) => Holds(list, u)'
      BY <1>1, <1>11 DEF Holds
    <2>2. \A u \in Users : Telling(u)' = Telling(u)
      BY <1>1 DEF Telling
    <2> QED BY <1>1, <1>9, <2>1, <2>2 DEF ToldIsKept
  <1>13. PassIsNew'
    BY <1>1, <1>5, <1>9 DEF PassIsNew
  <1> QED BY <1>1, <1>9, <1>10, <1>12, <1>13 DEF OnceInv, ToldOnce

(* Entries are set up or lost while no pass runs: a list that an entry gets is one the user    *)
(* was told all of.                                                                            *)
LEMMA EntriesKeepOnce ==
  ASSUME OwnInv, OnceInv, Calm', UNCHANGED <<chainVars, stored, pass, told>>, amiss \subseteq amiss',
         pass.at = "idle",
         \A u \in Users : \/ entry'[u] \in {entry[u], NoEntry}
                          \/ /\ entry'[u].known = entry'[u].seen
                             /\ entry'[u].seen \in {stored[u], OnChain(u)}
  PROVE  OnceInv'
  <1>1. Calm /\ ListsWhole /\ ToldIsKept /\ PassIsNew /\ ToldOnce
    BY DEF Calm, OnceInv
  <1>2. \A w : OnChain(w)' = OnChain(w)
    BY DEF chainVars, OnChain
  <1>3. ASSUME NEW u \in Users
        PROVE  Whole(entry'[u].seen, OnChain(u)) /\ Whole(entry'[u].known, OnChain(u))
    BY <1>1, EntryParts, WholeRules DEF ListsWhole
  <1>4. ListsWhole'
    BY <1>1, <1>2, <1>3 DEF ListsWhole
  <1>5. \A u \in Users : \A list : Holds(list, u)' <=> Holds(list, u)
    BY DEF Holds, chainVars
  <1>6. \A u \in Users : Telling(u) = {} /\ Telling(u)' = {}
    BY DEF Telling
  <1>7. ASSUME NEW u \in Users
        PROVE  /\ Holds(stored'[u] \cup Telling(u)', u)
               /\ entry'[u].wallet = u => /\ stored'[u] \subseteq entry'[u].seen
                                          /\ Holds(entry'[u].known, u)
    <2>1. Holds(stored[u], u)
      BY <1>1, <1>6 DEF ToldIsKept
    <2>2. stored[u] \subseteq OnChain(u)
      BY <1>1, WholeOnChain DEF ListsWhole
    <2>3. Holds(OnChain(u), u)
      BY <2>1, <2>2 DEF Holds
    <2>4. CASE entry'[u] = entry[u]
      BY <1>1, <1>6, <2>1, <2>4 DEF ToldIsKept
    <2>5. CASE entry'[u] = NoEntry
      BY <1>6, <2>1, <2>5, EntryParts, UsersAssumption
    <2>6. CASE /\ entry'[u].known = entry'[u].seen
               /\ entry'[u].seen \in {stored[u], OnChain(u)}
      BY <1>6, <2>1, <2>2, <2>3, <2>6
    <2> QED BY <2>4, <2>5, <2>6
  <1>8. ToldIsKept'
    BY <1>5, <1>7 DEF ToldIsKept
  <1>9. PassIsNew' /\ ToldOnce'
    BY <1>1 DEF PassIsNew, ToldOnce
  <1> QED BY <1>4, <1>8, <1>9 DEF OnceInv

LEMMA SetUpEntries ==
  ASSUME NEW u \in Users, NEW before, NEW others, SetUp(u, before, others), Calm'
  PROVE  /\ UNCHANGED <<chainVars, stored, pass, told>> /\ amiss \subseteq amiss'
         /\ \A v \in Users : \/ entry'[v] \in {entry[v], NoEntry}
                             \/ /\ entry'[v].known = entry'[v].seen
                                /\ entry'[v].seen \in {stored[v], OnChain(v)}
  <1>1. PICK e \in Complete(u, before) \cup Incomplete(u, before) :
          /\ entry' = [v \in Users |-> IF v = u THEN e
                                       ELSE IF v \in others THEN NoEntry ELSE entry[v]]
          /\ \/ e \in Complete(u, before) /\ UNCHANGED amiss
             \/ Strikes("setup")
    BY DEF SetUp
  <1>2. e \in Complete(u, before) /\ UNCHANGED amiss
    BY <1>1 DEF Calm, Strikes
  <1>3. e.known = e.seen /\ e.seen \in {stored[u], OnChain(u)}
    BY <1>2, CompleteFields
  <1>4. UNCHANGED <<chainVars, stored, pass, told>>
    BY DEF SetUp
  <1> QED BY <1>1, <1>2, <1>3, <1>4

LEMMA SettersKeepOnce ==
  ASSUME OwnInv, OnceInv, Calm', NEW u \in Users, NEW old \in Users,
         SpinUp(u) \/ TakeOver(u, old) \/ WatchDog(u)
  PROVE  OnceInv'
  BY SetUpEntries, EntriesKeepOnce DEF SpinUp, TakeOver, WatchDog, Free

LEMMA OthersKeepOnce ==
  ASSUME OwnInv, OnceInv, Calm', NEW u \in Users, NEW old \in Users,
         TakeOverDead(u, old) \/ CheckAborts(u) \/ RestartWallet(u)
  PROVE  OnceInv'
  <1>1. /\ UNCHANGED <<chainVars, stored, pass, told>> /\ amiss \subseteq amiss'
        /\ pass.at = "idle"
    BY DEF TakeOverDead, CheckAborts, RestartWallet, historyVars, Free, Strikes
  <1>2. CASE TakeOverDead(u, old) \/ CheckAborts(u)
    <2>1. PICK v \in Users : entry' = [entry EXCEPT ![v] = NoEntry]
      BY <1>2 DEF TakeOverDead, CheckAborts
    <2>2. \A w \in Users : entry'[w] \in {entry[w], NoEntry}
      BY <2>1 DEF OwnInv, Shape
    <2> QED BY <1>1, <2>2, EntriesKeepOnce
  <1>3. CASE RestartWallet(u)
    <2>1. PICK e \in Complete(u, Restarted(u)) : entry' = [entry EXCEPT ![u] = e]
      BY <1>3 DEF RestartWallet
    <2>2. e.known = e.seen /\ e.seen \in {stored[u], OnChain(u)}
      BY CompleteFields
    <2>3. \A w \in Users : entry'[w] = IF w = u THEN e ELSE entry[w]
      BY <2>1 DEF OwnInv, Shape
    <2> QED BY <1>1, <2>2, <2>3, EntriesKeepOnce
  <1> QED BY <1>2, <1>3

LEMMA CalmGives ==
  ASSUME OwnInv, OnceInv, Calm', amiss \subseteq amiss'
  PROVE  /\ Calm /\ ListsWhole /\ ToldIsKept /\ PassIsNew /\ ToldOnce
         /\ EntriesOwn /\ PassOwn
  <1>1. Calm /\ "setup" \notin amiss
    BY DEF Calm
  <1> QED BY <1>1 DEF OnceInv, OwnInv

LEMMA ProcessKeepsOnce ==
  ASSUME OwnInv, OnceInv, Calm', NEW u \in Users, Refresh(u) \/ Crash(u)
  PROVE  OnceInv'
  <1>1. UNCHANGED <<chainVars, stored, pass, told>> /\ amiss \subseteq amiss'
    BY DEF Refresh, Crash, historyVars, Strikes
  <1>2. /\ Calm /\ ListsWhole /\ ToldIsKept /\ PassIsNew /\ ToldOnce
        /\ EntriesOwn /\ PassOwn
    BY <1>1, CalmGives
  <1>3. /\ \A v \in Users \ {u} : entry'[v] = entry[v]
        /\ entry'[u].known = entry[u].known
        /\ \/ /\ entry'[u].wallet = entry[u].wallet /\ entry[u].wallet # Nobody
              /\ entry'[u].seen = OnChain(entry[u].wallet)
           \/ entry'[u].wallet = Nobody /\ entry'[u].seen = {}
    BY DEF Refresh, Crash, Answers, OwnInv, Shape, EntryFields
  <1>4. entry[u].wallet \in {u, Nobody} /\ u # Nobody
    BY <1>2, UsersAssumption DEF EntriesOwn
  <1>5. /\ \/ entry'[u].seen = OnChain(u) /\ entry'[u].wallet = u /\ entry[u].wallet = u
           \/ entry'[u].seen = {} /\ entry'[u].wallet = Nobody
    BY <1>3, <1>4
  <1>6. \A w : OnChain(w)' = OnChain(w)
    BY <1>1 DEF chainVars, OnChain
  <1>7. ListsWhole'
    BY <1>1, <1>2, <1>3, <1>5, <1>6, WholeRules DEF ListsWhole
  <1>8. \A v \in Users : \A list : Holds(list, v)' <=> Holds(list, v)
    BY <1>1 DEF Holds, chainVars
  <1>9. \A v \in Users : Telling(v)' = Telling(v)
    BY <1>1 DEF Telling
  <1>10. stored[u] \subseteq OnChain(u)
    BY <1>2, WholeOnChain DEF ListsWhole
  <1>11. ToldIsKept'
    BY <1>1, <1>2, <1>3, <1>4, <1>5, <1>8, <1>9, <1>10 DEF ToldIsKept
  <1>12. PassIsNew'
    <2>1. \A v \in Users : entry'[v].wallet = v => /\ entry[v].wallet = v
                                                   /\ entry'[v].known = entry[v].known
                                                   /\ pass.diff \subseteq entry[v].seen
                                                        => pass.diff \subseteq entry'[v].seen
      BY <1>2, <1>3, <1>4, <1>5, WholeOnChain DEF ListsWhole
    <2>2. pass.at \in {"tell", "store"} => pass.who \in Users
      BY <1>2 DEF PassOwn
    <2> QED BY <1>1, <1>2, <1>6, <2>1, <2>2 DEF PassIsNew
  <1>13. ToldOnce'
    BY <1>1, <1>2 DEF ToldOnce
  <1> QED BY <1>7, <1>11, <1>12, <1>13 DEF OnceInv

(* What becomes of a wallet's file when the wallets of S are stored. *)
LEMMA StoredIs ==
  ASSUME EntriesOwn, NEW S \in SUBSET Users, NEW w \in Users
  PROVE  Stored(S)[w] = IF w \in S /\ entry[w].wallet = w THEN entry[w].seen ELSE stored[w]
  <1> DEFINE by == {u \in S : entry[u].wallet = w}
  <1>1. by = IF w \in S /\ entry[w].wallet = w THEN {w} ELSE {}
    BY UsersAssumption DEF EntriesOwn
  <1>2. Stored(S)[w] = IF by = {} THEN stored[w] ELSE UNION {entry[u].seen : u \in by}
    BY DEF Stored
  <1> HIDE DEF by
  <1>3. CASE by = {w}
    <2>1. UNION {entry[u].seen : u \in {w}} = entry[w].seen
      OBVIOUS
    <2> QED BY <1>1, <1>2, <1>3, <2>1
  <1>4. CASE by = {}
    BY <1>1, <1>2, <1>4
  <1> QED BY <1>1, <1>3, <1>4

(* Wallets are stored, and the bot may go, while no pass runs. *)
LEMMA StoringKeepsOnce ==
  ASSUME OwnInv, OnceInv, Calm', UNCHANGED <<chainVars, told>>, amiss \subseteq amiss',
         pass.at = "idle", pass'.at = "idle",
         NEW S \in SUBSET Users, stored' \in {stored, Stored(S)},
         entry' \in {entry, [u \in Users |-> NoEntry]}
  PROVE  OnceInv'
  <1>1. /\ Calm /\ ListsWhole /\ ToldIsKept /\ PassIsNew /\ ToldOnce
        /\ EntriesOwn /\ PassOwn
    BY CalmGives
  <1>2. \A u \in Users : \/ stored'[u] = stored[u]
                         \/ stored'[u] = entry[u].seen /\ entry[u].wallet = u
    BY <1>1, StoredIs
  <1>3. \A u \in Users : entry'[u] \in {entry[u], NoEntry}
    OBVIOUS
  <1>4. \A w : OnChain(w)' = OnChain(w)
    BY DEF chainVars, OnChain
  <1>5. ListsWhole'
    <2>1. \A u \in Users : /\ Whole(stored'[u], OnChain(u))
                           /\ Whole(entry'[u].seen, OnChain(u))
                           /\ Whole(entry'[u].known, OnChain(u))
      BY <1>1, <1>2, <1>3, EntryParts, WholeRules DEF ListsWhole
    <2> QED BY <1>4, <2>1 DEF ListsWhole
  <1>6. \A v \in Users : \A list : Holds(list, v)' <=> Holds(list, v)
    BY DEF Holds, chainVars
  <1>7. \A v \in Users : Telling(v)' = {} /\ Telling(v) = {}
    BY DEF Telling
  <1>8. ASSUME NEW u \in Users
        PROVE  /\ Holds(stored'[u] \cup {}, u)
               /\ entry'[u].wallet = u => /\ stored'[u] \subseteq entry'[u].seen
                                          /\ Holds(entry'[u].known, u)
    <2>1. /\ Holds(stored[u], u)
          /\ entry[u].wallet = u => stored[u] \subseteq entry[u].seen /\ Holds(entry[u].known, u)
      BY <1>1, <1>7 DEF ToldIsKept
    <2>2. Holds(stored'[u], u)
      <3>1. stored[u] \subseteq stored'[u]
        BY <1>2, <2>1
      <3> QED BY <2>1, <3>1 DEF Holds
    <2>3. entry'[u].wallet = u => entry'[u] = entry[u]
      BY <1>3, EntryParts, UsersAssumption
    <2> QED BY <1>2, <2>1, <2>2, <2>3
  <1>9. ToldIsKept'
    BY <1>6, <1>7, <1>8 DEF ToldIsKept
  <1>10. PassIsNew' /\ ToldOnce'
    BY <1>1 DEF PassIsNew, ToldOnce
  <1> QED BY <1>5, <1>9, <1>10 DEF OnceInv

LEMMA SaversKeepOnce == ASSUME OwnInv, OnceInv, Calm', SaveWallets \/ Reboot PROVE OnceInv'
  <1>1. UNCHANGED <<chainVars, told>> /\ amiss \subseteq amiss' /\ pass.at = "idle"
    BY DEF SaveWallets, Reboot, historyVars, Strikes, Free, Calm
  <1>2. pass'.at = "idle"
    BY <1>1, PassParts DEF SaveWallets, Reboot
  <1>3. \E S \in SUBSET Users : stored' \in {stored, Stored(S)}
    BY DEF SaveWallets, Reboot, Answering, Entries
  <1>4. entry' \in {entry, [u \in Users |-> NoEntry]}
    BY DEF SaveWallets, Reboot
  <1> QED BY <1>1, <1>2, <1>3, <1>4, StoringKeepsOnce

(* The pass begins, or it ends before anything was announced. *)
LEMMA EdgesKeepOnce ==
  ASSUME OwnInv, OnceInv, Calm', Begin \/ VisitThrows \/ StoreThrows \/ TellThrows \/ Reorg
  PROVE  OnceInv'
  <1>1. Begin \/ VisitThrows
    BY DEF StoreThrows, TellThrows, Reorg, Strikes, Calm
  <1>2. UNCHANGED <<chainVars, entry, stored, told>> /\ amiss \subseteq amiss'
    BY <1>1 DEF Begin, VisitThrows, historyVars, Strikes
  <1>3. pass.at \in {"idle", "visit"} /\ pass'.at \in {"idle", "visit"}
    BY <1>1, PassParts DEF Begin, VisitThrows, Free, IdlePass
  <1>4. /\ Calm /\ ListsWhole /\ ToldIsKept /\ PassIsNew /\ ToldOnce
        /\ EntriesOwn /\ PassOwn
    BY <1>2, CalmGives
  <1>5. \A w : OnChain(w)' = OnChain(w)
    BY <1>2 DEF chainVars, OnChain
  <1>6. \A v \in Users : \A list : Holds(list, v)' <=> Holds(list, v)
    BY <1>2 DEF Holds, chainVars
  <1>7. \A v \in Users : Telling(v)' = {} /\ Telling(v) = {}
    BY <1>3 DEF Telling
  <1>8. ListsWhole'
    BY <1>2, <1>4, <1>5 DEF ListsWhole
  <1>9. ToldIsKept'
    BY <1>2, <1>4, <1>6, <1>7 DEF ToldIsKept
  <1>10. PassIsNew' /\ ToldOnce'
    BY <1>2, <1>3, <1>4 DEF PassIsNew, ToldOnce
  <1> QED BY <1>8, <1>9, <1>10 DEF OnceInv

(* GoOn leads to the next visit or ends the pass. *)
LEMMA GoOnAt ==
  ASSUME NEW p, DOMAIN p = PassFields, NEW q, q = GoOn(p) PROVE q.at \in {"idle", "visit"}
  BY PassParts DEF GoOn, PassFields

(* The user of the entry just visited, when nothing failed: its own wallet answers, and what *)
(* the new list has more he was not told of.                                                 *)
LEMMA VisitKeepsOnce == ASSUME TypeInv, OnceInv, Calm', Visit PROVE OnceInv'
  <1> DEFINE u == Visited
             P(d) == [pass EXCEPT !.todo = @ \ {u}, !.who = u, !.diff = pass.diff \cup d,
                                  !.unsent = pass.diff \cup d]
  <1>1. /\ UNCHANGED <<chainVars, stored, told>> /\ amiss \subseteq amiss'
        /\ pass.at = "visit" /\ Answers(u)
        /\ entry' = [entry EXCEPT ![u].known = entry[u].seen]
    BY DEF Visit, historyVars
  <1>2. /\ Calm /\ ListsWhole /\ ToldIsKept /\ PassIsNew /\ ToldOnce
        /\ EntriesOwn /\ PassOwn
    BY <1>1, CalmGives DEF TypeInv
  <1>3. PICK d \in Differences(entry[u].seen, entry[u].known) :
          pass' = IF pass.diff \cup d = {} THEN GoOn(P(d)) ELSE [P(d) EXCEPT !.at = "tell"]
    BY DEF Visit
  <1>4. /\ DOMAIN P(d) = PassFields /\ P(d).who = u
        /\ P(d).diff = pass.diff \cup d /\ P(d).unsent = pass.diff \cup d
    BY DEF TypeInv, OwnInv, Shape, PassFields
  <1> HIDE DEF P
  <1>5. pass.diff = {}
    BY <1>1, <1>2 DEF PassOwn
  <1>6. u \in Users /\ entry[u].wallet = u
    BY <1>1, <1>2, FirstUser DEF PassOwn, Visited, EntriesOwn, Answers
  <1> HIDE DEF u
  <1>7. d \subseteq entry[u].seen /\ d \cap entry[u].known = {}
    BY <1>2, <1>6, DifferencesAreNew DEF TypeInv, ListsWhole, Differences
  <1>8. /\ \A v \in Users : /\ entry'[v].wallet = entry[v].wallet
                            /\ entry'[v].seen = entry[v].seen
                            /\ v # u => entry'[v].known = entry[v].known
        /\ entry'[u].known = entry[u].seen
    BY <1>1, <1>6 DEF TypeInv, OwnInv, Shape, EntryFields
  <1>9. \/ pass'.at \in {"idle", "visit"}
        \/ pass'.at = "tell" /\ pass'.who = u /\ pass'.diff = d /\ pass'.unsent = d
    <2>1. CASE pass' = GoOn(P(d))
      BY <1>4, <2>1, GoOnAt
    <2>2. CASE pass' = [P(d) EXCEPT !.at = "tell"]
      BY <1>4, <1>5, <2>2 DEF PassFields
    <2> QED BY <1>3, <2>1, <2>2
  <1>10. \A w : OnChain(w)' = OnChain(w)
    BY <1>1 DEF chainVars, OnChain
  <1>11. \A v \in Users : \A list : Holds(list, v)' <=> Holds(list, v)
    BY <1>1 DEF Holds, chainVars
  <1>12. ListsWhole'
    BY <1>1, <1>2, <1>6, <1>8, <1>10 DEF ListsWhole
  <1>13. \A v \in Users : /\ Holds(stored[v], v)
                          /\ entry[v].wallet = v => /\ stored[v] \subseteq entry[v].seen
                                                    /\ Holds(entry[v].known, v)
    BY <1>1, <1>2 DEF ToldIsKept, Telling
  <1>14. \A v \in Users : \A S, T : Holds(S, v) /\ S \subseteq T => Holds(T, v)
    BY DEF Holds
  <1>15. ToldIsKept'
    <2>1. Holds(entry'[u].known, u)
      BY <1>6, <1>8, <1>13, <1>14
    <2>2. \A v \in Users : /\ Holds(stored[v] \cup Telling(v)', v)
                           /\ entry'[v].wallet = v => /\ stored[v] \subseteq entry'[v].seen
                                                      /\ Holds(entry'[v].known, v)
      BY <1>8, <1>13, <1>14, <2>1
    <2> QED BY <1>1, <1>11, <2>2 DEF ToldIsKept
  <1>16. d \subseteq OnChain(u)
    BY <1>2, <1>6, <1>7, WholeOnChain DEF ListsWhole
  <1>17. ASSUME NEW x \in d PROVE told[u][x[1]] = 0
    <2>1. PICK p \in Payments : x = <<p, at[p]>>
      BY <1>16 DEF OnChain
    <2>2. ~ (told[u][p] > 0)
      BY <1>6, <1>7, <1>13, <2>1 DEF Holds
    <2>3. told[u][p] \in 0 .. 2
      BY <1>6 DEF TypeInv, HistoryTyped
    <2> QED BY <2>1, <2>2, <2>3
  <1>18. PassIsNew'
    BY <1>1, <1>6, <1>7, <1>8, <1>9, <1>10, <1>16, <1>17 DEF PassIsNew
  <1>19. ToldOnce'
    BY <1>1, <1>2 DEF ToldOnce
  <1> QED BY <1>12, <1>15, <1>18, <1>19 DEF OnceInv

LEMMA TellKeepsOnce == ASSUME TypeInv, OnceInv, Calm', Tell PROVE OnceInv'
  <1> DEFINE u == pass.who
  <1>1. /\ UNCHANGED <<chainVars, entry, stored, amiss>> /\ pass.at = "tell"
    BY DEF Tell
  <1>2. /\ Calm /\ ListsWhole /\ ToldIsKept /\ PassIsNew /\ ToldOnce
        /\ EntriesOwn /\ PassOwn
    BY <1>1, CalmGives DEF TypeInv
  <1>3. PICK x \in pass.unsent :
          /\ told' = [told EXCEPT ![u][x[1]] = IF @ < 2 THEN @ + 1 ELSE @]
          /\ pass' = [pass EXCEPT !.unsent = @ \ {x},
                                  !.at = IF pass.unsent = {x} THEN "store" ELSE "tell"]
    BY DEF Tell
  <1>4. /\ pass'.who = u /\ pass'.diff = pass.diff /\ pass'.unsent = pass.unsent \ {x}
        /\ pass'.at \in {"tell", "store"}
    BY <1>3 DEF TypeInv, OwnInv, Shape, PassFields
  <1>5. /\ u \in Users /\ pass.unsent \subseteq pass.diff /\ pass.diff \subseteq OnChain(u)
        /\ \A y \in pass.unsent : told[u][y[1]] = 0
        /\ entry[u].wallet = u => pass.diff \subseteq entry[u].seen \cap entry[u].known
    BY <1>1, <1>2 DEF PassOwn, PassIsNew
  <1>6. PICK p \in Payments : x = <<p, at[p]>>
    BY <1>5 DEF OnChain
  <1> HIDE DEF u
  <1>7. /\ told'[u][p] = 1
        /\ \A v \in Users, q \in Payments : (v # u \/ q # p) => told'[v][q] = told[v][q]
    <2>1. told[u][p] = 0
      BY <1>5, <1>6
    <2> QED BY <1>3, <1>5, <1>6, <2>1 DEF TypeInv, OwnInv, Shape
  <1>8. \A w : OnChain(w)' = OnChain(w)
    BY <1>1 DEF chainVars, OnChain
  <1>9. ListsWhole'
    BY <1>1, <1>2, <1>8 DEF ListsWhole
  <1>10. ASSUME NEW v \in Users, NEW list, Holds(list, v), v = u => x \in list
         PROVE  Holds(list, v)'
    <2> SUFFICES ASSUME NEW q \in Payments, told'[v][q] > 0 PROVE <<q, at[q]>> \in list
      BY <1>1 DEF Holds, chainVars
    <2>1. CASE v = u /\ q = p
      BY <1>6, <1>10, <2>1
    <2>2. CASE v # u \/ q # p
      BY <1>7, <1>10, <2>2 DEF Holds
    <2> QED BY <2>1, <2>2
  <1>11. \A v \in Users : Telling(v)' = Telling(v)
    BY <1>1, <1>4 DEF Telling, u
  <1>12. Telling(u) = pass.diff /\ x \in pass.diff
    BY <1>1, <1>5 DEF Telling, u
  <1>13. ToldIsKept'
    <2>1. \A v \in Users : Holds(stored[v] \cup Telling(v), v)'
      <3> SUFFICES ASSUME NEW v \in Users PROVE Holds(stored[v] \cup Telling(v), v)'
        OBVIOUS
      <3>1. Holds(stored[v] \cup Telling(v), v)
        BY <1>2 DEF ToldIsKept
      <3>2. stored'[v] \cup Telling(v)' = stored[v] \cup Telling(v)
        BY <1>1, <1>11
      <3> DEFINE list == stored[v] \cup Telling(v)
      <3>3. v = u => x \in list
        BY <1>12
      <3> QED BY <1>1, <1>10, <3>1, <3>2, <3>3
    <2>2. \A v \in Users : entry'[v].wallet = v => /\ stored'[v] \subseteq entry'[v].seen
                                                   /\ Holds(entry[v].known, v)'
      BY <1>1, <1>2, <1>5, <1>10 DEF ToldIsKept
    <2> QED BY <2>1, <2>2 DEF ToldIsKept
  <1>14. PassIsNew'
    <2>1. ASSUME NEW y \in pass'.unsent PROVE told'[u][y[1]] = 0
      <3>1. PICK q \in Payments : y = <<q, at[q]>>
        BY <1>4, <1>5 DEF OnChain
      <3>2. y # x /\ y \in pass.unsent
        BY <1>4
      <3> QED BY <1>5, <1>6, <1>7, <3>1, <3>2
    <2> QED BY <1>1, <1>4, <1>5, <1>8, <2>1 DEF PassIsNew
  <1>15. ToldOnce'
    BY <1>1, <1>2, <1>7 DEF ToldOnce, Calm
  <1> QED BY <1>9, <1>13, <1>14, <1>15 DEF OnceInv

LEMMA StoreKeepsOnce == ASSUME TypeInv, OnceInv, Calm', Store PROVE OnceInv'
  <1> DEFINE u == pass.who
             p == [pass EXCEPT !.diff = {}]
  <1>1. /\ UNCHANGED <<chainVars, entry, told, amiss>> /\ pass.at = "store" /\ Answers(u)
        /\ stored' = Stored({u}) /\ pass' = GoOn(p)
    BY DEF Store, StoredOne, Cleared, historyVars
  <1>2. /\ Calm /\ ListsWhole /\ ToldIsKept /\ PassIsNew /\ ToldOnce
        /\ EntriesOwn /\ PassOwn
    BY <1>1, CalmGives DEF TypeInv
  <1>3. u \in Users /\ entry[u].wallet = u
    BY <1>1, <1>2 DEF PassOwn, EntriesOwn, Answers
  <1>4. DOMAIN p = PassFields
    BY DEF TypeInv, OwnInv, Shape, PassFields
  <1>5. pass.diff \subseteq entry[u].seen
    BY <1>1, <1>2, <1>3 DEF PassIsNew
  <1>6. \A v \in Users : Telling(v) = IF v = u THEN pass.diff ELSE {}
    BY <1>1 DEF Telling
  <1> HIDE DEF u, p
  <1>7. pass'.at \in {"idle", "visit"}
    BY <1>1, <1>4, GoOnAt
  <1>8. \A v \in Users : stored'[v] = IF v = u THEN entry[u].seen ELSE stored[v]
    BY <1>1, <1>2, <1>3, StoredIs
  <1>9. \A w : OnChain(w)' = OnChain(w)
    BY <1>1 DEF chainVars, OnChain
  <1>10. ListsWhole'
    BY <1>1, <1>2, <1>8, <1>9 DEF ListsWhole
  <1>11. \A v \in Users : \A list : Holds(list, v)' <=> Holds(list, v)
    BY <1>1 DEF Holds, chainVars
  <1>12. \A v \in Users : \A S, T : Holds(S, v) /\ S \subseteq T => Holds(T, v)
    BY DEF Holds
  <1>13. ToldIsKept'
    <2>1. ASSUME NEW v \in Users
          PROVE  /\ Holds(stored'[v] \cup {}, v)
                 /\ entry'[v].wallet = v => /\ stored'[v] \subseteq entry'[v].seen
                                            /\ Holds(entry'[v].known, v)
      <3>1. /\ Holds(stored[v] \cup Telling(v), v)
            /\ entry[v].wallet = v => /\ stored[v] \subseteq entry[v].seen
                                      /\ Holds(entry[v].known, v)
        BY <1>2 DEF ToldIsKept
      <3>2. stored[v] \cup Telling(v) \subseteq stored'[v]
        BY <1>3, <1>5, <1>6, <1>8, <3>1
      <3>3. Holds(stored'[v], v)
        BY <1>12, <3>1, <3>2
      <3> QED BY <1>1, <1>8, <3>1, <3>3
    <2>2. \A v \in Users : Telling(v)' = {}
      BY <1>7 DEF Telling
    <2> QED BY <1>11, <2>1, <2>2 DEF ToldIsKept
  <1>14. PassIsNew' /\ ToldOnce'
    BY <1>1, <1>2, <1>7 DEF PassIsNew, ToldOnce
  <1> QED BY <1>10, <1>13, <1>14 DEF OnceInv

LEMMA OnceStep == TypeInv /\ OnceInv /\ [Next]_vars => OnceInv'
  <1> SUFFICES ASSUME TypeInv, OnceInv, [Next]_vars, Calm' PROVE OnceInv'
    BY DEF OnceInv
  <1>0. OwnInv
    BY DEF TypeInv
  <1>1. ASSUME NEW u \in Users, NEW old \in Users,
               \/ SpinUp(u) \/ TakeOver(u, old) \/ WatchDog(u)
               \/ TakeOverDead(u, old) \/ CheckAborts(u) \/ RestartWallet(u)
        PROVE  OnceInv'
    BY <1>0, <1>1, SettersKeepOnce, OthersKeepOnce
  <1>2. ASSUME NEW u \in Users, Refresh(u) \/ Crash(u)
        PROVE  OnceInv'
    BY <1>0, <1>2, ProcessKeepsOnce
  <1>3. CASE SaveWallets \/ Reboot
    BY <1>0, <1>3, SaversKeepOnce
  <1>4. CASE Begin \/ VisitThrows \/ StoreThrows \/ TellThrows \/ Reorg
    BY <1>0, <1>4, EdgesKeepOnce
  <1>5. CASE Visit \/ Tell \/ Store \/ Mine
    BY <1>5, VisitKeepsOnce, TellKeepsOnce, StoreKeepsOnce, MineKeepsOnce
  <1>6. CASE UNCHANGED vars
    <2>1. \A w, list : Holds(list, w)' <=> Holds(list, w)
      BY <1>6 DEF Holds, vars, chainVars, historyVars
    <2>2. \A w : OnChain(w)' = OnChain(w) /\ Telling(w)' = Telling(w)
      BY <1>6 DEF OnChain, Telling, vars, chainVars
    <2>3. UNCHANGED <<entry, stored, pass, told, amiss>>
      BY <1>6 DEF vars, historyVars
    <2>4. Calm /\ ListsWhole /\ ToldIsKept /\ PassIsNew /\ ToldOnce
      BY <2>3 DEF Calm, OnceInv
    <2>5. ListsWhole' /\ ToldIsKept'
      BY <2>1, <2>2, <2>3, <2>4 DEF ListsWhole, ToldIsKept
    <2>6. PassIsNew' /\ ToldOnce'
      BY <2>2, <2>3, <2>4 DEF PassIsNew, ToldOnce
    <2> QED BY <2>5, <2>6 DEF OnceInv
  <1> QED BY <1>1, <1>2, <1>3, <1>4, <1>5, <1>6 DEF Next, Pass

(* Nobody is told twice of one payment, over crashes and restarts of wallets and bot and entries *)
(* that go and come again: processNewTransactions stores a wallet as soon as its user was told,  *)
(* and a block's transfers come to a wallet's list together.  Not so when that store fails, the  *)
(* bot dies before it, the messages break off, a set-up leaves no list, or a block is replaced.  *)
THEOREM TellsOnce == Spec => []ToldOnce
  <1>1. Init => TypeInv /\ OnceInv
    BY TypeInit, OnceInit
  <1>2. TypeInv /\ OnceInv /\ [Next]_vars => TypeInv' /\ OnceInv'
    BY TypeStep, OnceStep
  <1>3. OnceInv => ToldOnce
    BY DEF OnceInv, ToldOnce, Calm
  <1> QED BY <1>1, <1>2, <1>3, PTL DEF Spec

=============================================================================
