# Monero-TipBot: a TLA+ model

The TipBot is a Discord bot that keeps a Monero-style wallet for every user of a
server.  Users tip one another, take from a faucet, and play a weekly lottery.  The
C++ sources (`src/src`, about 4000 lines) are built on three libraries: Poco, cereal
and sleepy-discord.  Every wallet is held open by a process of its own
(`monero-wallet-rpc`), which the bot starts, talks to over HTTP, restarts and kills.

This directory holds models of the parts in which order, concurrency and failure
decide about people's money, the configurations that check them with TLC, and
proofs checked by TLAPS.

    tlc -workers 2 -config PoolFaults.cfg MCWalletPool.tla
    tlapm WalletPoolProofs.tla

`PROJECT.json` maps every definition to the lines it models, and lists the hazards, the
runs, the theorems, and for every property an error in the code that would break it.

## 1. The system

| part | state | operations | talks to |
|---|---|---|---|
| account pool, `RPCManager` | `RPCMap`: user -> process id, port, account, timestamp; `currPortNum`; mutex `mu`; `RPCDATA.json` | `getAccount`, `restartWallet`, `manuallyCreateRPC`, `save`, `load`, destructor | wallet processes; accounts |
| pool thread, `RPCManager::run` | timers | `watchDog`, `processNewTransactions`, `SaveWallets`, `save` | pool, Discord |
| wallet requests, `RPC` | a port | one method per JSON-RPC request; every one may throw | one wallet process |
| `Account` | owner, balances, mutex, pointer to an `RPC` | `resyncAccount`, four transfers, `getWalletAddress` | pool (for the receiver), `RPC` |
| message handler, `TIPBOT` | `Apps`, `UserList`, `DISCORDDATA.json` | `onReady`, `onMessage`, `findUser`, `refreshUserList` | every app, pool |
| command threads, `dispatcher` | `GlobalConfig.General.Threads` | one detached thread per command | apps |
| `Tip` | `MyAccount`, two toggles | `!give`, `!giveall`, `!withdraw`, ..., restarts, shutdown | account, pool, main |
| `Faucet` | `enabled`, records in `UserList`, `UknownUser` | `!take` and reports | pool, user list |
| `Lottery` | `lastWinningTopBlock`, `prevWinner`, suspension, three flags of its thread; `LOTTERY.JSON`; a wallet process outside the map | weekly draw and sweep, `!buytickets`, suspend | its process, pool |
| `main` | `Shutdown`, `Quitting` | start, wait, destroy, start over | everything |
| `Config`, `Util`, exceptions | constants, pure functions | | |

What is hard in it:

- **Wallet processes fail on their own**: they start slowly, exit because a port is
  taken, crash, refuse requests, or outlive a bot that died.
- **Detached threads share plain variables**: one account pointer per app, one user
  list, one thread counter, the flag `Shutdown`; none has a mutex.
- **References outlive their locks**: `getAccount` returns a reference into a map from
  which a later call erases.
- **Exceptions leave work half done**: after an entry was made, after a payment, after
  a file was emptied.
- **Long protocols in flags**: the lottery's week, the restart of the bot.

What makes each part correct: the pool hands a user the account, process and wallet that
are his; a command spends its author's money, once, and commands do not stop each other
for ever; the faucet pays once per timeout, and its records and the file agree on it; the lottery draws once a week, never sweeps what is still to be drawn, and
remembers across restarts what was drawn; the background thread tells a user of every payment
to him, once, and nobody else; the bot destroys nothing under a running
thread, and every restart and shutdown completes.

## 2. Modules

| module | models | code |
|---|---|---|
| `AccountPool` | what the pool promises its callers (abstract) | the interface of `RPCManager.cpp` |
| `WalletPool` | the pool, its processes, ports, wallets, files; one call at a time under `mu` | `RPCManager.cpp`, `Account.cpp:274-289`, `RPC.cpp` |
| `WalletPoolRefinement` | the mapping under which `WalletPool` implements `AccountPool` | |
| `Notifier` | the pool's background thread: announcing payments, watchdog, storing | `RPCManager.cpp`, `RPC.h:60` |
| `Dispatch` | handler, command threads, shared pointer, mutexes, the commands of `Tip` but for `!softrestart`, `!shutdown` and the ones that only print | `Discord.cpp`, `Tip.cpp`, `Account.cpp` |
| `WeeklyGame` | the lottery as the players are told about it (abstract) | `Lottery::gameInfo` |
| `Lottery` | the lottery's thread, tickets, flags, file | `Lottery.cpp` |
| `LotteryRefinement` | the mapping under which `Lottery` implements `WeeklyGame` | |
| `Faucet` | `!take`, the user list, its file, and the READY events that continue it | `Faucet.cpp`, `Discord.cpp` |
| `Lifecycle` | start, restart and shutdown | `main.cpp`, `Discord.cpp`, `Tip.cpp` |
| `MC...` | constants of each for TLC | |
| `WalletPoolProofs`, `EntriesProofs`, `RefinementProofs` | theorems about `WalletPool` | |
| `NotifierProofs`, `DispatchProofs`, `LotteryProofs`, `FaucetProofs`, `LifecycleProofs` | theorems about the module each is named after | |

A conjunct or action is named after the function it stands for where there is one.
The constant `Faults` of each module says which failures may happen; every failure
is an action, or a disjunct, of its own, so a run chooses the world it is about.
Operators that a comment calls "variant with a mistake" are not part of the
specifications: each is a plausible error in the definition that follows it, and a
property is only kept if such an error breaks it.

The modules meet at the pool.  `AccountPool` is its face to the rest; `WalletPool` is
shown to implement it, and `Notifier` and `Dispatch` take from it what they need: a call
that holds the pool's mutex to its end is one step there, and may fail.  The threads
that the other modules are about are started and stopped in `Lifecycle`.

### AccountPool

A caller asks for a user's account.  A member's is looked up; anybody else becomes a
member, and another leaves only if there is no room.  The call is granted, with that
user's wallet behind the account, or fails; after a grant the wallet may die, but is
never replaced until the caller returns.  A stop forgets the members, a start brings back
those saved last.

### WalletPool

`RPCMap` is the set of users with an entry, `Proc` what their entries hold, `older`
the order of their timestamps (pairs; unordered after a reload, where the code gives
all of them the same start), `server` what runs on each port and which wallet it has
open, `files` the wallets and address files on disk.  `call` is the operation that
holds `mu` and how far it is: `getAccount` goes `wait` (`waitForRPCToRespond`),
`wallet` (`openWallet`, or `createWallet`), `transfers`, `check` (the ownership check),
`resync`, `granted`.  Between the steps wallet processes crash and the bot may die.
A pid is 0, or the process that is bound to the entry's port, or the id of one that is
gone; `MCWalletPool` gives values to the constants.  Reloading takes the saved entries in
any order; the code takes them by id.  When a reload gives an entry up, the loop that
stands on it may go on or take the bot down: both are steps.

### Notifier

An entry has a process that is alive or not, the wallet open in it, the transfers that
wallet has found so far (`seen`) and the list the bot keeps (`known`).  A pass of
`processNewTransactions` goes `visit`, `tell`, `store` for each entry in the order of the
ids, and every exception ends it where the code's `catch` does.  `diff` is the vector that
lives across the loop.  Transfers are compared by block only, so `Differences` is a set of
outcomes.  Blocks, refreshes of wallets and crashes of processes come between any two
steps; the other operations that hold the pool's mutex come between two passes.
`watchDog` counts an unreachable wallet's errors in a copy it never initialises: it may
restart a process that answers with errors after any number of them, or never.

### Dispatch

One record of `th` per thread.  The handler goes `idle`, `pool`, `resync` and then
starts a worker and leaves the account in `MyAccount`; a worker goes `start` (reads
`MyAccount`), `lock`, `guard`, `pool`/`resync` (for the receiver), `transfer`,
`note`, and `answer`, where `!withdrawall` and `!giveall` read `MyAccount` once more for what
they reply.  A command of `Tip` is a kind: the payments, the switches (`allowed`),
`!restartwallet`, `!restartfaucet`, which restarts the wallet of the user `Bot`, `!myaddress`,
which opens a wallet only if its address file is missing, and the admins' walks over the map,
which take no mutex.  Commands that only print or look up texts are the kind `plain`;
`!softrestart` and `!shutdown` are in `Lifecycle`.  `cache` is the pool as it looks from here:
the users in it; `newer` stands for the time stamps: for each of them, who was used since.
An entry that is taken over is a copy of the old one, time stamp included, and keeps it when
its set-up throws.  An account that is erased becomes the pointer `Freed` for everybody who holds it;
using it, or null, ends the behaviour (every thread is `crashed`), since anything may follow.  A
getAccount that fails is one step here; `WalletPool` has its parts.  It leaves the entry
behind, or takes it away, also one that was there before and failed the ownership check; not
the one the command pays from, which has passed that check.  Amounts are small:
a tip is 1, fees are left out except that an amount must be below the balance.

### Lottery

The clock is the part of the week, as far as the code tells it apart; one pair of `day`
and `night` stands for the six days without a draw.  A ticket is a payment in a block
of its own, so `lastWinningTopBlock` is the number of the newest ticket that was in a
draw.  `pc` is where the thread's pass is: `head`, `pay`, `note`, `save`.  Checking the
price and paying it are one step of `BuyTicket`.  `Price` and `Prize` keep the relation
of a ticket's price to what it adds to the reward; the share for the faucet is whatever
they differ by (`Lottery.h:6` says 5 %, the configuration 20 %).

`WeeklyGame` knows three stages of the week, the tickets bought since the last draw,
and the money in the lottery.  `LotteryRefinement` reads them off the clock and the wallet:
a payment counts from the moment it is made, a draw from the moment its winner is
paid.  `WeeklyGame` speaks of a lottery that nothing has gone wrong with (`smooth`): a
failure, a blank draw, a suspension or a stop releases it from its promises.

### Faucet

A record has the time of the next payment and how many there were; `UserList` maps
servers to users to records; the first list that has a user, by server id, counts, and
`Unknown` is the one record `UknownUser` for all whom Discord does not tell anything about.
`!take` is one step per request to a wallet, to Discord or to the disk, and other threads
run between them.  `!status`, `!history` and `!whois` are `Look`: they may add a user.

Saving is three steps (`OpenFile`, `Serialise`, `CloseFile`), for a command and for the thread
`Socket` of Discord's events.  The file is empty from the first to the last; the list is what it
was at `Serialise`.  If anybody else was between his first and last step meanwhile (`file.clean`
is `FALSE`), what is left is the list of the thread that closes, which may be the older one,
a mixture of it and what was in the file, or nothing that can be read.

A READY (`OnReady`, then `Refresh` per server) reads the file, and asks Discord for the members of
each server from the last user of its list on: these get fresh records at the end of the
list, also when they have a record on another server.  This happens at every start and whenever
Discord says READY while the bot is up; then the records that commands hold are freed
(`Freed`: what such a record says is anybody's guess, and what is written to it is lost).
A READY that cannot read the file takes the bot down.

Four history variables tell what the properties speak about: `granted`, when a user was last
paid; `payments`, by which of his records; `lost`, the users a payment or record of whom was
lost (a note threw after its payment, the bot died before it was written, or a READY read an
older file); `moved`, the users who came to a record in a list before their first one, or were
served with `Unknown`.

### Lifecycle

`main` goes `top`, `serving`, `client` (in `~TIPBOT`), `waiting`, `reset`, `top`.  A thread
is `spawned` (started, not yet counted), then looks at `Shutdown` (`test`), works, and
counts itself out.  `stale` says how a thread lost the client, pool or Lottery it was given:
a second READY replaced its Lottery; or main destroyed them all when the thread was not
counted yet (`late`), or was (`left`).  An update of the counter may be lost while another
thread is about to make one (fault `race`); a counter that wraps around has lost all
increments before.  The history variable `missed` collects what main's wait went without: lost
increments (`in`), lost decrements (`out`), and threads that were late (`late`).  A late command
may call `quit()` on a client that is gone: it closes the new connection or nothing.

## 3. What the runs check

| run | module, configuration | shows |
|---|---|---|
| `pool_faults` | `MCWalletPool`, `PoolFaults.cfg` | three users, two entries, three ports; processes are slow, fail, crash, cannot write the address file.  Nobody gets another's wallet (`GrantsOwnWallet`), no two entries share a process (`PortsDistinct`, `WalletStaysOpen`), a pid kills the right process (`PidServesPort`) and never the bot's own group (`NeverKillsItself`), the map keeps its limit (`WithinLimit`, `OldAccountDestroyed`), only the ownership check forgets a live process (`OnlyTheCheckLosesProcesses`), and all of it is an `AccountPool` (`PoolSpec`) |
| `pool_restart` | `PoolRestart.cfg` | the same with launches that throw, restarts, and a bot that dies while its processes live.  The structure above is lost, `GrantsOwnWallet` and `PoolSpec` are not |
| `notifier_faults` | `MCNotifier`, `NotifierFaults.cfg` | two payments to the middle one of three users, two entries, one failure of any kind at any point (or a crash with an error): no payment is announced twice (`ToldOnce`), to somebody else (`ToldOfOwn`), or shown to somebody else (`HistoryIsOwn`), and each is announced in the end (`ToldInTheEnd`) |
| `dispatch_serial` | `MCDispatch`, `DispatchSerial.cfg` | one command at a time, of every kind, four users on three entries, up to two users mentioned: the author pays (`AuthorPays`), and his account is not erased under the command (`UsesLiveAccounts`: the entries a command uses are the newest) |
| `dispatch_all` | `DispatchAll.cfg` | two commands at a time, all failures, and a watchdog that gives wallets up: mutexes are released on every way out (`MutexesAreReleased`), two commands do not spend the same money (`SpendsWhatItChecked`), and commands stop each other for ever in one way only: one holds the pool's mutex and waits for the account the other pays from, which waits for the pool's (`OnlyTheCircleStops`) |
| `dispatch_author` | `DispatchAuthor.cfg` | **violation**: with two commands at a time, the wrong user pays |
| `lottery_faults` | `MCLottery`, `LotteryFaults.cfg` | all failures, stops and suspensions: `OneDrawAWeek`, `NoTicketPaidTwice`; and as long as nothing went wrong, `JackpotBacked`, `TicketsAreDrawn`, and `GameSpec`: the lottery implements `WeeklyGame` |
| `lottery_rollover` | `LotteryRollover.cfg` | **violation**: after a draw without winner the jackpot does not roll over |
| `faucet_users` | `MCFaucet`, `FaucetUsers.cfg` | two users on two servers, each waiting for his answer, every failure, a READY, restart or crash at any point.  A file whose last writer was alone holds the list (`FileHoldsList`); a young account is paid only with the unknown user's record or one that a READY freed (`OldUnlessUnknown`); who has not lost a record and not come to one in an earlier list is paid once per timeout (`OneTakePerTimeout`); and each of his records, on either server, holds the payments made by it (`SentAddsUp`) |
| `faucet_impatient` | `FaucetImpatient.cfg` | **violation**: one user, two commands in a row, both paid |
| `lifecycle_stops` | `MCLifecycle`, `LifecycleStops.cfg` | starts that fail, connections that break, two READY events, late threads and lost updates of the counter.  A thread works without its client, pool or Lottery in the three ways that `UsesLiveObjects` names only; main starts over only beside threads that were late, unless an increment was lost (`OnlyLateOnesSurvive`); and as long as nothing was missed every shutdown ends (`ShutdownEnds`), and every stop comes to the next start (`Restarts`) |
| `lifecycle_threads` | `LifecycleThreads.cfg` | **violation**: main starts over beside threads of the client before, although no update of the counter is lost (`NoThreadSurvives`) |

**Violations.**  (1) `Tip::MyAccount` is one pointer for all commands (`Discord.cpp:215`);
the thread of a command reads it later, when another message may have replaced it, so the
wrong user pays, while the channel is told that the author did (`Tip.cpp:128`).  (2)
`Lottery.cpp:251` promises that the jackpot rolls over; after a blank draw the
hour of the sweep is passed twice, because 227-231 clear `sweepComplete` at once, and the
second pass donates the jackpot.  (3) `Faucet.cpp:131` promises one `!take` per timeout;
check (115) and record (121) are seconds apart.  (4) `main.cpp:172` says "Ensure all threads
are exited."; it waits for a counter that a new thread has not incremented yet.

Further divergences that the models contain as steps, and that limit what can be
checked, are in the hazards of `PROJECT.json`: the circular wait of pool and
account mutex (reachable in `dispatch_all`, which shows that there is no other; nothing is claimed
about commands that end), the walks of the admins over a map that changes, the
entry without owner after a launch that throws (why `WithinLimit` excludes it), the address
lookup that recurses, the entry that keeps another user's list after a set-up that failed
half-way (why `ToldOfOwn` and `HistoryIsOwn` exclude it), the user behind a wallet that stays dead
(whom `ToldInTheEnd` exempts), the sweep after a suspension, the Friday that is skipped after a
failed sweep, the record of `UknownUser`, the fresh record in an earlier list and the records that
a second READY forgets (why `OneTakePerTimeout` exempts `moved` and `lost`), and files that
overlapping saves leave behind.

**Bounds.**  Two entries and three users make eviction, hand-over and
re-admission happen; a third entry repeats the same relation between pairs.  Ports are
bounded by `MaxPort`: enough for every entry and one more, so that entries are lost
and replaced.  In `Notifier` the user who is paid has one user before and one behind him
in a pass; two payments share a block or do not; `Scenarios` lets every kind of failure
strike once, at any point.  Two workers and the handler are three threads on two mutexes.
`DispatchSerial` has three messages and one entry for the author and one for each user mentioned, which is what
`UsesLiveAccounts` needs: a `!give` that mentions as many users as there are entries
(`MAX_RPC_LIMIT`, 200, unless configured lower) erases its own author's account, and with
`Limit = 2` TLC shows it.  Three tickets
allow a paid draw, a failed one and one after that; weeks repeat without bound.
In `Faucet` a user is paid, may ask again after the timeout (`MaxTime`), and is
paid or refused; of the two users one is young and known to no server, the other a member
of both, whom either may name at either READY: so a list is continued, a record appears
before another, and a save of a command meets one of a READY.  Three threads in
`Lifecycle` are a loop that was replaced, its successor and the pool's, or a command in
one's place; the counter wraps at 4; restarts are unbounded.  `LifecycleStops` does not
explore what follows a lost increment (`StillCounts`), after which every property but the
types is given up for ever; the types are proved.
Whatever section 4 lists holds without these bounds.

`CHECK_DEADLOCK FALSE` is set where a bound on messages, time or ports, or a crash of
the bot, ends the behaviour.

**Fairness.**  `Notifier`: passes begin and go on, and wallets that live scan blocks (weak
fairness).  Nothing is assumed of the watchdog: a process that died may count as running, as
the bot never waits for its children (257), and the count of errors is a copy that is never
initialised (272).  So `ToldInTheEnd` exempts the users who are cut off, whose own wallet is dead or
who stand behind a dead one in the pass.  No fairness for set-ups that succeed: `SetUp` may fail, but
only once.
`Lottery`: the clock goes on, blocks are found, the thread's sleep
ends; no fairness for failures, buyers or admins.  `Lifecycle`: main and every thread run,
commands end (two that wait for each other do not: then nothing is claimed); no fairness
for messages, failures or commands that stop the bot.

## 4. What is proved

TLAPS checks the following for every value of the constants; only the assumptions the
modules state about them, and the named conditions below, are used.

| module | theorems | condition | inductive invariant |
|---|---|---|---|
| `WalletPoolProofs` | `GrantsOwnWalletAlways` (with `TypeOK`) | none | `GrantInv` |
| `EntriesProofs` | `EntriesStayApart`: `PortsDistinct`, `PidServesPort`, `NeverKillsItself`, `WithinLimit`; `ProcessesAreKept`: `OldAccountDestroyed`, `OnlyTheCheckLosesProcesses`, `WalletStaysOpen` | `BotRunsOn` | `EntryInv` |
| `RefinementProofs` | `ImplementsAccountPool` | none | `RefInv` |
| `NotifierProofs` | `TellsTheRightUser`, `ShowsTheRightHistory` | none | `OwnInv` |
| | `TellsOnce` | none | `OnceInv` |
| | `NotifierTypes` | none | |
| `DispatchProofs` | `MutexesHoldNothingBack`, `CheckedMoneyIsThere`, `NoOtherCircle` | none | `LockInv` |
| | `DispatchTypes` | none | `TypeInv` |
| | `AuthorsPay`, `AccountsLive` | `Serial` | `LiveInv` with `TurnInv`, `TypeInv` |
| `LotteryProofs` | `OneDraw`, `PaidOnce`, `JackpotIsThere`, `AnnouncedInTime` | none | `LotteryInv` |
| | `LotteryTypes` | none | |
| | `PlaysTheGame` | `Prize < Price` | `GameInv` with `LotteryInv` |
| `FaucetProofs` | `FileIsTheList`, `NoYoungTaker`, `FaucetTypes` | none | `BaseInv` |
| | `RecordsHoldPayments`, `OneTakeEach` | `Patient` | `TakeInv` with `BaseInv` |
| `LifecycleProofs` | `ObjectsOutliveThreads`, `ThreadsEndFirst` | none | `LifeInv` |
| | `LifecycleTypes` | none | |

Every invariant that a run checks is among them.  But for some of the type invariants none is
inductive by itself.  What each inductive invariant adds:

- `GrantInv`: an entry's account names its user, or nobody while it has no port; a port in
  use is never below the pool's first one, so the lottery's wallet, opened one port below,
  is never opened over a user's; a `getAccount` in progress has its entry in the map.  The one
  step that makes `GrantsOwnWallet` true is `CheckPasses`; of every other step it is shown
  that it does not undo this between the check and the return.
- `EntryInv`: every entry has had a process, on a port given out once, and nobody listens
  yet on the ports that come next.  `BotRunsOn` excludes launches that throw, restarts and
  crashes of the bot: with them the properties are false.
- `RefInv`: a bot that is down has no entries and no call, and only a reload waits for a
  launch.  Then every action is, through the mapping, one of `AccountPool` or a stutter.
- `OwnInv`: everything an entry, a stored wallet or the pass holds went to the user it is
  kept for, and between two visits the vector `diff` is empty.
- `OnceInv`: transfers are found and stored by whole blocks, so the number of the newest block
  stands for all of them; what the bot has in memory was found by the wallet, and what it
  announces in a pass is new to the list it keeps (`RPC.h:60`).  It needs finitely many payments.
- `LockInv`: a thread holds the pool's mutex only while it resyncs, the mutex of the account
  it works on unless that was destroyed, and no other; and what it has read of the balance
  is there as long as it does.  From it `NoOtherCircle` follows: a thread that waits for the
  pool's mutex waits for one that resyncs, which can only wait for an account's; so each of a
  set of threads that wait for each other leads to the pair.  It says nothing about which account that is: with two commands
  at a time `AuthorPays` is false.
- `TurnInv`: at most one thread is busy, or an account that is not there was used, and all
  have stopped.
- `LiveInv`: `Tip`'s pointer leads to the author of the command that runs, his entry is in the map, and
  there is `Room` for him: the users with a newer time stamp and those the command has still to
  pay are fewer than `max_rpc_limit`, so that when the map is full the oldest entry is
  not his.  `Serial` has three parts, and none can be left out.  One command at a time: otherwise
  `dispatch_author`.  No watchdog that gives a wallet up: it takes away the entry of an account a
  command works on.  And no message that mentions `max_rpc_limit` users or more: `getAccount` for
  the last of them destroys the author's account, under the lock that his transfer holds
  in it.
- `LotteryInv`: which flags may be up in which part of the week, with how much money and which
  tickets; a paid ticket lies at or below the height on disk, but for the draw at hand.
- `GameInv`: until the draw the wallet holds exactly what the waiting tickets cost, a draw in
  progress has all of them and all of it, and the thread leaves the last hour of the week only
  when nothing is left.  `Prize < Price` says that the faucet gets a share: the code pays
  only amounts below the balance (`Account.cpp:166`), so without a share no winner is ever paid.
  Then each step is, through the mapping, a move of the game, a stutter, or something going wrong.
- `BaseInv`: what a thread is about by the step it is at; and as long as the file's last writer was
  alone, at most one thread is between opening and closing it, what that thread has serialised
  is the list unless somebody is about to save again, and so is what the closed file holds.
- `TakeInv`: nobody has two `!take`s; unless a user is `lost`, each of his records, in the list or,
  while the bot is down, in the file, has the payments made by it but for one a command has still
  to write down; unless he is also `moved`, his first record asks for the timeout after his last
  payment, and a command of his holds that record and pays only what is due.  `Patient` says
  that users wait for an answer; `faucet_impatient` shows that it takes this.
- `LifeInv`: unless an increment was lost the counter is at least the number of threads that
  have counted themselves and not out (a lost decrement makes it more), so that what main leaves
  behind has yet to be counted; and a replaced Lottery is one of a second READY.

Invariants that combine numbers with updates of records are proved by lemmas that first say what
an update leaves in each field (`GoFields`, `GotoFields`, ...), then what a step of one
thread does to the rest (`OneThread`, `SameList`, `WroteTake`, `SameEntries`, ...), then one lemma per
action, in the order of `Next`.

Model-checked only: liveness (`ToldInTheEnd`, `TicketsAreDrawn`, `ShutdownEnds`,
`Restarts`), which is beyond the prover; it needs fairness and ENABLED.  Every other property
of a passing run is stated by a theorem above.

## 5. Not modelled

- Configuration (`Config.cpp`): it is read once, from one file, and its values are the constants
  of the modules.  The first-run dialogue.
- Texts, formatting, parsing, permissions, and the commands that only report.
- Amounts: fees, floating point.  The number of tickets of a payment is a floating-point quotient
  that is cut off (`Lottery.cpp:152`); with some coins and prices a ticket may be missing.  TLA+
  has no floating-point numbers to state this with.
- The contents of files: `WalletPool` keeps the users that `RPCDATA.json` lists.  After a crash
  between emptying and writing it the bot does not start again (hazard at `RPCManager.cpp:328`).
- In `Faucet`: two threads that change the list's containers at the same moment (a torn map,
  a record read half-written), a file that cannot be opened at all, and how the operating
  system orders the bytes of two writers beyond what `CloseFile` allows.
- Undefined behaviour other than the lost counter update, the use of destroyed accounts and
  `quit()` on a destroyed client: a late thread of `Lifecycle` may also take the process down,
  the compiler may treat `while (Threads);` as a loop that never looks again, and
  `!history` reads a list of transfers while the background thread replaces it.
- Ports above 65535, which a bot that runs long enough, losing entries, would reach.
- Three losses that are the code's plain behaviour and leave nothing to check: a note that fails
  after its payment reports the payment as failed; a `!give` to several users that fails
  half-way has paid the first ones; the last winner is forgotten by a restart (`Lottery.cpp:71`).
- The libraries: modelled from how they are used.

## 6. Plan

Done: the core (`WalletPool`, with its first theorem); then, in the order of what users lose
when they go wrong, `Dispatch`, `Lottery`, `Faucet`, `Lifecycle`; `Notifier`; the abstract
`AccountPool` and `WeeklyGame` and their refinements; theorems for every module.

Left:

1. `Dispatch` over `AccountPool` by instantiation, in place of the set `cache`: `AccountPool`
   leaves open which member goes, and would have to promise that it is the oldest.
