# A TLA+ development of etheos

etheos is an Endless Online server: one process, one server loop, a small
thread pool, a database, and a world of maps, characters and NPCs. This
directory holds TLA+ specifications of the parts of it whose correctness
depends on order and interleaving, the configurations that check them with TLC,
and proofs, checked by TLAPS, of the properties that matter most. Paths below
are relative to `src/src/` unless they start with `config/`.

## 1. The system

### Threads and control

* **The server loop** (`main.cpp`, `EOServer::Tick`) accepts connections,
  reads packets, runs timers (`Timer::Tick`) and buries closed clients. All
  packet handlers and all timer events run on it, one after the other.
* **The workers** of `util::ThreadPool` run the bodies and the callbacks of
  `AsyncOperation`s: the password check of a login, the creation of an account,
  a change of password, and the background update of an old password hash.
  Callbacks touch the `EOClient`, the `World`'s pending logins and the
  database without going back to the loop; a login also loads the characters
  of its account there, and with them their guilds.

So there are two worlds. Between loop and workers everything may interleave;
inside the loop, handlers are atomic, and the difficulty is state spread over
several objects that many handlers must keep in step: the two halves of a
trade, the members of a party, an NPC's list of attackers. A third kind of
trouble are calls that come back: a timer's callback that deletes events of the
timer, a quest's action that has the rules of all quests looked at, a warp in
the middle of a handler.

### Inventory

| Component | State | Operations | Hard behaviour | What makes it correct | Module |
|---|---|---|---|---|---|
| Thread pool (`util/threadpool`, `util/semaphore`) | queue, semaphore, `_terminating`, threads | Queue, SetNumThreads, Shutdown, worker loop | resize and shutdown against workers between token and mutex | never an empty `front()`, each job once and in order, joins return | `ThreadPool`, `WorkQueue` |
| Start-up (`main.cpp` 349-369) | option, size of the pool | sizing before serving | values at the caps | configured size, accepted work runs | `ServerThreads` |
| Connections and sessions (`eoserver`, `eoclient`, `socket`, `loginmanager`, `util/async`, handlers Init, Login, Account, Welcome, Connection) | clients and their states, `async_op_pending`, `login_attempts`, pending logins, `_processCount` | connect, evict, hang up, ping, login, create account, change password, bury | callbacks on workers against the loop; exceptions between two steps | one operation per client, a player behind every logged-in state, limits, everything buried in the end | `Session` |
| Trading (`handlers/Trade.cpp`, `character.cpp`) | `trading`, `trade_partner`, `trade_agree`, `trade_inventory`, inventory | request, accept, add, remove, agree, close, and walk, warp, die, log out | two halves kept in step by a dozen handlers, stale requests, quest rules called in the middle | halves agree, agreement is current, goods conserved | `Trade`, `Barter` |
| Sequence numbers (`eoclient.cpp`, `eoserver.cpp`, handlers Init, Account, Connection) | `seq_start`, `upcoming_seq_start`, `seq`, action queue | init, ping, pong, account reply, check | packets in flight over a ping, a queue between check and handler | an honest client is not dropped | `Sequence` |
| Send buffers and upload (`socket.cpp`, `eoclient.cpp`) | two ring buffers, the file | send, upload, read on, swap back | limits, packets during an upload | bytes in order, no packet inside a file | `Uploads` |
| Party (`party.cpp`, `handlers/Party.cpp`) | members, leader, each player's pointer | request, accept, remove, leave, log out | pointers both ways, a request older than the party | list and pointers agree | `Party` |
| Guild (`guild.cpp`, `handlers/Guild.cpp`) | guilds, the weak cache, lists, creations, rows | create, confirm, join, kick, rank, leave, disband | confirmations going stale; a worker loads a character meanwhile | whoever is in a guild is on its list | `Guild` |
| Wedding (`wedding.cpp`, Priest, Marriage) | state, tick, two names, requests | request, accept, answer, timer, divorce | late answers, guests leaving | married by two vows, the ceremony ends | `Wedding` |
| Arena (`arena.cpp`, `map.cpp`) | occupants, each fighter's pointer | spawn, hit, leave, die, reload | death, logout and reload inside | count equals occupants | `Arena` |
| NPCs (`npc.cpp`) | hp, damage list, `unregister_npc`, parent | hit, die, spawn, bosses, shares of experience | attackers and parents that are gone | lists and back pointers agree, a kill's experience is handed out | `Monsters` |
| What is shown (`map.cpp`, Walk, Warp, Refresh, Sit, Chair) | position, sitting, who knows of whom | enter, leave, walk, sit, refresh | edges of the range, tiles of chairs, warps under way | clients show what is in range | `View` |
| Items, chests, equipment (`character.cpp`, `map.cpp`, Item, Chest, Locker, Paperdoll) | inventory, paperdoll, ground, chest, locker | drop, get, junk, put, take, wear, spawn | each limit cut after the source was emptied | nothing made or lost | `Goods` |
| Bank, shop, skills, barber, inn, jukebox | `npc`, `npc_type`, gold, bank, points, skills, home | open, pay, learn, subscribe | stale NPC, warps by rules in the middle | dealings only with who is there, nothing for free | `Errands` |
| Quests (`quest.cpp`, `eoplus`) | state and progress of each quest, depth | states, actions, rules, reload | re-entrant state changes, exceptions | counted once, nothing left counted | `Quest` |
| Timer (`timer.cpp`), chants, doors, evacuation, spikes, drains | events, copied list; chant, door, lock | register, unregister, tick; request, target, open | deletion inside a callback | only living events, what waits for time ends | `Timer`, `Spells` |
| Save, dump, restore (`world.cpp`, `main.cpp`) | characters, file, rows | timed save, logout, dump, restore, crash | a crash between any two of them | minutes never fall | `Saving` |
| Database (`database.cpp`) | transaction, its log, login data | begin, commit, roll back, recover | the link lost before or after a query ran | replayed as it was | `Database` |
| Password upgrade (`loginmanager.cpp` 102-126) | stored hash | background update | race with a change of password | - | not modelled |
| Packet encoding, chat, commands, boards, data files, configuration, console, translations, SLN, HTTP, NT service, SHA-256, formulas | - | - | text and input/output | - | not modelled |

`PROJECT.json` lists the components with their status, and, under `hazards`,
each place where the code can go wrong in a way a test would hardly reach.

## 2. Plan

The modules were written in this order: the thread pool, its use by the server,
sessions and trading, which have the real concurrency and the goods of the
players; then what keeps pointers both ways between objects whose owners come
and go (`Party`, `Guild`, `Wedding`, `Arena`, `Monsters`); then what moves goods
and gold (`Goods`, `Errands`) and what clients are shown (`View`); then what
comes back into itself or outlives its caller (`Quest`, `Timer`, `Spells`); and
what leaves the process (`Database`, `Saving`, `Sequence`, `Uploads`).

What is left, most useful first:

1. `Quest` composed with `Trade` and `View`: rules that take an offered item
   away, or warp inside a warp. `Trade` has the warp of a trader by a rule, as a
   fault at which it stops.
2. Guilds, chests and ground items in `Saving`; the bank of a guild.
3. The choice of a target and the walking of NPCs (`NPC::Act`).
4. Handing out of experience in `ShareMode` 3, of which only the types are proved.

## 3. The modules

### ThreadPool, WorkQueue, ServerThreads

One action per critical section of `util/threadpool.cpp`. A worker's `pc`
follows `_workerProc`: `top` (the loop's test), `wait` (the semaphore), `check`
(the second test of `_terminating`), `lock` (about to take the mutex and the
front item), `run`; a job may itself call `Queue`, as the login check does, and
is then at `queue`. The client of the pool is `main`; its places are those of
`queueInternal`, `setNumThreadsInternal` and `shutdownInternal` between which
something else may happen. The queue mutex is visible only in
`setNumThreadsInternal`, which keeps it while it joins the workers. A job is
its number in the order of acceptance. `_terminating` is volatile and read
without the mutex; every read is an action of its own.

Behaviour that C++ leaves undefined (`front()` of an empty queue) is no step;
`TakeFindsWork` states that it is never asked for.

`WorkQueue` is the promise: submitted work is begun in order, at most once, and
may be removed, all of it together, only before it has begun. `ThreadPool`
states the refinement at its end: `work` is `waiting`, the jobs in workers'
hands are `running`.

`ServerThreads` extends the pool by `main()`: the option `ThreadPoolThreads` is
turned into a number (`Requested`), `SetNumThreads` is called once, and only
then are jobs queued or the pool shut down.

### Session

A client is a record with the fields of `EOClient` and `Client` that the
session depends on. Handlers, timer events and `BuryTheDead` are actions of the
loop. A worker's operation has a `pc` of its own, and each of its accesses to
shared state is an action: the query, `PlayerFactory`, `SetPendingLogin`,
the change of state, the read and the write of `login_attempts`, the close, and
the clearing of `async_op_pending`. Operations of one client are a set, not a
single slot: that there is at most one is a property (`OneOperation`, a part of
`OperationsCounted`), not a restriction of the model.

What a query finds is a choice (right, wrong, or an exception). Contents of
packets, passwords and texts are left out: a handler that closes the client
because it does not like a packet is `Hangup`, one that throws is `Drop`. The
two seconds before a burial are left out as well, so a burial may come early
or late. A step of a worker on a client already deleted sets `undefined` and
ends the behaviour.

### Trade, Barter

A trade is no object in the code: it is `trading`, `trade_partner`,
`trade_agree` and `trade_inventory` in each of the two characters. Each action
is one handler of `handlers/Trade.cpp`, or an event that ends or disturbs a
trade: `Walk`, `Warp`, `Logout`, `DeathRespawn`, `Spend` (the handlers that pay
with what `HasItem` calls free), `Receive`. `EndTrade` is written as the code
does it: it clears the ending character's `trade_agree` (twice, in the code) and
leaves the partner's as it is. A request is a bare pointer of the asking side
that nobody clears; after a logout it may come to point to a new character at
the same address (`Login`).

`AddItem`, `DelItem` and `HasItem` are the operators `Added`, `Deleted` and
`HasItem`, with the overflow test and the cap of the code. `CheckQuestRules` runs
inside several handlers; if a rule warps the trader, the handler goes on with a
null partner. Then `fault` is set and the behaviour ends (`QuestWarpsTrader`);
the constant `QuestsWarp` switches it.

`Barter` is the promise: deals between two parties, consent that any change of
an offer voids, and an atomic swap that creates nothing and loses only what the
receiver cannot hold. `Trade` gives the refinement at its end (a deal is a pair of
partners that trade; `consent` is the set of traders whose `trade_agree` is set).

### Party

Membership is kept twice: in `Party::members` and in each player's pointer. An
action is a handler or `Character::Logout`; the state it works on is one record
(`Parties`), and `Disband`, `Leave`, `Create`, `Join` are functions of such a
record, for `Party_Accept` makes two or three of these calls in a row. A party's
identifier stands for its address and may be used again. An invitation counts
while inviter and invited point at each other (`asks`). A leader may send the
removal of a player who is not in the party; the code then empties that player's
pointer and not the list of its own party. Then `strayed` is set and the
behaviour ends.

### Guild

The members of a guild are in its list, in the pointers of the characters that
are loaded, and in the rows of the rest; the guild object lives as long as some
character points to it (a weak cache) and is read back from the rows. A
character is `off`, `loading` (a worker has read its row, and the loop does not
know of it), in the `menu`, or `here`. A creation is a struct in a list with
the names of those who confirmed. If a member is removed while it is loaded, it
keeps the pointer: `raced` is set and the behaviour ends.

### Wedding

`Wedding::Tick` is one action, with its states 1 to 12 as a table: the tick that
ends a state, the ticks at which the couple must be there (`Checks`), the two
states that wait for an answer. The first tick of a state is done on entering it,
as `ChangeState` does. `tick_timer` keeps the pointer and the registration
apart. A character lives in its row and, from the login of its account on, in an
object that is written back only if it entered the game. Prices, dress and
level are conditions that may hold or not. `vows` is history.

### Arena

A fighter is in the arena by its pointer, and the arena counts. A reload replaces
the arena, hence generations: `LoadArena` takes those on the map along,
`ReloadMap` tells nobody. Following a pointer to an arena that is gone sets
`freed` and ends the behaviour.

### Monsters

Hits, deaths and spawns of the NPCs of one map, with bosses and children, and
the way from a kill to the experience of each: `ShareMode` among the opponents
and `PartyShareMode` among a party, with the party's sum that is handed out
when the last one was seen to. `damagelist` is by pointer, `unregister_npc` is
the way back. A hunter is off, away, or here; where it stands is left out.

### View

Characters, one NPC and one item on a map of a few tiles with walls, spikes and
chairs. `shown` is what each client has been told of. `Walked` is the change that
`Map::Walk` makes with its two edges of the diamond; `Enter`, `Leave`, `Refresh`,
sitting and the loading of a map are actions. Somebody who changes tile by
getting on or off a chair is reported only to those in range of the new tile; such viewers are
`misled` until they refresh. A client drops items out of range by itself.

### Goods

Where things are: inventory, paperdoll, ground, chest, locker; an action per
handler. Each destination has its limit, and each handler takes and gives
separately. `made`, `clipped` and `spilt` are history: what came into being
(chest spawns, drops of NPCs, administrators), what a full stack cut off and
what was dropped onto nothing. Weights, stacks and what exists of a kind are sums,
taken with `Totals`, one operator for them all (`Errands` and `Monsters` use it
too).

### Errands

One visitor and the people of a map. An Open handler stores the NPC in
`character->npc` and its kind in `npc_type`; later handlers look at the kind, and
some at the NPC. Whatever takes or gives an item may meet a quest's rule that
warps (`Ruled`), in the middle of a handler. `due` is history: gold come by and
not paid yet.

### Quest

The EO+ interpreter with its call stack as state: a frame is an action list, a
list of rules, or the rules of all quests; `recursive_depth` is the one counter
for all of them, and an exception unwinds the stack. Quests are given as data
(`Actions`, `Rules`); the script of the run makes quests start, reset and lead each other on.
Facts stand for what a rule asks of the character. A context is an object with an
identifier that is used again once nothing refers to it; `MaxContexts` bounds
how many there are at a time.

### Timer, Spells

`Timer` has addresses that are allocated and freed, the set of registered
events, the copy that `Tick` goes through, and `changed`; a callback runs inside
`Tick` and may register and free. `Spells` gives it the callbacks: chants, doors,
evacuation, and one event that stands for those of the world that never expire,
in which any packet may be handled too, for `server_pump_queue` is such an
event. Leaving the game can also happen outside of the timer (`BuryTheDead`).

### Database, Saving

`Database` is the one connection of the world: the caller asks a query and
waits. `session` is the server's side of it (is a transaction open, and what
does it see), so that the client's log can be compared with it. A row after the replay of
the log is what the last statement of the log about it wrote (`Replay`). `LoseLink` loses
the link before or after the server ran the query; `Reconnect` is `RawQuery`'s
recovery, with the arguments as they are passed there. `Saving` extends it with
its callers: the timed save, the save at logout, the dump at the end of a
process, the restore at the next start, and the end without a word.

### Sequence

The server's numbers, the queue between `EOClient::Execute` and
`server_pump_queue`, and an honest client (external) over two channels that keep
the order. A start is sent as two numbers (`InitBytes`, `UpdateBytes`) and worked
out from them. A packet for a character is put back in the queue once, as its
delay does. `crossed` is history: an account reply was sent while a ping was
not answered.

### Uploads

A byte is known by the packet or the file it belongs to and its place there. The
ring buffer has its cells and positions; `Put`, `Read`, `Got` and `Drained` are its
operations, and `EOClient::Upload`, `Send` and `Tick` are actions. `Close(true)`
ends the behaviour. `due` is history: the stream that the client has got and is
yet to get. A packet is added at its end, a file goes before what waits to be
sent. `files` keeps of each file how many bytes it is, with its header, and the
length of the buffer made for it.

### How they are composed

`ServerThreads` extends `ThreadPool`, `Spells` extends `Timer`, `Saving` extends
`Database`: there one is the caller of the other, and both take their steps in
one action. `Session` relies on what `ServerThreads` shows instead of containing
the pool.

`MCCommunity`, `MCWorld` and `MCService` each put several components side by
side. These share no state that the modules tell apart, so that a behaviour of
all of them is one of each, and checking the product would only repeat every
state of one for every state of the others: the variable `part` says which one a
behaviour is about, and the others stay at their beginning.

Where components do share state, one of them has it as a choice: the warp or
death of a character is an action in every module that cares; that gold is
offered in a trade is `bargaining` in `Errands`; that a rule warps is a choice in
`Errands` and in `Trade`.

## 4. The runs

| Run | Instance | What it shows |
|---|---|---|
| `thread_pool` | 3 threads at most (default 2), 3 jobs; 30,523 states | Typing; `TakeFindsWork`; the tokens announce queued work and no more (`TokensBacked`); a terminating pool can wake every sleeper (`WakeUpForAll`); the pool implements `WorkQueue` (`KeepsPromise`) |
| `server_threads` | the same pool, options -1..4, 4 hardware threads; 10,409 states | As the server uses it, its calls return (`CallsReturn`), it has the configured size and accepted work is run (`ServesAtItsSize`) |
| `session` | 2 connections, 2 accounts, login queue of 1, 2 attempts; 454,720 states | `OperationsCounted`: the login limit, one operation per client, no flag without an operation; `StateHasPlayer`; `PlayerKept` |
| `session_live` | 2 connections one after the other, 1 account; 33,339 states | `NothingLingers`: operations end, closed clients are buried |
| `trade` | 3 characters, 1 item, 2 maps, quests may warp; 253,740 states | The halves of a trade agree, traders are together, agreements are current |
| `trade_goods` | 2 characters, 2 items, stacks of 2, int of 3, a window of 1, at most 3 things in all; 159,780 states | Offers are covered and within their limits; trading implements `Barter` |
| `community` | 4 players; 2 guests; 3 fighters; 3 people and 2 guilds; 2 quests; 3 events with a door and an evacuation; 191,457 states | `MembersAgree`, `MarriedByVows`, `CeremonyEnds`, `OccupantsCounted`, `MembersListed`, `QuestsSound`, `TimedThingsEnd` |
| `world` | 3 hunters and 3 NPCs; 2 walkers on 3 by 2 tiles; 2 owners of 3 kinds of things; 1 visitor on 2 maps; 980,186 states | `MonstersSound`, `ExpHandedOut`, `ShowsWhatIsThere`, `GoodsKept`, `TalksToPresent`, `NothingForFree` |
| `service` | 2 casters, 2 spells, 3 addresses; 2 rows, 2 processes, 1 lost link, 1 refused query; 6 packets, 2 pings; 4 packets and 2 files over a buffer of 8; 2,697,586 states | `SpellsSound`, `TransactionMirrored`, `UsageNeverFalls`, `HonestStay`, `SentInOrder` |
| `pool_shrink` | 3 threads, 2 jobs | Refutes "In-progress work will be allowed to complete" (`util/threadpool.hpp` 28): a shrink joins while it holds the queue mutex, and a job that queues work waits for that mutex |
| `session_exclusive` | 2 connections, 1 account | Refutes "preventing concurrent logins for the same account" (`handlers/Login.cpp` 157): a refused login clears the pending mark of the login under way, and a third one gets in |
| `trade_deadly` | 2 characters, `Deadly` set | Refutes "Drops all items on death" (`config/misc.ini` 196): a trade stays open after a death, and what was dropped can still be handed over |

A run whose property is a conjunction of named parts (`OperationsCounted`,
`QuestsSound`, `SpellsSound`, `MonstersSound`, `GoodsKept`, `NothingForFree`,
`TimedThingsEnd`, `NothingLingers`) checks all of them; each part has its own
definition and comment.

Deadlock is not checked anywhere, because each of these systems may come to
rest: a pool that was shut down, clients that are all gone, a trade that ended
in a fault, everybody offline with the bounds used up. Where it matters that
something goes on, a liveness property says so.

**Bounds.** With three workers one can be at each of the places between token
and job while the third is joined, and the pool can grow and shrink; with three
jobs there can be one running, one queued and one being queued. Two connections
are enough for every race in `Session`: each involves one operation and another
login for the same or another account. Three characters make it possible to ask
someone who trades with another. The integers in `trade_goods` are the smallest
with which a sum can fit, be cut to the cap, or overflow, and there is one more
item than a window holds.

Four players are two parties, or one party and one outsider who was asked by
two. Three fighters are a fight that goes on after the first is out. Three
people are a guild with a leader, a member and somebody to be invited; three
dealings allow for creating, joining and removing. A ceremony's states have
one tick each, those with a test in the middle two; the code's own lengths only
put more idle ticks between them. Two guests are enough because every handler
of the wedding concerns one couple; proofs cover the rest. Three addresses of events are
one for the world and two that are freed and used again. One lost link and one
error per behaviour put each of them at any query; two processes are a crash and
a restore. Six packets at a modulus of 3 wrap the counter twice, and the two
starts are the least and the greatest that the encoding can carry. A buffer of 8
holds two packets of 3 and not three; of the files one fits into a buffer of the
same size, one fills it to the end together with its header, and one needs a
larger one. Bounds of history
counters (`MaxVisits`, `MaxDealings`, `MaxReloads`, `MaxEvents`, `MaxDue`,
`MaxMade`, `MaxChants`, `MaxOpens`, `MaxStarts`, `MaxContexts`) are in the guards of the actions they
count.

**Symmetry** is used in `session` and in the trade runs, over clients, accounts,
characters and items, none of which a definition singles out; the runs that
check liveness use none.

**Fairness.** `ThreadPool`: every thread that can take a step takes one, and
jobs return; nobody has to call the pool, and no job has to queue another.
`Session`: weak fairness of the workers' steps (`ServesAtItsSize` says that
accepted work is run) and of burials (`EOServer::Tick` calls `BuryTheDead` each
time); not of packets, pings, hang-ups or logins, which need never come.
`Wedding`: the tick of its timer (`WeddingFairness`), for the loop runs timers
for ever; no guest has to answer. `Spells`: the timer and the callback it is in
go on, and an event that is looked at again and again is due at last
(`SpellsFairness`; strong, because between two looks it cannot fire). Nobody has
to do anything else.

**History variables.** Only properties and bounds read `seen` (`Trade`),
`finished`, `dropped` (`ThreadPool`), `vows` (`Wedding`), `gained` (`Monsters`),
`made`, `clipped`, `spilt` (`Goods`), `due` (`Errands`), `casts`, `matured`
(`Spells`), `refused`, `crossed` (`Sequence`), `due`, `files` (`Uploads`). `undefined`,
`fault`, `raced`, `freed` and `strayed` mark the point at which the code's
behaviour is undefined or its records have come apart, and end the behaviour.

**Behaviour the models have that no run refutes a claim about.**

* Sessions: an account stays marked as pending when `Execute` throws or the
  player cannot be loaded; `_processCount` stays raised when `Execute` throws; a
  client can be deleted while an operation of it is still to use it (a missed
  ping clears `async_op_pending`, an eviction does not look at it); an attempt to
  log in can be lost between `OpCount` and `OpClose`.
* Pool: growing it resets the semaphore and leaves the jobs that were queued
  without a token.
* Parties: a leader can send the removal of a member of another party, whose
  pointer is emptied and who stays on the other list.
* Guilds: a member that is removed while a worker loads it keeps its guild in
  memory.
* Arenas: a map that is reloaded leaves its fighters pointing to the arena that
  was deleted.
* Experience: what a party has summed up is handed out only when the kill comes
  to all its opponents on the map; `ExpHandedOut` is about kills whose opponents
  are all there.
* Chairs: a step onto or off a chair is told to those in range of it, not to
  those the character gets out of range of.
* Errands: citizenship pays with `DelItem`, whose rule may warp the visitor, and
  then follows `character->npc`.
* Database: a recovery calls `Connect` with one argument too few
  (`database.cpp` 702), so that the user is taken for the kind of login, the
  password for the user and the database for the password; it succeeds only with
  a server that lets these in, and never selects a database.
* Saving: the dump has the minutes at login instead of those now, and the
  restore compares by them: a row with as many minutes but later progress is
  overwritten. The dump is removed entry by entry as statements are executed,
  inside a transaction that may be rolled back. Drops on a tile that cannot hold
  them vanish.
* Upload: a file is read to `ppos + 1` and on, without the mask of the ring
  (`eoclient.cpp` 111). "Large enough to hold the file" (378) counts its bytes and
  the header; but the first cell is the last to be written, so that if both
  together are as long as the buffer the last byte is read into the place behind
  the string's end, and the client gets the first cell, a zero, in its place. The
  file also goes between what of a packet was sent already and the rest of it,
  if a packet is in the buffer when the upload begins.
* Quests: a reload puts a quest whose state is no more into another one.

Each of these is in the action that does it, and those that are hazards are
listed with their lines under `hazards`.

## 5. What is proved

For every value of the constants that satisfies the named assumptions. What is
proved of a component holds in the compositions too: each of their steps is a
step of one part and leaves the others alone (`PartsMove`).

* `ThreadPoolProofs`: `TypeCorrect`, `TokensAreBacked`, `TakeIsSafe`,
  `EveryWorkerIsWoken`, `PoolImplementsQueue`.
  Typing is not inductive by itself: the job number that a worker adds to
  `finished` must be one, so the invariant adds `RunsAJob`, a worker that runs has
  a job. `TokensBacked` counts the semaphore together with the tokens in the
  workers' hands; a step moves one token from the one to the other, or adds one
  with a job. It is inductive together with typing and `LockHeld`, that the
  mutex is held exactly while the pool shrinks. `TakeIsSafe` follows: a worker
  at the queue counts as one item of it. For `WakeUpForAll` the invariant adds
  that in a terminating pool nobody goes back to sleep and that `_terminating`
  is set exactly by the calls that join (`NotYet`, `NoOthers`). The refinement of
  `WorkQueue` needs `JobInv`: a job has one holder, the queue or a worker, and
  the queue holds jobs in the order they were made.
* `TradeProofs`: `TypeCorrect`, `TradersArePaired`, `TradersAreTogether`,
  `AgreementsAreCurrent`, `OffersAreBacked`, `OffersAreWithinLimits`,
  `TradeImplementsBarter`.
  The base is `Inv`: typing, the pairing, and `NoSelf`, that nobody's request
  points to itself, without which accepting one's own request would make a
  trade of one. The others follow one from each action, given `Inv`. For
  `OfferBacked` the invariant adds that only traders have offers (`NoOffer`) and
  that no stack exceeds `MaxItem` (`Held`), and the arithmetic of `Added` and
  `Deleted` is a lemma. The refinement of `Barter` maps each action to a deal's
  step or to none; the swap needs `OfferBacked`, so that it is proved, as that
  is, for a server without `Deadly`. With it, it is false: the run `trade_deadly`
  shows an offer that is no longer in hand.
* `SessionProofs`: `SessionTypes`, `OperationsAreCounted`, `PlayersAreThere`,
  `PlayerIsKept`.
  Nearly every step changes one client and its operations, so the invariant is
  `Sound`, a predicate of the two, and one lemma carries it from the step to all
  clients. What has to be added to the properties: an open client with an
  operation has its flag set (what clears the flag early also closes the
  client), a login that has not loaded its player belongs to a client without
  one, and a client in the menu that has a player has a login about to make it
  LoggedIn. Typing needs the count: `_processCount` does not fall below zero
  because every login that completes was counted, so the logins under way, a
  set of pairs, are counted by the library's facts about cardinality.
* `CommunityProofs`: `PartyMembersAgree`, `OccupantsAreCounted`,
  `MembersAreListed`, `MarriagesAreByVows`, `QuestsAreSound`, `QuestTypes`,
  `CommunityIsTyped`.
  - Parties: handlers are functions of one record, so the lemmas are about
    values: `Good` is kept by `Disband`, `Leave`, `Create`, `Join` and `Taken`, for
    any party. A party that is made finds an identifier, since leaders of as many
    parties as players would be different players (a pigeonhole argument).
  - Arenas: the invariant adds that no pointer is ahead of the arena's generation,
    so that a new arena has no occupants but those it is given; that some leave a
    set and others join it is counted by a lemma.
  - Guilds: `Enrolled` adds to the property those who are not in the game: whoever
    has the row of a guild that is in memory is on its list, so that it is still
    there when a worker has loaded it. A member removed in that time is what sets
    `raced`, from where on nothing is claimed.
  - Weddings: the invariant says which vows each state has behind it: the first
    from state 5 on, both at 7, from which state 8 is entered; every other way
    into a state, and a question nobody answers, ends the ceremony. Outside of it
    a partner is only taken away.
  - Quests: for any script. `QuestInv` says that every call on the stack that
    counted itself in is counted once in `recursive_depth` (which is at most the
    number of such calls), that every object a call or a quest refers to is a
    context with a state its quest declares, and that its kills were made since
    it was entered. There is a lemma for each function of the interpreter, about
    the four values it works on, and one for the unwinding of an exception.
* `WorldProofs`, with the sums of `TotalsProofs`: `MonstersAreSound`,
  `ExperienceIsHandedOut`, `ClientsShowWhatIsThere`, `ThingsAreKept`,
  `WhoIsTalkedToIsThere`, `GoldIsAccounted`, `NothingIsHadForFree`,
  `WorldIsTyped`.
  - Monsters: `Registered` relates the damage list of an NPC, its total, and the
    back pointers of the hunters who are not off; an NPC that lives has something
    to lose (`LivesOn`), so that a hit takes something off it. Children live with
    their boss only where there is a boss at all.
  - Experience: `ExpInv`, that no party keeps anything in `temp_expsum` from one
    kill to the next. Shares are quotients rounded up: each is bounded from below
    by the exact share and from above by one more, and the sums of the bounds are
    the experience and the experience plus one for each share. This is proved
    for `ShareMode` 0 to 2. In `ShareMode` 3 every opponent gets the whole, times the
    number of opponents, so that the bound does not hold (the run has mode 2).
  - View: `Seeing`, that a client shows what is in its range, is kept by each step
    because a move tells those at the two edges of the diamond, which a lemma
    shows to be all whose view changes. What is unloaded or misled is left out,
    as in the property.
  - Goods: what exists of a kind is a sum over owners, tiles, chests and lockers;
    each handler takes from one and gives to another, and lemmas say what a
    change of one or of two summands does to the sum. Weights are sums over the
    kinds. To be shown for death is that a paperdoll that is taken off and a bag
    that is emptied give as many pieces as were there.
  - Errands: whoever is talked to is there, which is inductive by itself; for
    gold and points the invariant adds the types of bag and bank, that no handler
    pays more than `HasItem` has found free, and that points come with levels.
* `SpellsProofs`: `TimedThingsAreSound`. `SpellsInv` gives every event on the list
  to one holder: the chant of a caster, the evacuation, or the world itself. It is
  carried by one lemma about what a callback can do (`Turns`): delete some events,
  allocate others, and leave the rest with those who hold them.
* `ServiceProofs`: `HonestClientsStay`, `TransactionsAreMirrored`,
  `StoredUsageNeverFalls`, `BytesAreSentInOrder`, `ServiceIsTyped`.
  - Sequence: the number the client is at, with what is on its way in both
    channels and waits in the queue, is the server's (`Uncrossed`); numbers are
    counted modulo `Wrap`, by lemmas about `%`. It holds until an account reply
    crosses a ping that is not answered (`crossed`).
  - Database: `Linked`, that the transaction of the server has the rows that the
    replay of the client's log gives. The replay is the last write to each row, so
    that a log that gets longer needs no induction.
  - Saving: `Ordered`, that the minutes only grow along the way a row takes, from
    what is stored through the log and the query under way to the live character;
    `Agenda`, that whoever is still to be saved is online.
  - Uploads: `NoFile` and `Busy` say where each byte that is due is: received, in the
    ring (`Ring`), in the buffer of the file (`InFile`), still in the file, or in the
    second ring. Positions are taken modulo the length by lemmas.

`CommunityIsTyped`, `WorldIsTyped` and `ServiceIsTyped` put the types of the parts
together. None of these is inductive by itself. What had to be added: the total
of a list is within `MaxDamage`, and with it each damage on it (`MoreTypes`); who sits came from a tile
of the map (`PlaceTypes`, `SteppingOff`); what fits does so wherever it lies
(`AmountsFit`); what a callback is given is not due later than it may be
(`TimerTypes`); no more pings and packets are on their way than were sent
(`SentIsCounted`) and all starts were drawn (`StartsDrawn`); the second buffer is
empty while there is no upload (`Spare`); a ceremony's tick is below the last of
its state (`TicksFine`); nobody is counted twice in an arena, even after a pointer
to one that is gone was followed (`WarpedFew`); and what a guild's rows and tags
are after a race (`RacedTyped`, `CacheTyped`).

**Induction.** The library's induction theorems take an operator as parameter and
cannot be used with these provers; the well-foundedness of strict inclusion among
finite sets can (`WFMin`). From it follow, each by a smallest set of
counterexamples: what is needed of sums (`SetInduction` in `TotalsProofs`), that a
row that is written in a log is written by a last statement (`LastOf`), and that
an exception that unwinds the stack finds the innermost loop (`FirstOf`).

**What the proofs changed.** The proofs found an operator that was not well
defined: `CanHoldItem` (`Goods`) had a CASE with arms that overlap, and now takes
them in the order of the code's tests. Constants were given the assumptions they
use, all of which the configuration or the types of the code justify: that limits
are natural numbers (`MaxLevel`, `MaxSkillLevel`, `BufferSize`), that addresses are
not null, that the kinds of events differ, that scripts lead to states they
declare. Two type invariants were made exact: the ticks of a ceremony are below the
length of its state, and the client's start is one the server can draw.

**Only model-checked.** Liveness under fairness, which is out of the prover's
reach: `CallsReturn`, `ServesAtItsSize`, `NothingLingers`, `CeremonyEnds`,
`TimedThingsEnd`. Of these, that they hold is known for the instances of their
runs. The three refuted claims are counterexamples and need no proof.

## 6. What is not modelled

* Text, formatting and logging; the lexer and parser of EO+; reading of maps,
  data and configuration; packets' contents beyond what selects a branch, and
  their encoding.
* The hash functions and the background update of an old hash: the comment at
  `loginmanager.cpp` 152 names its race with a change of password and accepts it.
* Of guilds, the bank, the description and the names of ranks, which are single
  fields; of the database, the other engines, the schema and the escaping; of the
  saves, guilds, chests and ground items, which go the same way as characters.
* What `CalculateStats` and the formulas compute, the effects of used items, the
  choice of a target and the walking of NPCs, boards, chat and the commands of
  administrators, except where a command is another way into something modelled
  (spawning an NPC, forcing an arena, reloading maps, quests and arenas).
* The receiving side of sockets and the first line of a proxy.
* Failures of the machine beyond those the code handles: a query that throws, a
  lost link, a connection that closes, a process that ends.
* `CanInteractItems`, which an administrator can change at any time, is not in
  `Trade`: where it fails the handler does nothing. Memory ordering is
  sequentially consistent in all models; the code declares the flags that
  threads share `volatile` or atomic, or reads them without any order, as
  `login_attempts`.
