# A verification development for GTopia

GTopia is a game server split into processes. One **Master** accepts logins,
keeps the directory of worlds and of player sessions and talks to the database;
any number of **game servers** run the worlds and hold the connected players;
a **world renderer** draws pictures of worlds. Every other process has one TCP
connection to the Master. This directory holds TLA+ modules of the parts whose
correctness lies in how those processes, their callbacks and their lost
connections interleave, the TLC instances that check them, and TLAPS proofs.

    tlc -workers 2 -config WorldSessions_safety.cfg MCWorldSessions.tla
    tlc -workers 2 -config PlayerPresence_safety.cfg MCPlayerPresence.tla
    tlc -workers 2 -config WorldPresence_safety.cfg MCWorldPresence.tla
    tlc -workers 2 -config Holidays_sync.cfg MCHolidays.tla
    tlc -workers 2 -config PlayerTrade_safety.cfg MCPlayerTrade.tla
    tlapm WorldSessions_proofs.tla
    tlapm WorldInit_proofs.tla
    tlapm PlayerPresence_proofs.tla
    tlapm PresenceAgreement_proofs.tla
    tlapm WorldPresence_proofs.tla
    tlapm WorldList_proofs.tla
    tlapm Holidays_proofs.tla
    tlapm PlayerTrade_proofs.tla

## Inventory

Threads: each server process runs its handlers on one game-loop thread
(`GameServer/Main.cpp`, `Master/Main.cpp`). An event thread moves bytes and
packets between sockets and lock-free queues, a database thread serves query
tasks in order and queues their results; callbacks of results run on the game
loop. So a handler is atomic with respect to the other handlers of its process,
with two exceptions on the Master: `ServerManager::OnClientDisconnect` and with
it `RemoveServer` run on the event thread, and so do the commands of the admin
server.

| Component | State | Operations | What is hard | What makes it correct |
|---|---|---|---|---|
| World placement (Master `WorldManager`) | world sessions by instance, instance by name, waiting lists | join request, database results, world initialised, join/leave counts | a database round trip between check and use; servers that vanish | worlds on live servers, sound names, every request answered once |
| Player sessions (Master `PlayerManager`) | session per user: server, world, token | create at login, move on routing, end | packets of an old connection about a new session | a session names a live server |
| Server connections (Master `ServerManager`) | servers, pending clients, loads | authenticate, ready, heartbeat, remove | timeouts, event thread against game loop | nothing of a removed server is left |
| Game server worlds (`WorldManager`, `World`) | worlds with members, name cache | initialise, presence ready, join, leave, unload | replies about worlds or players that changed since | a route finds a ready world; counts agree with the Master |
| Game server players (`GamePlayer`, `PlayerManager`) | a player object per connection, its login state | login check, enter, transfer, log off, delete | an object is looked up by user id in whatever state it is | one world per player |
| Presence of players (both `GamePresenceManager`) | subscriptions, changed users; use counts, last known status, batches, waiting worlds | request, release, subscribe, unsubscribe, snapshot, status change, timers | a status change racing a snapshot or an unsubscription; servers going | both sides agree on what is subscribed; a watcher learns who is online; a world does not wait in vain |
| Presence of worlds (same classes) | every server's list of active worlds, player counts | world created, count reported, server ready, server lost | broadcasts of three kinds to servers that come and go | a ready server's list becomes the Master's |
| Trade (`PlayerTrade`) | partner, offer, accepted, delay timer, locked per player | start, add, remove, accept, withdraw, cancel | one side acts between the two accepts of the other; a partner who leaves | an accept stands only for the offers it was given for; a trade ends for both |
| Holidays (both `HolidayManager`, admin commands) | holidays with schedule, window and rules; enabled keys; the rows of both; each server's copy | command, check every five seconds, load, save, sync, reload of config.txt | commands, checks and saves from two threads; restarts between a change and its save; dates at the turn of a period | a holiday runs in its window and once for a date; rows and copies follow the Master |
| Statistics (`StatsManager`) | total and delta per key, dirty flags | add, sync, flush | increments while a sync is under way | nothing counted twice or lost |
| Database (`DatabaseWorker`, `DatabasePool`) | task and result queues, connection | execute, reconnect, deliver | a failed connection, a late result | every task is answered |
| Sockets, ring buffer, packet pool | byte streams, close handshake | read, write, frame, close | partial frames, limits | frames arrive whole and in order |
| Login (Master `GamePlayer`) | login state, query chain | account lookup, creation, limits | the client leaves during a query | one session per account |
| Stores, dialogs, item machines, Lua, tiles and locks, other admin commands, balancer, renderer, Go front ends | see the sources | | mostly sequential rules and output | |

Requests flow: client → game server → Master (→ database) → the server that
runs the world → Master → the asking server → client, which may have to log in
to another server to get there.

## Modules

| Module | Models |
|---|---|
| `WorldSessions` | the Master's world and session directories, the game servers' worlds and player objects, the packets between them, database results, clients, lost links and crashes |
| `MCWorldSessions` | the small instances TLC checks: two users, two game servers, two names; symmetry in all three |
| `WorldSessions_proofs` | theorems about `WorldSessions` for all constants: the Master's directories, the types, the requests |
| `WorldInit_proofs` | theorems about how an instance comes to be ready and how its players are counted, across the Master, the packets and the game servers |
| `PlayerPresence` | who is online: the Master's subscriptions and changed users, the game servers' use counts, batches and waiting worlds, the packets between them, lost links and crashes |
| `MCPlayerPresence` | its small instances: two servers, two users, two worlds; symmetry in the worlds |
| `PlayerPresence_proofs` | theorems about `PlayerPresence` for all constants |
| `PresenceAgreement_proofs` | theorems about what Master and game server agree on over both queues of `PlayerPresence` |
| `WorldPresence` | the list of worlds: what game servers count and report, the Master's list and its changes, each server's copy, the packets between them, lost links and crashes |
| `MCWorldPresence` | its small instances: two servers, two worlds; symmetry in both |
| `WorldPresence_proofs` | theorems about `WorldPresence` for all constants, and that it implements `WorldList` |
| `WorldList` | the abstract specification: a list in versions and servers that follow it |
| `WorldList_proofs` | what that specification promises, proved for all constants |
| `WorldPresenceVersions`, `MCWorldPresenceVersions` | `WorldPresence` with a history variable for the versions, and the refinement mapping to `WorldList` |
| `Holidays` | the Master's holidays: commands, the check, rules, the tables and the task queue of the database, config.txt, the packets to the game servers and what those know; restarts of the Master, lost links |
| `MCHolidays` | its small instances: one holiday, none or one game server, months of three days |
| `Holidays_proofs` | theorems about `Holidays` for all constants |
| `PlayerTrade` | the trades of the players of one game server, their inventories, players who leave and join |
| `MCPlayerTrade` | its small instance: three slots, two items; symmetry in the slots |
| `PlayerTrade_proofs` | theorems about `PlayerTrade` for all constants |

### WorldSessions

* `worlds` is `m_worldSessionsByInstance` (state, name, server, waiting players,
  player count) and `byName` is `m_worldInstanceByName`; `session` is
  `m_sessions`; `srv` is `m_servers` with the `ready` flag. `gw` is each game
  server's `m_worlds` with the member list of each world (how often a player is
  in it: the code can enter one twice), `obj` the `GamePlayer` object of each
  user on each server.
* One action per handler, on the packet at the head of the queue: `up[s]` holds
  what game server `s` sent the Master, `down[s]` the other direction. Helpers
  (`AttachPending`, `RoutePlayerToExistingWorld`, `EnterWorld`, `LogOff`, ...)
  carry the names of the methods they translate. A packet to a server whose
  connection is gone is dropped, as `MasterBroadway` and `NetSocket` do.
* `dbq` is the queue of the database thread. A query may fail; an insert does
  not fail on a second row of a name, since `Worlds.Name` has no unique key.
* `GetBestGameServer` picks by loads that heartbeats report, so any ready server
  may be picked. A world may or may not need to wait for the presence of the
  owners of its heart monitors.
* `LoseLink` and `Crash` lose a connection or a process; `RemoveServer` then
  takes place at any later moment, `AddServer` and `ServerReady` bring a
  restarted server back.
* Clients log in, ask for worlds by name, leave to the menu, quit or drop off at
  any time, and follow a transfer.

Operators whose comment calls them a defect (`RemoveServerKeepWorlds`, ...) are
plausible wrong versions of the action after them; they are part of no
behaviour and show that each property can tell the difference.

### PlayerPresence

Worlds with heart monitors show whether the monitors' owners are online. The two
`GamePresenceManager` classes keep that knowledge, each server that of the users
its worlds need.

* At the Master `subs` is `m_playerSubs` (a user nobody is subscribed to has no
  entry), `dirty` is `m_dirtyUsers`, `session` keeps of `m_sessions` the server.
  At a game server `presence` is `m_presences` (`NoPresence` where there is no
  entry, `ref` the use count), `toSub` and `toUnsub` are the two batches and
  `awaited` is `m_pendingPresenceWorlds`.
* `StartWorldLoad` is the presence half of the function of that name. The owners
  it asks for come from the saved monitors in tile order, with what the code
  does not merge: an owner that comes back after another one is needed again.
  `OnHeartMonitorAdded` and `OnHeartMonitorRemoved` are the two ways the need
  changes later.
* The timers (five seconds for changes and subscriptions, two to four minutes
  for unsubscriptions) may fire at any moment, which covers every ratio of them.
* `RemoveServer` is `OnGameServerDisconnect` and `EndSessionsByServer` in the
  order of the code. `SameId` says which user's id happens to be a server's
  number, because `EndSessionsByServer` passes one for the other.
* `world` here and the game world of `WorldSessions` meet in two steps: where
  `WorldSessions` lets a world wait for presence and takes it as fair that
  `OnWorldPresenceReady` comes, `WorldBecomesReady` shows that it does.

### WorldPresence

The world menu of every game server lists the active worlds of all servers with
their player counts.

* At the Master `worldSubs` is `m_worldSubs` (`Unlisted` where there is no entry)
  and `dirtyWorlds` is `m_dirtyWorlds`. At a game server `local` is
  `m_localWorldUpdates`, `dirtyLocal` is `m_dirtyLocalWorlds` and `list` is
  `m_worldPresences`. `world` is not kept by these classes: it is the count and
  the signal jammer of each READY world, which `World::Update` reads.
* An info stands for the count and the jammer together; `NewInfo` is what
  `OnWorldCreated` and a fresh entry of `m_localWorldUpdates` start with (zero
  players, no jammer). A packet says an info of each of some worlds (`about`), or
  takes them off; `Readable` is the limit of `ReadPresenceElements`, which drops
  a longer packet as a whole.
* `OnWorldCreated` stands for the end of `HandleWorldInit`; what comes before it
  is in `WorldSessions`. `WorldReady` joins both places where a world becomes
  READY and is reported. `Broadcast` goes to every registered server, ready or
  not, as `SendPacketToAll` does.
* The five-second timers of both sides may fire at any moment.

`WorldList` states the promise without packets: the Master's list has versions,
each opens a world that was never in one or closes some; a connected server is
at a version and shows part of it, moves to the next, or learns all of the one
it is at. `WorldPresenceVersions` adds the history variable `versions`, which
grows when the Master's list does, and maps the version a server is at to the
present one less the creations and removals still queued to it.

### Holidays

* At the Master `hol` is `m_holidays` (a `HolidayData` or `NoHoliday`), `enabled`
  is `enabledHolidays` of the game config, which `config.txt` (`config`) feeds.
  `rows` and `ruleRows` are the tables `Holidays` and `HolidayRules`. At a game
  server `copy` is what its `m_holidays` has from packets.
* `CheckScheduleAndRules` runs on the game loop, one action per command on the
  event thread. `Checked` is the loop's body for one holiday: disabled or expired
  ones end, then rules are asked, then the schedule. `SetAndCheck` joins a
  command with the check the same handler makes at its end.
* A date is a day. Monthly and yearly schedules are both a day in periods of one
  length; what the code does at the turn of a period (looking one period back)
  is `PeriodicDate`, what it does about a random start `AssignRandomSchedule`.
* Every save is a task in `dbq`. The worker takes tasks from a concurrent queue
  that keeps the order of each producing thread only, hence `Runnable`. A task
  may fail, and nobody tries again.
* `LoadFromDatabase` reads both tables, each of which may fail, and `MasterEnds`
  loses the process with what it had queued. `fired` and `astray` are history:
  the dates a schedule started at, and the holidays whose rows a failed or
  overtaken task may have left behind.

### PlayerTrade

* A slot is the memory of a player object. `trade` is its `PlayerTrade`
  (`partner` the pointer, `timer` the delay timer of the accept button), `inv`
  the counts `PlayerInventory` has of the items a trade may move.
* One action per message: `StartTradingWith`, `AddItem` (`OnTradeItem` with
  `OnAddItem`), `OnRemoveItem`, `SetAccept`, `SetAcceptFalse`, `TradeCancel`. The
  helpers carry the methods' names and act on the trades of both players.
* `timer` passes once: `Timer::IsPassed` reports the end of a delay to the first
  who asks and is then unset, so an accept that was refused for other reasons
  has to wait anew.
* `RemovePlayer` leaves the trade as it is, as the code does: the partner's
  pointer leads to freed memory. The model lets it lead to what was there, to a
  `Fault`, or, after `AddPlayer`, to the next player object in that place.
* What the dialog after both accepts leads to is not there in the code: no
  handler is registered for it and `DoFinalTransaction` has no caller.

## Runs

| Run | Bounds | Shows |
|---|---|---|
| `worldsessions_safety` | 2 users logged in, 2 servers, 2 names, 2 instances, 3 commands, 1 loss; 2.1 million states | the safety properties below |
| `worldsessions_live` | the same without losses and symmetry, one of the users still to log in; 0.16 million states | `JoinAnswered`, `OneAnswerPerRequest` |
| `worldsessions_names` | the same | two overlapping joins of one name end up on two servers: `OneServerPerName`, which a comment in `Master/World/WorldManager.h` takes for granted, is false |
| `presence_safety` | 2 servers, 2 users, 2 worlds, saved monitors of one and of two owners, 5 operations, 1 loss; 2.9 million states | the safety properties of presence |
| `presence_live` | the same, 4 operations, no loss and no symmetry | `WorldBecomesReady`, `LoginIsShown` |
| `presence_logout` | the same, 3 operations, 1 loss | when a server is lost, other servers go on showing its players as online: `EndSessionsByServer` reports the server's number where `OnPlayerStatusChanged` takes a user id |
| `worlds_safety` | 2 servers, 2 worlds, 2 infos, 2 changes, 1 loss; 2.2 million states | `QueueCompletesList`, `ReportsReachMaster`, `DirtyListed`, `ListedOnline` |
| `worlds_live` | 2 servers, 2 worlds, 1 change, 1 loss, no symmetry, with the history variable | `ListsSettle`, `ImplementsWorldList` |
| `holidays_schedule` | one holiday of any schedule, rules on one statistic, no server, durations of 1 and 2 days, 2 commands, 1 change, 1 loss, days 5 to 6 in months of 3; 1.4 million states | `StartsOncePerDate`, `CheckEndsInTime`, `CheckMissesNone` |
| `holidays_sync` | one holiday, one game server, 2 commands, 2 losses; 0.8 million states | `ServersFollowMaster`, `RowsFollowMaster` |
| `holidays_removed` | one active holiday whose key is taken out of config.txt, then `/creload config` | the holiday goes on: `RemovedKeysEnd`, which `Docs/HolidaySystem.md` promises, is false |
| `trade_safety` | 3 slots, 2 items of which one is a fish, counts up to 1, one item per offer, 1 change of an inventory, 1 player who joins; 3.3 million states | `AcceptStandsForDeal`, `EndsForBoth`, `BothAcceptChecked` |

For `WorldSessions`:

* `WorldServerOnline`, `SessionServerOnline`: the directory never names a server
  that was removed, although worlds are created after a database round trip and
  sessions move on routing.
* `NameMapSound`: no name leads to a missing instance or one of another name.
* `WaitingListsSound`: nobody waits for a ready world or twice for one world.
* `PlayerCountConserved`: the Master's player count of a world, with the packets
  on the way, is the number of members.
* `InitInProgress`, `RouteReachesReadyWorld`: a loading world is initialised
  exactly once and a player is only sent to a ready world.
* `OneAnswerPerRequest`: a request is answered at most once.
* `JoinAnswered`: with no server lost, who asks from a server is answered there
  unless its session ends, but for one case (`WaitsElsewhere`). A player that
  waits for a slow world may be routed to another server meanwhile. When it asks
  for the slow world again from there, `AttachPending` finds it on the waiting
  list and drops the request; the list names the server it has left, and only
  that one is answered. It takes three commands of one player, and the run has
  it: without this excuse TLC finds the property violated.

For `PlayerPresence`:

* `SubscribersRegistered`, `DirtyWatched`: no subscription and no pending change
  outlives the server or the interest it is for.
* `NoForgottenSubscription`: a watched user that nothing needs is due to be
  unsubscribed, whatever was needed and released in between.
* `SubscriptionAgrees`: what a server needs is subscribed once the Master has
  read the packets on their way, and what it does not watch is not.
* `SeesLogin`: with nothing about a user on its way, a server that watches the
  user does not show as offline who is online. It takes a login, a snapshot, an
  unsubscription that clears the change and a new subscription to break it.
  `SeesLogout` is its counterpart, which the code breaks.
* `AwaitedIsAsked`: a world is loading exactly while it waits, and for each user
  it waits for the question or the answer is on its way.

For `WorldPresence`:

* `QueueCompletesList`: whatever is queued to a ready server, once it is handled
  the server shows exactly the worlds the Master lists, with the Master's counts
  but for those the timer has not sent yet. The whole list of `ServerReady`
  crosses broadcasts the server got before it was ready; a removal may be queued
  behind the creation it undoes. It is stated for lists that fit one packet
  (`AllReadable`): a longer one is dropped by the reader, and the code has no
  answer to that.
* `ReportsReachMaster`: what a connected server last noted of a world is in the
  Master's list, on its way, or due to be sent. The Master ignores counts of
  worlds it does not list, so this depends on the report of the world coming
  first, and on the game server comparing with the value last noted.
* `DirtyListed`, `ListedOnline`: changes held back are of listed worlds, and a
  listed world is run by the registered server it names, restarts under one
  number and dropped packets included.
* `ListsSettle`: when nothing more happens, all lists show the running worlds
  and their true counts.
* `ImplementsWorldList`: a list goes from version to version of the Master's, so
  that it never shows a world again that was taken off, nor a world of a lost
  server next to one opened after the loss.

For `Holidays`:

* `CheckEndsInTime`: no check leaves a holiday active that is disabled or out of
  its window, whichever of command, rule and schedule started it.
* `StartsOncePerDate`: a schedule uses a date once. An admin may end the holiday
  on its first day, a later check may come to the same date from the next
  period, and the duration may have changed in between. It speaks of starts by
  the schedule only. A start by hand or by a rule sets `startTimeUnix` and leaves
  `lastTriggeredStart`, so when a UNIX or RANDOM holiday that was started so is
  ended within its window, the next check starts it again for that very start.
  `Docs/HolidaySystem.md` (lines 37 and 129) reads otherwise: such a schedule
  "Starts once" and `/holiday end` ends the holiday now. The model has this
  behaviour; no property claims either.
* `CheckMissesNone`: a window that reaches into the next period is not missed.
* `ServersFollowMaster`: with the packets on its way a server knows every
  holiday as the Master has it. A server hears of changes before it is ready,
  and gets the whole list again whenever any server becomes ready.
* `RowsFollowMaster`: once the queue is served the tables hold what the Master
  has, but for holidays whose task failed or was overtaken by one of the other
  thread. Those two exceptions are real: nobody retries, and an update of the
  check may come before an older one of a command.
* `RemovedKeysEnd` is what the documentation says of a key removed from
  config.txt. `LoadConfig` only adds keys.

For `PlayerTrade`:

* `AcceptStandsForDeal`: an accept outlives neither a change of an offer nor a
  change of the partner, though each of four handlers has to reset the right
  side.
* `EndsForBoth`: a trade that ends leaves nothing on the other side, even when it
  ends because one of the two starts another trade.
* `BothAcceptChecked`: when the second accepts, both can deliver, whatever they
  did with their items since they offered them. After that the inventories may
  change again: the check before the transfer is in `DoFinalTransaction`.

Five operations allow a world to load, its monitor to be broken and placed again
around the unsubscription, and a login and a logout in between; two worlds on
one server are needed for one to use up the answer of the other, two servers for
one to be told of a player on the other.

Days 5 and 6 are the last day of one month and the first of the next, which is
where a two-day holiday reaches across; windows, restarts and dates of an earlier
period then all occur. One holiday is enough, since holidays share only the
check's pass over all of them and the order of their tasks, which commute. Three
slots let a player leave one trade for another and let a freed object be used
again; a count of one makes every limit bite.

In `WorldSessions` the instances start with both users in the world menu, a state `Spec` reaches
with one login each, so that the few commands go to worlds. Three commands allow
a join, a second join of the same or another name by the same or the other user
and a leave, quit or disconnect, in every order; two servers are enough for a
player to be routed elsewhere and two instances for two worlds of one name. One
loss suffices to meet each handler with a server that has gone. The run of the
liveness property cannot use symmetry, so only one user is in the menu at first
(of `s1`: servers and users are interchangeable): the three commands are then a
slow join, a join that routes the player away and the first join again from
there, or a join of each user, which wait for one world or two.

Fairness (`Fairness`): the loops of the Master and of every game server call
their queue handlers on each tick, the database thread serves its queue in
order, and a presence snapshot asked for arrives. Clients, losses and restarts
have none. In `PlayerPresence` the queue handlers of both sides and the three
timers are weakly fair, since both game loops call `Update` on every tick;
`WorldBecomesReady` and `LoginIsShown` say nothing of a server that is cut off,
as nothing connects it again. `WorldPresence` is fair in the same way to its
queue handlers, its two timers, the game tick (`UpdateWorlds`) and, because TCP
reports a closed connection and a heartbeat older than 30 seconds closes one,
to `RemoveServer`; `ListsSettle` needs the last for a crash. `FairVSpec` is the
same with the history variable. No property of `Holidays` or `PlayerTrade` is
liveness.

Deadlock checking is off: with the commands and operations spent the systems
rest.

## Proofs

Every invariant, every action property and the refinement that the passing runs
check are theorems, for all values of the constants. What stays with TLC is
liveness: `JoinAnswered`, `WorldBecomesReady`, `LoginIsShown` and `ListsSettle`,
because the prover reasons neither about fairness nor about ENABLED.

`WorldSessions_proofs` proves, for any sets of users, servers and names and any
bounds:

* `MasterCorrect`: `MasterInv` is invariant. It is the conjunction of the types
  of the Master's variables, `NextInstFresh`, `WorldServerOnline`,
  `SessionServerOnline`, `NameMapSound` and `WaitingListsSound`.
  `WorldsAreOnline`, `SessionsAreOnline`, `NamesAreSound` and
  `WaitingListsAreSound` follow.
* `GameTyped` and `TypeCorrect`: the whole type invariant. The queues `down` come
  last: a reply of `HandleWorldInit` is well typed because the k-th of those who
  wait exists for every k up to their number (`KthElement`, by the least k for
  which it would not).
* `RequestsAnsweredOnce`: `OneAnswerPerRequest`. What stands for a player's
  requests is a set of places: in `up`, in `dbq`, in waiting lists, in `down`. An
  action property needs no invariant of its own but must know that these sets
  are finite (`Standing`) and sized right after every step (`Handed`):
  `PlacesAppend`, `PlacesTail` and `PlacesFewer` say what queues do to them, and
  there is one lemma per handler (`JoinRequestHanded`, `DatabaseHanded`,
  `WorldInitHanded`, ...). `HandleWorldInit` answers everybody who waits in one
  step; that it answers each once, and not more than wait, is
  `WaitingListsSound`.

The properties lean on each other. Routing moves a session to the server of a
world, so `SessionServerOnline` needs `WorldServerOnline`; a new instance must
not overwrite one that a name leads to, so `NameMapSound` needs
`NextInstFresh`, that ids not given out belong to no world; a waiting list may
be appended to because the player is not in it yet. Steps of the game servers
leave the Master alone (`GameStep`), so nothing about packets is needed: the
Master's own checks are enough, whatever a game server sends. The proof has one
lemma per kind of handler (`JoinRequestStep`, `DatabaseStep`, `WorldInitStep`,
`PlayerPacketStep`, `SessionPacketStep`, `RemoveServerStep`) over the lemmas
`SessionStep` and `WorldStep` about what they have in common.

`WorldInit_proofs` proves, over those invariants and again for all constants:

* `InitsInProgress`: a loading world of a connected server is at exactly one
  place: ordered in `down`, loading at its server, or reported in `up`; a ready
  world is at none. No world is initialised twice and none is left loading with
  nobody at work on it.
* `RoutesReachReadyWorlds`: a route on its way leads to a world that its server
  has ready, as long as that server is connected and the Master lists the world.

* `PlayersAreCounted`: `PlayerCountConserved`.

All relate the Master, the packets of both directions and the game servers, so
none is inductive. For the first two, `InitInv` adds what the steps need: `LinkInv` (a server
that is not connected has nothing queued to it, one that is down runs nothing,
one the Master does not know has nothing queued from it, so that a server that
comes back starts clean); `OwnerInv` (only the server the directory names has
anything to do with an instance, and nobody with one not created yet, so that a
report can only come from the right server and a new order is the only one);
`StageInv` (order, loading and report exclude each other and occur once);
`StateInv` (the Master's state agrees with the stage), and `DownInv` on what the
packets say. `ConcatMsgs`, `TailMsgs` and `OneMessage` say what appending and
taking do to the packets of a queue and to how often a kind occurs; `QuietStep`
covers every step that changes no stage, `WorldMoves` a world that moves on at
its server, `WorldInitArrives` the report, `NewWorld` the order, and
`FewerWorlds` removals and losses.

For the count, `CountInv` adds two things. The Master clamps a count at zero, so
it must never be about to: at no point of the queue have more LEAVE than JOIN
packets come than the count allows (`Balanced`, kept by `BalancedAppend` when a
server sends and by `BalancedTail` when the Master handles). And a server sends
only about worlds that are its own (`Owned`), so that no other server's packet
can move the count; that is where `OwnerInv` is used again. How many packets of
a kind a queue holds is `Tally`, and that its head counts for one is shown by
the least length for which it would not (`TallyTail`).

`PlayerPresence_proofs` proves, for any users, servers, worlds, saved worlds and
bounds:

* `MasterCorrect`, and from it `SubscribersAreRegistered` and
  `ChangesAreWatched`: the Master's part is inductive by itself. `RemoveServer`
  is the delicate step: the reported user may be any, so the change is kept only
  where a subscriber other than the removed server is left.
* `WatchCorrect`, and from it `NoSubscriptionForgotten`: the use counts and the
  two batches are inductive by themselves. The lemmas `NeededTyped`,
  `RequestStep` and `ReleaseStep` say what requesting and releasing do to them.
* `TypeCorrect`: the whole type invariant. Types of the Master and of the game
  servers come from the invariants above, the queues' from those types.
* `AwaitedAreAsked`: `AwaitInv` adds to `AwaitedIsAsked` that a process that is
  down waits for nobody, which makes it inductive over the types. A question at
  the head of `up` becomes an answer in `down` (`AwaitSubscription`), an answer
  ends the wait of all worlds at once (`AwaitPacket`), and what a loading world
  asks for covers what it waits for (`OwnersAsked`), because it waits only for
  users that nobody watched, and those are always asked for.

`PresenceAgreement_proofs` proves, over those invariants and for the same
constants:

* `SubscriptionsAgree`: whether a server will be subscribed to a user is what
  the last queued packet about the user says, or the Master's present list if
  there is none (`WillOf`). Sending a packet sets it for the users of the packet
  (`WillAppend`), and handling one leaves it (`WillTail`), because the handler
  does what the packet says; so only the steps of the server itself change it.
  The agreement is then inductive over `NoForgottenSubscription`, without which
  the subscribe timer would drop a user of its batch, and `LinkInv`: a linked
  server is registered, an unregistered one has no packet left at the Master,
  and one that is down watches nobody, so that a restart begins in agreement.
* `LoginsAreSeen`: `ToldInv` says that whenever the Master owes nothing more
  about an online user (subscribed, not asked about, no change waiting), the last
  packet down that mentions the user says online, or the server shows it already
  (`ToldAppend`, `ToldTail`). That the server notes the packet needs the first
  theorem: whoever it is subscribed to and does not ask about is still watched.

`WorldPresence_proofs` proves, for any servers, worlds, infos and bounds,
`MaxElements` included:

* `TypeCorrect`: every packet says infos of worlds it may name.
* `DirtyAreListed` and `ListedAreOnline`, from `ListInv`. `ListedOnline` alone is
  not inductive: the Master lists a world because a packet says so, and the
  server may have been lost since. `ListInv` adds `RunsReported` (a report in
  the queue of a connected server is of a world it runs), and `LinkInv` that a
  server not connected has nothing queued to it and one the Master does not know
  has nothing queued from it, so that a restarted server starts with clean
  queues. Worlds of a connected server never stop (`ListGame`), so a report
  stays true until it is read.
* `QueuesComplete`, that is `QueueCompletesList`. Two lemmas about queues carry
  it: `WillAppend` says what one more packet at the end does to what a server
  will show and say of a world, `WillTail` that handling the first packet changes
  neither. With `LinkInv` (who restarts, restarts with nothing shown and nothing
  queued) and `DirtyListed` the property is then inductive (`CompleteNext`).
* `ReportsReach`, that is `ReportsReachMaster`, over `OwnerInv`: `OneOwner` says
  that only one server ever runs a world, notes or reports counts of it or is
  listed for it, because an instance id is given out once, and `IdleHosts` that a
  process that is down runs none. Without `OneOwner` a report of another server
  could overwrite the count; with it the property is inductive (`ReachNext`).

* `Refines`: `ImplementsWorldList`, step by step. `VersionInv` says which version
  of the list each packet on its way belongs to: the versions end in the Master's
  list, a report that waits is of a world no version has had, and each queue
  leads a linked server from the version it is at to the last, every packet
  telling just the step it stands for (`Follows`; `FollowsAppend` at the end of
  the queue, `FollowsHead` at its front). Then each handler is one abstract step
  or a stutter (`RefineStep`): a report opens a world, a removal closes some, a
  packet handled is `Follow` or `Learn`, a link made or lost `Connect` or
  `Disconnect`.
* `ListsAreParts`: hence what `WorldList` promises holds of the program's lists.

The last four hold while `AllReadable`, which is part of the first two
properties and a hypothesis of the other two: there are at most `MaxElements`
worlds. Beyond that packets are dropped;
`TypeCorrect`, `DirtyAreListed` and `ListedAreOnline` hold then too.

`WorldList_proofs` proves of the abstract specification, for any servers and
worlds, `ShowsPart` (a connected server shows part of the version it is at) and
`ClosedForGood` (a world taken off is in no later version). By `Refines` they are
what a reader of the world menu may rely on.

`Holidays_proofs` proves, for any holidays, servers, calendars and bounds:

* `TypeCorrect`: the type invariant, with what a check, a command, a task and a
  load do to it, one lemma each. That no link is up without the Master is part
  of it.
* `ChecksEndInTime`: `CheckEndsInTime`. It is about any state of the right type,
  so the work is in `Checked`: every way to start leaves the day in the window,
  `PeriodicDate` included.
* `OneStartPerDate`: `StartsOncePerDate`, over `OnceInv`: the dates a schedule
  noted grow, none is later than today, and none is later than the one in `last`
  (of a periodic schedule; a random one only ever chooses later starts). A
  periodic date is a multiple of the period away from `last` (`Multiples`), so a
  new one is a later one.
* `ServersFollow`: `ServersFollowMaster`, over `LinksInv` (a server without a
  link has nothing queued, and one that is down knows nothing). `WillKnow` is
  handled by two lemmas, for a packet pushed at the end and one handled at the
  front.
* `RowsFollow`: `RowsFollowMaster`, which is inductive over the types. `OnceDone`
  is what the tables hold once all waiting tasks are done, a recursive function
  over the queue. Two facts about it carry the proof: a task queued is done last
  (`LastDone`) and the worker's next task is done first (`FirstDone`). Both
  compare rows of contents (`Contents`) by the least place where they differ, so
  they hold for queues of any length. A handler is then right if its tasks do to
  a row what the handler does to the holiday (`UpdateEffect`, `InsertEffect`,
  `DeleteEffect`, `RulesEffect`), and loading the tables begins anew with nothing
  to do but a new RANDOM start (`LoadedRow`).
* `NoneMissed`: `CheckMissesNone`, over `Noting` (a date in `last` is one of those
  the schedule noted). `DueIsFound` says that `PeriodicDate` finds a due date if
  there is any, for every period and duration: a window that reaches over more
  than one period holds the day for the latest date too.

`PlayerTrade_proofs` proves, for any slots, items and bounds, the type invariant
(`TypeCorrect`; it includes that only a player in a trade offers or has
accepted, and that who has accepted waits for no delay) and, from it, the three
action properties: `AcceptsForDeal`, `TradeEndsForBoth` and `AcceptsChecked`. For
each message there is a lemma on what it does to the trades of its two or three
players; everything else follows because nobody else's trade changes.

Assumed: the named assumptions of the modules on their constants (null values
are not members, saved worlds are sequences of users, bounds are natural
numbers).

The induction theorems of the library take an operator as a parameter, which the
provers cannot instantiate. Where a fact is about a queue of any length or the
k-th of a set, the proofs take the least number for which it fails instead
(`Least`, from the well-foundedness of `<` on the naturals).

Only model-checked, as said above: `JoinAnswered` in `WorldSessions`,
`WorldBecomesReady` and `LoginIsShown` in `PlayerPresence`, `ListsSettle` in
`WorldPresence`. The three properties of the violation runs are false of the
code, so there is nothing to prove.

## Not modelled, and why

In `WorldSessions`: bans, world capacity, passwords and door ids (they refuse an
entry and change no shared state); the login token (one client per user always
has the right one) and the second device that kicks the first; the automatic
join of a player's last world; the loads behind `GetBestGameServer`; the
initialisation failure no game server reports; the render request. Unloading an
empty world reads the world object after deleting it (`UpdateWorlds`), so it is
covered by `Crash`. Data races of `RemoveServer` with the game loop are not: it
is one atomic step here.

In `PlayerPresence`: the names that travel with a status; the status LED of the
tile, which copies what `presence` says; the tiles of monitors (a world is how
many monitors of each owner it has, so the mix-up of `m_heartMonitors` when a
monitor other than the last is broken is not seen); use counts above 65535;
unloading a world, which takes the server down; the limit of
`PRESENCE_MAX_ELEMENTS` users in a packet (`GamePacket.h`), beyond which a reader
drops the packet: batches of subscriptions, snapshots and changes are taken to
fit. For lists of worlds the limit is modelled, in `WorldPresence`.

In `WorldPresence`: names and types of worlds, which never change after the
creation; WORLD_REMOVE from a game server, which nothing sends
(`RemoveLocalWorld` has no caller); the copy sorted by player count and the text
of the world menu built from it, which are rebuilt from `m_worldPresences`; the
balancer's user counts; counts above 65535. A game server that is cut off keeps
its last list, since nothing connects it again.

In `Holidays`: the display type, greetings and the item pools of a holiday, which
no state depends on; the answers the admin reads; the narrowing of the end of a
holiday to 32 bits of seconds, by which one that would end after 2106 is not
started or is ended at once (no command bounds a duration); the half of the game server's
`HolidayManager` that shows holidays to players. Months of different length and
leap years are not told apart. Commands and checks are each one step: nothing
in the code keeps the two threads apart, and what a race in `m_holidays` would do
is outside the model.

In `PlayerTrade`: the lock flag and the clients' windows; the half second between
two changes of an offer, which only slows them down; the transfer of items, which
cannot be reached.

The other components are listed with their reasons in `PROJECT.json`.

Behaviour the model has and the code leaves open, so that no property claims
otherwise: a LEFT packet clears the world of a session that was just routed
elsewhere; an END_SESSION from an old connection ends a newer session; a player
waiting for two worlds gets two routes; a player that is routed away while it
waits, and asks again from where it is, is answered at the server it left only;
a holiday started by hand or by a rule and then ended may be started again at
once by its schedule; the players waiting for a world whose
server is lost get no reply; a request for a local world that is still loading
is dropped; an owner watched for one world is skipped when
another world loads, and unsubscribed when the first breaks its monitor.

## Plan

Done: `WorldSessions`, `PlayerPresence`, `WorldPresence` over `WorldList`,
`Holidays`, `PlayerTrade`. What is left, in this order:

1. `Login`: the Master's query chain and the second device.
2. `Stats`: deltas at game servers, totals at the Master and in the database.
3. `Database`: pools of workers, reconnect, results; every task is answered.
4. `Connections`: heartbeats and the close handshake; `RingBuffer` against a
   sequence.
5. Locks and inventory rules as operators against definitions.

The transfer at the end of a trade joins `PlayerTrade` when the code reaches it:
then items are to be conserved over it.
