# A verification project for pokebedrock-hub

pokebedrock-hub is the hub server of a Minecraft Bedrock network, written in Go
on dragonfly. Players join the hub, are checked against a VPN service, a rank
service and a moderation service, wait in a queue for one of the downstream
game servers, run parkour courses meanwhile, and are kicked when they idle in a
crowded hub. The hub also coordinates the restarts of the downstream servers
over an HTTP API.

This directory holds TLA+ models of the parts of the hub that keep state and
run concurrently, TLC configurations that check them on small instances, and
TLAPS proofs of all their safety properties for every value of the
constants: any number of servers, players, connections or retries, and any
durations. Paths below are relative to `src/pokebedrock/`.

    tlc -workers 2 -config MCRestartManager.cfg RestartManager.tla
    tlapm RestartManager_proofs.tla

The module of each run is in `PROJECT.json`; for a run `MCx` it is `MCx.tla`,
except that `MCRestartManager.cfg` runs `RestartManager.tla`.

## 1. Inventory

How the hub runs: one dragonfly world with one owner goroutine, on which
handlers, forms, items and scheduled callbacks execute one after the other;
goroutines of its own for every incoming connection (`Allower.Allow`), every
HTTP request of the gin server, every submitted moderation form; workers for
rank updates and inflictions; a ticker (`startTicking`) that posts the queue
update and the AFK check to the owner every second and starts pings; and writer
goroutines of the leaderboards and the VPN cache.

| Component | State | Operations | What is hard | What makes it correct |
|---|---|---|---|---|
| Restart manager (`restart/`) | holder of the slot, FIFO queue with request times, restart history, `closed` | request, complete, unauthorized, cleanup each minute, stop | `closed` read before the lock; timeouts of waiting and of holding; completions late, lost or repeated; all state lost in a crash | one restart at a time; first come first served; cooldown; nobody waits for a free slot; the slot is not kept for ever |
| Player queue (`queue/`, `form/server_confirm.go`) | heap of entries with their index, pending boss bars | add, update (serve one a second), boss bar refresh | removal from the middle of a heap by index; entries of players that left; a transfer that fails after the pop; blocked entries | the heap is a heap; everybody waits once; the first is served; boss bars show the place |
| Downstream servers (`srv/`) | status, counter of failures | ping, assume offline | failures counted across pongs, read and reset by pings that overlap; status as old as the last ping | a server that stopped answering is not offered |
| Authentication (`authentication/`, `pokebedrock.go`) | token and expiry per player | set at the transfer, GET from the downstream server, cleanup | the handler takes the lock twice; the token is stored after the transfer was sent | only transferred players and staff get in; transferred players do get in; tokens are forgotten |
| Parkour runs (`parkour/manager.go`, `session.go`, `handler.go`) | session per player, countdown callbacks, mobility, kit | start, restart, checkpoint, finish, quit, rejoin | callbacks that outlive run, session and visit; cancelling too late | a full countdown before each run; nothing left of a run that is over; times add up |
| Parkour leaderboard (`parkour/leaderboard.go`) | best times, top list, channel of one snapshot, file | update, reset, save loop, close, load | three selects race the writer; truncated files; failed writes and reads | the file catches up; the top list is the best times |
| AFK check (`pokebedrock.go`, `session/movement.go`) | last move and three flags per player | move, check each second | order of warnings and kick; threshold | kicked players were told; a check relieves the hub |
| Moderation (`moderation/`, `session/inflictions.go`, `form/moderate.go`) | flags of the player, inflictions at the service, retries | add, remove, load at the join, freeze, mute, kick | loads that cross changes; retries after timeouts; staff that left; parkour moving the same mobility | nobody silenced or stuck without a reason |
| Admission (`allower.go`, `vpn/service.go`) | cached verdicts, end of the rate limit | Allow with three services in turn | each service fails, times out, is closed, or limits in between; answers are handled out of order; one without a verdict is cached | no proxy of an unlinked player but under the limit or on a cached answer without a verdict; bans hold; announced windows are respected until an older answer overwrites them |
| VPN cache (`vpn/cache.go`) | entries, dirty flag, timer, file and its temporary | set, flush, stop, load | sets during a write; failed writes; crashes | nothing unsaved is forgotten; the file never loses verdicts |
| Ranks (`rank/`, `session/ranks.go`) | ranks, name tag, time of the last fetch, queue | load at the join, sync item, workers, callbacks | two workers answer out of order; full queue; shutdown | at rest the ranks are those of an answer, and the name tag shows them, except after an error or an overtaken sending |
| HTTP API (`pokebedrock.go`) | none of its own | `/authentication`, `/restart/*` | concurrent requests | see the components behind it |
| Player handler (`handler/`) | none of its own | join, quit, chat, move, items | order of the calls | see the components behind it |
| Details worker (`moderation/service.go:306-428`) | queue, two channels of tokens for concurrent requests | queue a request, take it, send it, return the tokens, stop | a token that is not returned stops the worker; the shutdown drains tokens of requests under way | every request goes out in its turn; the shutdown ends |
| Watchdog (`watchdog/`) | ticker, time of the last report per condition | probe the world owner, log, report and flush, stop | checks are delayed by the probe and by flushes, ticks are dropped, the cooldown is used up by a wedge that is over | a wedge of the owner is in the log and at Sentry within a bound |
| Hider (`hider/`) | flag per player; pairs in the sessions of dragonfly | toggle, join, quit | hiding acts on those present, the flag on those that join | everybody sees whom it should |
| Resource packs (`resources/`) | packs, archives, version file | at each start: check, download, remove the old pack, extract, record the version | any call fails, the hub is killed between any two; the next start goes by what is on the disk | a pack that counts as up to date is whole; the old one stays until the new archive is complete; no needless download |
| Shutdown (`pokebedrock.go:609-645`) | the call `Close` is in | stop one service after the other, wait for some | the services work on while they are stopped | it ends, and no verdict is lost |
| NPCs, kits, blocks, forms, commands, locales, settings | data | | | presentation and configuration, not modelled |

Interactions: `Manager.Update` reads the status the pings store and, after a
transfer, stores an authentication token; the parkour manager, the moderation
forms and the load of inflictions all set the player's mobility; ranks decide
priority in the queue, the bypass of the authentication and admission through a
proxy; the AFK check, the hider and the probes of the watchdog all wait for the
one owner of the world, so that a task that wedges it stops them;
`PokeBedrock.Close` closes the moderation, rank and VPN services while
connections and workers still use them. What each of these puts at risk, at its
line, is listed under `hazards` in `PROJECT.json`.

## 2. Modules

| Module | Models | Composes |
|---|---|---|
| `RestartLock` | abstract: one holder and a cooling down set | |
| `RestartManager` | `restart/service.go` | |
| `RestartFleet` | downstream servers, the network and crashes of the hub around it | extends `RestartManager` |
| `RestartManager_proofs` | theorems | extends `RestartFleet` |
| `PriorityQueue` | `queue/priority.go` and Go's `container/heap` | |
| `HeapLoops` | the loops of `container/heap`, to compare | extends `PriorityQueue` |
| `Servers` | `srv/server.go`: the status of the servers and their pings | |
| `PlayerQueue` | `queue/manager.go`, which reads that status | extends `PriorityQueue`, `Servers` |
| `QueueAndServers` | the line and the pings beside each other | extends `PlayerQueue` |
| `QueueAndServers_proofs` | theorems | extends `QueueAndServers` |
| `AuthHandover` | `authentication/` and its HTTP handler | |
| `AuthHandover_proofs` | theorems | extends `AuthHandover` |
| `ParkourSession` | runs of one player | |
| `Leaderboard` | leaderboard of one course and its file | |
| `Parkour_proofs` | theorems | extends `ParkourSession`, `Leaderboard` |
| `AfkCheck` | `doAFKCheck` and the flags of `Movement` | |
| `Watchdog` | `watchdog/watchdog.go` | |
| `Hider` | `hider/hider.go` | |
| `WorldOwner` | the tasks of the world owner and of `startTicking` | extends `AfkCheck`, `Watchdog`, `Hider` |
| `WorldOwner_proofs` | theorems | extends `WorldOwner`, `RankSync` |
| `Inflictions` | inflictions of one player, forms, service, load, parkour mobility | |
| `Inflictions_proofs` | theorems | extends `Inflictions` |
| `Admission` | `Allow` with its three services and the shutdown | |
| `Admission_proofs` | theorems | extends `Admission` |
| `VpnCache` | cache, flusher and file | |
| `DetailsWorker` | `playerDetailsWorker` and `sendPlayerDetails` | |
| `HubClose` | `PokeBedrock.Close` and what goes on meanwhile | extends `VpnCache`, `DetailsWorker` |
| `ResourcePacks` | `resources/manager.go` and its files | |
| `StartAndClose_proofs` | theorems | extends `HubClose`, `ResourcePacks` |
| `RankSync` | ranks of one player, queue, workers, callbacks | |

Actions have the names of the functions they model where they model a whole
function; `map` in `PROJECT.json` gives the lines of every definition. What one
action covers follows the locks and goroutines of the code:

* **RestartManager.** Every handler runs under `Service.mu` and is one action,
  including the call of `processQueue` that ends it. The exception is the test
  of `closed` at the top of `RequestRestart`, taken before the lock:
  `RequestArrives` is that test, `RequestRestart` the rest. Time stamps are kept
  as ages, cut off at `Horizon`; the code only compares ages with three
  durations, so larger ages behave alike. The ticker of the cleanup has its
  channel of one (`due`). `cleanupExpiredEntries` keeps the unexpired entries as
  a choice of positions, in order, of all of them.
* **RestartFleet.** The downstream servers are not in the repository. They are
  modelled from the requests the hub accepts: they poll `/restart/request`, go
  down once allowed or (with `Forced`) without permission, come up, and send
  `/restart/complete` or `/restart/unauthorized`. A notification that was sent may
  arrive at any later time, again and again, or never: the clock does not wait
  for it, and its sender may be about its next restart by then (`notices` are
  those that may still arrive). The hub cannot tell restarts of one server
  apart: it allows a server that still holds the slot again, with the time of
  the earlier restart, and an old notification frees the slot under the next
  restart of its sender. `confused` is the history of who is in such a restart;
  the two properties say that nobody else is exposed. `CrashAndRestart` forgets
  the whole restart state.
* **PriorityQueue, HeapLoops.** `up` and `down` of `container/heap` move one entry
  along a branch with `Less` and `Swap` of the code. They are given by where the
  entries end up: `Climb` and `Descent` are the places that the entry comes by, as
  least sets, and `Rearranged` moves the others and stores each new index, as the
  swaps do. This form has no recursion, which theorems about it could not have.
  `HeapLoops` has the loops themselves; `MCQueueAndServers` assumes, and TLC
  evaluates, that the two agree on every array of up to four entries.
* **PlayerQueue.** `Update` is one action: it drops stale entries, serves the
  first eligible one of the array, transfers (or fails and pushes back), and
  refreshes a batch of boss bars, with the early returns of the code.
  `right` remembers whose boss bar shows the place it has, `asked` what each
  player in the hub asked for last and has not got yet, whatever becomes of its
  entry; `KeepsItsPlace` compares the two.
* **Servers.** A ping that fails has a step for each of its calls: it
  raises the counter, reads it, makes the server offline, resets the counter.
  Pings of one server overlap, since calls of `UpdateAll` that piled up behind a
  wedged world owner run at once. The counter is not reset by a pong, as in the
  code.
* **AuthHandover.** Requests are processes with a step per lock: `Bypass` (the
  roles), `Of`, `Expired`, `Remove`; `Transfer` and `Set` are two steps since
  the transfer packet is out before the token is stored.
* **ParkourSession.** A callback keeps the session object and the generation it
  was made for; `Cancelled` allows cancelling to come too late. The owner runs
  its callbacks within a second.
* **Leaderboard.** Each select of `queueSaveLocked` is a step; opening (which
  truncates) and writing are two. A crash may come between any two. `load` may
  fail to read the file; the hub then starts empty, the file keeps its times
  until the next save, and `failed` says so.
* **AfkCheck.** The check is one action; the kicked set is any choice of the
  longest idle that the loop can produce (ties are broken by map order). `told`
  remembers who was warned since it last moved.
* **Watchdog.** `runCheck` samples and posts the probe; `ProbeRuns` and
  `ProbeTimesOut` are the two ends of the wait, `dispatch` one alert and
  `Flushed` the end of its flush. The alerts of a check are a set, taken in the
  order of `Condition`, in which `evaluate` returns them. The ticker drops ticks
  (`fired` is its channel of one). Goroutines and heap are breached at will. The bounds `LoggedWithin`
  and `SentWithin` are computed from the durations.
* **Hider.** Flags as in the code; the pairs of `HideEntity` are kept for each
  session. Whether a session forgets a hidden player that quits is a choice.
* **WorldOwner.** Every task is one action, possible while the owner is not
  wedged. `ticks` counts the tasks of `startTicking` that wait; they run one
  right after the other when the owner recovers.
* **Inflictions.** Forms are goroutines with a step per attempt, and a callback
  on the owner (`Finish`) that does nothing if the staff member or the player
  left. The load is three steps: `Fetch`, `Store`, `handleActiveInflictions`.
* **Admission.** A connection has a step for every request, one for the answer
  that the VPN API gives (`Answer`) and one in which it is handled, at any later
  time. The answer may be a verdict, a decodable one without a verdict (whose
  `Proxy` field is cached before the connection is denied), a 429, an error or a
  timeout, or never be asked for because the service is closed. Headers tell how
  long a window lasts, which the code counts from their handling; those of an
  earlier window overwrite those of a later one. Histories: `unjudged` (entries
  of answers without a verdict), `told` and `overtaken` (what was announced, and
  whether the hub went back behind it).
* **VpnCache.** `Set` stores an entry under the lock and signals the flusher
  after it (`Signal`), two steps. Writing the temporary file and renaming it are
  two steps.
* **DetailsWorker.** The worker has a step for each channel operation, a request
  one for each token it returns. Requests are counted; one may be `marked`, to
  state that it goes out.
* **HubClose.** `at` is the call `Close` is in. Connections are checked and
  verdicts stored until main returns, and the flusher and the worker go on until
  they see their stop. Three waits have no limit: that of `Service.Stop` of the VPN
  for the flusher, that of the leaderboards for their save loop
  (`parkour/leaderboard.go:117`; `snapshots` are those it has still to write), and
  the close of the server, which is dragonfly's, external, and taken to return.
  The other waits are sleeps or have a time-out. `Restart` is a kill or the next
  start.
* **ResourcePacks.** One action for each file operation, in the order of the
  code, and one for each way it fails. The content of a file is the release it
  comes from, or `Torn`. A manifest may carry the version of its release, none,
  or that of an earlier release (`Header`), so that the release is not recognised.
* **RankSync.** Workers take, fetch (with retries), store, tell and send, each a
  step; the callbacks on the owner run later, in order. A request that is in flight
  when the service is closed may still deliver its answer (`fetchRoles`). `astray`
  says when the name tag need not follow: the last answer was an error, or it was
  stored between another worker's reading and sending of the rank.

## 3. Runs

All runs together take about a quarter of an hour with two workers, the longest a
little over two minutes.

| Run | Instance | Properties |
|---|---|---|
| `MCRestartManager` | 3 servers, cooldown 2, takeover after 2, queue timeout 5 | `Inv`; `ImplementsLock` (refinement), `NoOvertaking`; liveness `SlotIsNotKept`, `AskingIsServed` |
| `MCRestartFleet` | 3 servers, forced restarts, one lost response, notifications late, repeated or lost, one crash | `OneRestartAtATime`, `DownHoldsSlot` |
| `MCQueueAndServers` | 3 players, 2 servers, 3 calls of `AddPlayer`, 2 ranks; 2 failed pings at a time | `LineIsSound`, `BossBarsAreFresh`, `OnlineIsRecent`, `BestIsServed`, `KeepsItsPlace` |
| `MCAuthHandover` | 2 players, 2 requests at a time, tokens of 2, clock to 5 | `TokensAreForgotten`, `AdmittedAfterTransfer`, `RefusedOnlyIfRaced` |
| `MCParkourSession` | 2 plates, countdown 2, 3 runs, 2 visits, 7 seconds | `CountdownGoesOn`, `NoTraceOfRun`, `CountdownIsWhole`, `RecordedTimeIsRun` |
| `MCLeaderboard` | 3 runners, 2 times, list of 2; failed writes and reads, crashes | `FileCatchesUp`, `TopIsBest` |
| `MCWorldOwner` | 3 players, hub for 5, threshold 0.3; interval 3, timeout 1, cooldown 5, flush 1 | `WedgeIsReported`, `HiddenAsToggled`, `CheckRelieves`, `KickedWereTold` |
| `MCInflictions` | 2 forms, 2 inflictions, 1 retry, parkour | `SilencedForMute`, `StuckForReason` |
| `MCHubClose` | 2 addresses, one whose verdict changes, flush after 1, failing writes, 1 crash; 2 snapshots of a leaderboard; 2 concurrent requests, queue of 3 | `UnsavedIsScheduled`, `EndedWithVerdicts`, `FileNeverForgets`; liveness `CloseEnds`, `DetailsGoOut` |
| `MCResourcePacks` | 2 packs, 4 releases, 2 failing calls, 3 starts | `UpToDateIsWhole`, `OldPackOutlivesDownload`, `NoNeedlessDownload` |
| `MCAdmission` | 2 connections, 3 addresses, 2 attempts, windows of 1 or 2, clock to 3 | `ProxiesKeptOut`, `BanHolds`, `WindowRespected` |
| `MCRankSync` | 2 workers, 3 states of the account, 1 change | `RestIsTrue`; liveness `LoadsEnd` |

`Inv` holds the types of the restart manager. Every other module has a `TypeOK`
of its own (with a prefix where several modules are composed: `FleetTypeOK`,
`ServersTypeOK`, `AllTypeOK`, `BoardTypeOK`, `AfkTypeOK`, `WatchdogTypeOK`,
`HiderTypeOK`, `DetailsTypeOK`, `HubTypeOK`, `PacksTypeOK`, `RankTypeOK`); adding
it to the INVARIANTS of a configuration checks it. All are proved, as part of an
inductive invariant.

**Why the bounds are enough.** Three servers in the restart runs give a holder,
a head of the queue and one behind it, which is what overtaking, takeover and
removal from the middle need. The constants are chosen so that the thresholds
fall at different ages. In `MCRestartFleet` they satisfy
`PollEvery * (1 + MaxLosses) + DownTime < MaxRestartTime`, without which a
takeover hits a restart in progress. For a server whose earlier restart is not
taken for the present one (section 5), nothing else is needed: the proof of
`OneDownAtATime` (section 4) assumes no more. With the default
`MaxRestartTime` of 20 minutes (`config.go:27`) a server that polls each minute and
loses one response has nearly 18 minutes to restart. In `MCRestartManager` the
queue timeout outlasts the takeovers that may be ahead. `DefaultConfig` does not ensure that (15 minutes, while a single
silent holder may keep the slot for 20): an entry may expire there while its
server is next in line, and the server queues again at the end.
Three entries are the smallest heap with a removal that is not at the end and
two children to choose from. Two handlers, forms, connections or workers are
one interleaving partner for each other; a third would repeat the race. Clocks
run just past the longest duration that is compared. In `MCAdmission` that is
so for the limited windows (2, with the clock to 3: windows end, others follow,
and answers of the first are handled in the second), in behaviours about
proxies only; bans and the shutdown are not compared with the clock, and the
behaviours about them have it stand still. Two failing calls and
three starts let an update fail, the next one be interrupted, and the third
judge what is left; the four releases have their manifest last with a version,
first without one, first with the version of another release, and not at all.
The watchdog has the order of its defaults
(interval 30 s, timeout 10 s, cooldown 5 minutes, flush 2 s).

**Slices.** `MCQueueAndServers`, `MCWorldOwner` and `MCHubClose` choose a `kind`
of behaviour at the start, and `MCAdmission` what it is `about`. The line meets the
pings only in the status they store: a long line is checked under every change of
the status, also those no ping makes, and a short one with the pings. Idleness,
hiding and the watchdog share no variable but `wedged` and the set of the players
present; verdicts and details of players meet only in
`Close`; limited windows and bans meet only in the connection that has to pass
both. Each kind varies one part and keeps `Close`, or the owner, whole, and no
property speaks of more than one of the parts. The bound `Missable` of
`OnlineIsRecent` is proved for any number of both; TLC finds it reached, and so the
least, for up to three retries and three pings at a time.

**Deadlock** is checked except where a behaviour really ends: in
`MCParkourSession` (the player has left for good and the clock stands), in
`MCInflictions`, `MCAdmission`, `MCRankSync` (submissions, visits and the clock
are bounded, and the hub shuts down; in `Admission` a panic may end it), in
`MCHubClose` (main has returned) and in `MCResourcePacks` (the last start serves).

**Fairness.** `RestartManager!Fairness`: time passes, and the Go runtime runs
the cleanup goroutine and every handler that waits for the lock; no server has
to send anything, so `SlotIsNotKept` holds for holders that vanish.
`PromptSpec`, which the run uses, also has the cleanup go ahead of the clock when
it is due, and every server ask again some time, as the protocol has it do;
`AskingIsServed` needs that. `HubFairness`: time limits of requests run out,
goroutines run, so does the save loop (`SaveSnapshot`: a write to the disk
returns), the server closes, and `Close`, once called, is run; nobody has to call
it. The
flusher's select is given strong fairness for its stop case, because Go chooses
among ready cases at random, while a timer that fires each time could be taken
for ever under weak fairness. `RankSync!RankFairSpec`: HTTP requests
time out, also those in flight at the shutdown (`Fetch`, `fetchRoles`), workers and
callbacks run; the player need not use the item.

## 4. Proofs

Every safety invariant and every action property that the runs check is proved,
for all values of the constants. The theorems are in the `_proofs` modules;
`tlapm` proves each module in one to five minutes. In every one of them the
property is not inductive, and the work is the invariant that is. What follows
says for each what that invariant adds and why it is needed.

**Assumptions.** The modules name their assumptions on the constants
(`NoneAssumption`, `DurationAssumption`, `ServerAssumption`, and so on): mostly that
durations and counts are natural numbers, that the special values are no servers,
players or plates, and that a capacity is positive. TLC evaluates all of them, since
every such module is extended by the module of a run. Four theorems need more,
and state it as a hypothesis:

| Hypothesis | Needed by | Where the code has it |
|---|---|---|
| `RestartCooldown > 0` | `RestartImplementsLock`: with no cooldown nothing ever cools down, and the abstract lock does not apply | default 5 minutes, `config.go:28`; not enforced |
| `FleetTiming`: polls, lost responses and restart fit into `MaxRestartTime` | `FleetInvariant` and its corollaries | a condition on how the servers behave |
| `AFKWarnApproaching`, `AFKMarkAFK`, `AFKFinalWarning` at most `AFKTimeout` | `NobodyKickedUntold` | defaults 4, 5, 9 and 10 minutes, `config.go:19-22`; not enforced |
| `ArchivesAreSimple`: an archive lists a file once and brings no version file | the theorems about the resource packs | a condition on the releases |

One of the named assumptions says more than the code ensures: by `PacksAssumption`
no manifest claims the version of a release later than its own. One that did
would be taken for the later release once that is out. A manifest with an earlier
version, or none, is not excluded.

**`RestartManager_proofs`.**

* `RestartInvariant`: `Spec => []Inv`, with
  `Inv == TypeOK /\ NobodyWaitsForFreeSlot /\ QueuedOnce /\ QueuedOutOfCooldown`.
  `processQueue` hands the slot to the head of the queue without testing the
  cooldown, so the cooldown needs `QueuedOutOfCooldown`; the head that gets the slot
  starts to cool down, so that this stays true of the rest of the queue only if
  the head is not queued a second time, which is `QueuedOnce`; and a request may
  take the slot at once only because a free slot means an empty queue. One lemma
  for each handler, and lemmas about the queue (`RemoveAtProperties`,
  `WithoutProperties`, `UnexpiredProperties`, `ProcessQueueProperties`).
* `CooldownTheorem` (`CooldownRespected`): the slot never passes to a server in its
  cooldown, whoever freed it. `NobodyOvertakes` (`NoOvertaking`): whatever leaves the
  queue leaves the rest in its order, and the slot goes to the first that stays.
* `RestartImplementsLock` (`ImplementsLock`): the manager refines `RestartLock`.
  `SlotStep` says how a step changes slot and history; each case is a step of the
  lock.
* `FleetInvariant`, and from it `OneDownAtATime` and `RestartsHoldTheSlot`. Nothing
  in the manager says that a server is down, only how long ago it got the slot.
  `FleetInv` follows a permission from the response, through the polls after
  responses that were lost, to the restart and its notification, and counts for
  each how old the slot is at most (`SlotFits`): less than `MaxRestartTime`, so that
  no takeover passes it on. This holds of servers that are not `confused`, whatever
  notifications do: `HoldsPermit` keeps those apart, and the permissions of one
  incarnation of the hub from another's. The theorems do not say that a server
  never gets confused; the code cannot prevent it.

**`QueueAndServers_proofs`.**

* The heap, for arrays of any length. `Ascent` and `Dive` say for each place where
  its entry comes from in `up` and `down`. Both are onto the places and so, since the
  places are finitely many, one to one: no entry is lost or doubled (`Shuffled`).
  `UpHeap` and `DownHeap` need the array to be a heap but for the moved entry, with
  its children not before its parent; `down` either does not move and leaves an
  array that `up` mends, or moves and has mended it, which is why `heapRemove` may
  do one or the other (`RemoveFacts`). The path of an entry ends because its least,
  or greatest, place does not go on.
* The line: `LineStaysSound` (`LineIsSound`), `BossBarsStayFresh`, `PlacesAreKept`
  (`KeepsItsPlace`), `BestComesFirst` (`BestIsServed`). `LineInv` adds to the properties
  that join times are of the past and all different: `removeEntry` goes by the index
  an entry carries now, after earlier removals have moved it, and a pushed back
  entry must not meet its double. `KeepsItsPlace` is part of it: the entries of a
  player that is here are those it asked for. `RemoveEntriesLeaves` follows `Update` over the
  array and says who is left: everybody but the removed, with rank, server and
  join time. `FirstIsBest` is what the heap is for. All four are proved of
  `AllSpec`, with the pings storing any status meanwhile; so is `AllTypes`.
* The pings: `OfflineInTime` (`OnlineIsRecent`). What is missed depends on the
  pings under way: one that has read the counter before it was exhausted lets
  another fail; one that is late with its reset lets a whole round begin again. `Sound`
  adds to the failures so far those still to come in this round (`ThisRound`) and in
  the rounds that pending resets begin (`NextRounds`), and bounds the sum.

**`AuthHandover_proofs`.** `TokensForgotten`, `OnlyTransferredAdmitted`,
`RefusalsAreRaces`. A token only says when it expires. The invariant relates it to
the transfer it was stored for (`TokenOfLastSet`), states what a request still
knows of it between its two locks (`SeenOfLastSet`), and why a player that was just
transferred may have none (`GoneByRace`).

**`Parkour_proofs`.** The leaderboard: `FileIsCurrent`, `TopIsRebuilt`, and
`TopListMeans`, which says what the order of `rebuildTop` is worth to its readers.
The latest snapshot moves from the mutex to the channel to the save loop to the
file, and no older one is ever behind it (`LatestIsUnderway`). The runs:
`RunsLeaveNoTrace`, `CountdownIsCarried`, `CountdownsAreWhole`, `TimesAreTrue`. Any number
of callbacks of earlier runs, sessions and visits may be about (`TasksAreOld`);
`Chain` says that exactly one of them carries the countdown on and is not early.

**`WorldOwner_proofs`.** `HidingIsConsistent` needs to know which pairs a session kept
for players that are away (`HiderInv`). `NobodyKickedUntold` rests on flags that mean
warnings (`AfkInv`); `CheckAlwaysRelieves` is arithmetic about the cut-off threshold
and any choice among the longest idle. `WedgesAreReported`: `DogInv` bounds, for each
place of the loop, how far the next log and the next report of a stall are, over
flushes, dropped ticks and the cooldown of an earlier wedge. `RanksComeToRest`
(the module `RankSync`, whose callbacks run on the owner): while rank or name tag is
not one the account gave, a load or a callback that repairs it is under way
(`LoadsAreTrue`); and unless the tag is astray, the worker that holds a rank it has
read holds the present one, and either a worker is about to send it or the last
callback that changes the tag has it (`TagFollows`). `OwnerTypes` collects the types of the parts.

**`Inflictions_proofs`.** `MutesAreMeant`, `NobodyIsStuck`. A mute is stored in two fields,
and a permanent one leaves the time of an earlier one in place: `Backed` says which
infliction stands behind the two, and `Answers` what a form, which applies an
infliction long after it asked for it, must know by then.

**`Admission_proofs`.** `ProxiesStayOut`, `BansHold`, `WindowsAreRespected`. Connections meet
only in the cache, the rate limit and the bans, so the invariant has a part for the
cache (an entry that is not `unjudged` is a verdict, `CacheOK`), one for the limit
(unless `overtaken`, the hub waits at least as long as any answer told,
`LimitOK`), and one for each connection (`ConnOK`).

**`StartAndClose_proofs`.** `NoUpdateForgotten`, `FileOnlyGrows`, `NothingLostAtClose`: what
the file lacks is told by the dirty bit, and the dirty bit by the signal, the timer
and the failure. `DetailsBounded`: the tokens are accounted for. `UpToDateTheorem`,
`OldPackIsKept`, `DownloadsAreNeeded`: `DiskGood` is what a kill leaves, at any step;
`PacksInv` adds what each step of an update has written so far. Both claim
a whole pack only of releases that are `Recognised`.

**Only model-checked.**

* Liveness (`SlotIsNotKept`, `AskingIsServed`, `CloseEnds`, `DetailsGoOut`, `LoadsEnd`):
  fairness and ENABLED are beyond the prover.
* That `up` and `down` agree with the loops of `container/heap` (`LoopsAgree`): what a
  recursive operator computes for every input is induction over data.

## 5. Where the code departs from its documentation

These were met while modelling. The models do what the code does, and the
properties above are stated so that they hold of it.

* `restart/service.go:95`: the holder that asks again is allowed at once. A
  server whose completion is late or lost may go down twice within the
  `RestartCooldown`, which `config.example.toml:48` calls the "Minimum time
  between restarts for the same server". The second restart has the time of the
  first, so that the cleanup (`:298`) may hand the slot on in the middle of it.
* `restart/service.go:186`, `:230`: a notification names a server, not a restart.
  One that comes late frees the slot under the next restart of its sender, and
  the head of the queue restarts beside it. `OneRestartAtATime` and
  `DownHoldsSlot` except the servers in such restarts (`confused`), and show that
  nobody else is affected.
* `vpn/service.go:217`: a decodable answer whose status is neither "fail" nor
  "success" is cached with its `Proxy` field, absent or not, before
  `allower.go:73` denies the connection. The next connection from the address
  finds the entry and, if it says so, is let in. `ProxiesKeptOut` excepts it.
* `vpn/service.go:242`: the reset is overwritten by whichever answer is handled
  last, and counted from then. A late answer of an earlier window shortens the
  one in force, and requests go out within it. `WindowRespected` excepts the
  connections that come by this, and those after a header that cannot be read
  if `DefaultTTL` is shorter than the window.
* `session/ranks.go:132`: the worker stores the ranks, reads the highest of them,
  and sends it to the owner later. When another stores in between, the name tag
  may stay at the older rank. An error, of an account that is not linked too, makes
  the player `UnLinked` and leaves the tag as it is. `RestIsTrue` excepts both.
* `parkour/leaderboard.go:59`: the error of `load` is dropped. A file that exists and
  cannot be read counts as none, and the next save replaces it, with all its
  times.
* `queue/manager.go:197`: `Update` walks the array of the heap, which is in order
  of priority only along its branches. When the head is gone or blocked a lower
  rank may go first, against lines 58-60 of the same file. `BestIsServed`
  therefore speaks of lines in which nobody is blocked.
* `queue/manager.go:223`: the count compared is that of the last ping, without the
  players sent since, so that players are sent to servers that are full by then.
* `pokebedrock.go:243`: the handler reads the token, finds it expired and removes
  the player's token by xuid under a second lock. A token stored in between is
  lost. `RefusedOnlyIfRaced` excepts just this.
* `pokebedrock.go:226`: the comment at line 222 lets "mod or above" bypass the
  authentication; the code requires `HeadModerator`.
* `pokebedrock.go:598`: the threshold is cut to an integer, so that one player
  more than needed may be kicked (0.7 of 5 goes on until 2 remain).
* `pokebedrock.go:580`: in a hub that fills up, a player long idle gets the last
  warning ("Move now") and is kicked by the same check.
* `parkour/manager.go:140`: countdowns and ends of runs make the player mobile
  although it may be frozen. `StuckForReason` is the direction that holds.
* `form/moderate.go:165`: a permanent mute leaves the duration of an earlier timed
  one, and the player talks when that is over.
* `session/inflictions.go:140`: a load answered before a mute was lifted, and
  stored after, mutes the player again.
* `moderation/service.go:98`, `:146`: closed before the first attempt, the service
  returns neither result nor error. A submitted form is told that the infliction
  was added, and `allower.go:35` dereferences nil.
* `vpn/cache.go:150`: every `Set` restarts the timer of the flush, whose comment
  (line 17) calls the interval the maximum delay.
* `allower.go:63`: players are let through when the VPN service is rate limited;
  but the one whose own request gets the 429 sees another error text
  (`vpn/service.go:223`) and is denied.
* `handler/player.go:110`: the time of the last successful fetch is set when the
  load is requested, also if it fails.
* `resources/manager.go:175`, `:268`: a pack whose manifest carries the version
  of the release is up to date. When the hub is killed after the manifest was
  extracted and before later files of the archive were, the pack passes for
  whole from then on. `UpToDateIsWhole` therefore speaks of the files before the
  manifest, and of all files where the version file decides.
* `resources/manager.go:226`: a manifest with another version than the tag of its
  release makes every start download the release again, whatever the version file
  says; a kill in the middle of that can leave the version file of the release
  beside a torn manifest, and then the version file decides. Both properties of
  such packs speak of the other releases.
* `watchdog/watchdog.go:59`: a `HeapAllocThreshold` of 0 is said to disable the
  heap probe; `withDefaults` (line 81) replaces it by the default of 2 GiB.
* `moderation/service.go:417`: `Stop` always sleeps three seconds, whatever is in
  flight; queued requests are dropped; and the worker takes tokens that requests
  under way have yet to take back, whose goroutines then block for ever. `CloseEnds`
  shows that `Close` does not wait for them.
* `hider/hider.go:98`: showing all reaches those present. A session that kept a
  pair for a player that was away goes on hiding it, which `HiddenAsToggled`
  excepts.
* `pokebedrock.go:493`: after a wedge the piled up tasks of `startTicking` run one
  right after the other. A wedge longer than the AFK time makes players look
  idle that could not move, and in a crowded hub these checks warn and kick them
  before their moves are handled.
* `rank/service.go:71`: a load during the shutdown finds no roles and no error and
  makes the player a Trainer.

## 6. Not modelled, and the plan

Left out for good: presentation (texts, popups, NPC looks, kits as items), the
parsing of pongs and of HTTP bodies, the mapping of role names to ranks, which
is data, and the stalls of the world owner by synchronous HTTP calls, which
change no state of the models.

Startup is a sequence of calls without state of its own. Its one hazard, a
request to the HTTP server before `loadServices` has run
(`pokebedrock.go:118`), ends in an error 500 and is left out. Slappers, forms,
commands, locales, settings and helpers keep no state that another step could
find changed.

Next, in this order:

1. A specification of the line without a heap (a set of entries with rank and join
   time, from which the best is taken), and `PlayerQueue` as its refinement as long
   as nobody in line is blocked; `LineInv` and the lemmas about `Left` are what the
   step needs.
2. The same for the save loop of the leaderboard: a file that holds some earlier
   state of the times, and catches up.
3. `Leaderboard` for several courses, should they come to share a file.
