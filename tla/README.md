# TLA+ models of the trading-robot service

The repository is a Go service: an HTTP and websocket API for users and their
trading robots, a PostgreSQL database, and a background process that streams
prices over gRPC and trades for the robots. This directory models its core in
TLA+, checks the models with TLC on small instances, and proves theorems about
them with TLAPS for every size.

Contents: 1 components, 2 modules and how they correspond to the code, 3 runs and
bounds, 4 fairness, 5 what the checks show, 6 proofs, 7 what is not modelled,
8 what could follow.

## 1. The system

| Component | Code | State | Operations | Interacts with |
|---|---|---|---|---|
| Trading process | `cmd/auth-api/trading/trading.go` | the cycle (context, tickers, channels, WaitGroup); per ticker a reader and a forwarder goroutine; per robot a `Trade` goroutine with its own copy of the row | `StartTrading`, `readService`, `separateChan`, `closeChan`, `Trade` | robots table (`FindToTrading`, `Trade`), trading service (gRPC stream), hub (`Broadcast`) |
| Robot | `internal/robot/robot.go` | `IsBuying`, `DealsCount`, `FactYield` and the limits | `Buy`, `Sell` | used by `Trade` |
| Robot storage | `internal/postgres/robot.go`, `init.sql` | table `robots` | `Create`, `SoftDelete`, `FavouriteRobot`, `ActivateRobot`, `DeactivateRobot`, `Trade`, finders | one transaction per write |
| Websocket hub | `cmd/auth-api/handlers/websocket.go` | `clients`, `mutex`, `nextID`, each client's `robotID` | `addClient`, `setRobot`, `Broadcast`, `removeClients`, the connection loop | called by `Trade` and by handlers; reads the robots table |
| Robot handlers | `cmd/auth-api/handlers/handlers.go` | the locals of each request | create, delete, favourite, activate, deactivate, details, lists | robots table, hub |
| User handlers, users | `handlers.go`, `internal/user`, `internal/postgres/users.go` | table `users` with a unique index on email | `SignUp`, `SignIn`, `UpdateUser`, `GetUser` | users and sessions tables |
| Sessions, authentication | `middleware.go`, `internal/session`, `internal/postgres/sessions.go` | table `sessions`; the token at the client | `NewSession`, `Create`, `FindByUserID`, `Equal`, `authentication`, `authorization` | in front of every other route |
| In-memory storages | `internal/user/storageInMem.go`, `internal/session/storageInMem.go` | a map, a slice | the storage interfaces | tests only |
| NullTime, JSON | `internal/robot/time.go`, `user.go` | none | conversions | request bodies, answers, SQL |
| Database access | `internal/postgres/postgres.go`, `statements.go` | pool, prepared statements | `New`, `CheckConnection`, `Close` | start-up |
| Start-up | `cmd/auth-api/main.go` | how far `main` has come, the port | open, ping, prepare, dial, `go StartTrading`, `ListenAndServe` | starts everything else; every error is fatal |
| Templates, logging, generated gRPC | `web`, `pkg/log`, `internal/fintech` | – | – | – |

What makes it hard:

- **Concurrency.** Goroutines of the trading process, of requests and of
  connections share the robots table (no row locks, every write its own
  transaction) and the hub (one mutex).
- **Snapshots.** Each `Trade` goroutine works on a copy of its row until the
  cycle ends; handlers decide on a row they read in an earlier transaction.
- **Failure.** A failed `Price` leaves a nil stream, and using it kills the
  process; writes fail and are only logged; a failed commit may have happened;
  peers stop reading; the process restarts.
- **Calls across components.** A `Trade` goroutine calls `Broadcast` and waits for
  it, so a websocket client can hold up the trading of every robot; a panic in
  either half ends both.
- **Start-up.** Trading begins before the port is bound; the database may go away
  between any two statements that are prepared.
- **Ordering and time.** The deadline of a cycle is looked at only between two
  prices; the session that counts is the one created last, not written last.

`PROJECT.json` lists every hazard with its line and the properties that cover it.

What makes each component correct:

- *Trading*: cycles never overlap; every robot of a ticker gets every price once
  and in order; a recorded position is never undone or counted twice; only
  selected robots trade; a cycle ends.
- *Hub*: one writer per connection; a listed connection is an open one; no change
  of a robot is missed by its subscribers; `Broadcast` returns.
- *The running process*: it is both of these at once; a deal is shown before its
  robot decides on the next price; a cycle that hangs waits for the trading service or
  for a client.
- *Robot handlers*: no lost update; only the owner acts; deleted robots stay gone;
  and are never listed; what trades has a plan; favourites are fresh and point to
  older robots.
- *Accounts*: a user changes only their own row; one session per user works, and
  sessions only move forward.
- *Start-up*: nothing works on a statement that was not prepared; a start ends; two
  processes trade together for a moment at most.

## 2. Modules

| Module | Models | Kind |
|---|---|---|
| `Robot` | `robot.go`: position, `Buy`, `Sell`, the two conditions of `Trade` | pure operators |
| `Trading` | `trading.go` and the columns of `robots` it reads and writes | state machine |
| `RobotLedger` | what `Trading` promises about recorded positions | abstract specification |
| `WSClients` | `websocket.go` | state machine |
| `RobotHandlers` | robot handlers over the robots table | state machine |
| `RobotTable` | what happens to the robots table, whoever writes | abstract specification |
| `Accounts` | user handlers, sessions, middleware, tables `users` and `sessions` | state machine |
| `Service` | the running process: `Trading` and `WSClients` calling each other | composition |
| `Startup` | `main.go`, `postgres.go`, `statements.go` | state machine |
| `MCTrading`, `MCWSClients`, `MCService`, `MCRobotHandlers`, `MCAccounts`, `MCStartup` | constants and symmetry of the instances | for TLC |
| `TradingProofs`, `LedgerProofs`, `CycleProofs` | theorems about `Trading` | for TLAPS |
| `HubProofs` | theorems about `WSClients` | for TLAPS |
| `ServiceProofs` | theorems about `Service` | for TLAPS |
| `HandlersProofs` | theorems about `RobotHandlers` | for TLAPS |
| `AccountsProofs` | theorems about `Accounts` | for TLAPS |
| `StartupProofs` | theorems about `Startup` | for TLAPS |

`Trading` EXTENDS `Robot` and instantiates `RobotLedger`; `RobotHandlers`
instantiates `RobotTable`; `Service` instantiates `Trading` and `WSClients`.

An operator marked *Sensitivity variant* is a mutated form of the definition after
it. No specification uses it; putting it in the place of that definition must make
a named property fail (`"mutants"` in `PROJECT.json`), which shows that the
property depends on the code it is about.

### Trading

| State | Code |
|---|---|
| `rows[r]` | row of `robots`: `is_active`, where `now()` lies against the plan, `deleted_at`, and the position |
| `main` | where `StartTrading` is: before the query, opening streams, in `wg.Wait`, or the process is down |
| `outs[t]` | `tickerRobots[t]`, in the order the query returned; also the list of channels `separateChan` made |
| `rd[t]`, `held[t]` | the goroutine of `readService`: in `Recv`, in `out <- price`, ended with `close(out)`, or with the nil stream of a failed `Price` |
| `fw[t]`, `cur[t]`, `next[t]` | the goroutine of `separateChan`: in `range in`, in `ch <- price` for the robot at `next`, ended |
| `tr[r]`, `rob[r]` | the `Trade` goroutine: in `range in`, about to write, in `Broadcast`, ended; and its copy of the row |
| `expired` | the deadline of the cycle's context has passed |

All channels are unbuffered, so a send and its receive are one action (`Handoff`,
`Deliver`). A `Trade` goroutine decides in the step in which it receives, because it
touches nothing shared before `robotStorage.Trade`. `Store` may commit, fail, or
fail at the commit; `Cast` is the return of `Broadcast`, whose inside is in
`WSClients`. `Query` includes the case that `FindToTrading` fails and the cycle is
empty. `NilStreamPanic` ends the process, as does `Crash` at any time; `Restart`
begins with an empty cycle. `SetActive`, `SoftDelete` and `PlanClock` are the rest
of the system as this process sees it: unconditional updates of single columns.
History variables (`passed`, `overtime`, `got`, `lapsed`) count prices, those taken after
the deadline among them, and remember who stopped being tradable within the cycle; no
guard of the code's steps depends on them except through the bound `FeedOpen`.

### WSClients

A client id is given once, under the mutex, so it is identified with its connection.
`pc[p]` names the statement a goroutine is at; `addClient`, `setRobot` and
`removeClients` are one step each because they do nothing that blocks while they
hold the mutex; `Broadcast` takes a step per client, because `WriteJSON` can block.
`todo[p]` is the rest of the map in the order `range` takes it (any order);
`bad[p]` is `inactiveClients`. A nil lookup is a panic: in a `Trade` goroutine it ends
the process, in a goroutine of net/http it is recovered, with the deferred
`Unlock` of `removeClients` and without one in `setRobot`. `sock[c]` is the peer as a
write finds it: open, stalled (takes no data), broken (its peer has ended the stream or
is gone), or closed by the hub. A write to a broken connection fails, or the kernel still
takes the data and nobody gets it; a read ends with `io.EOF` or with an error the loop
ignores. `ver[r]` counts the changes whose writer goes on to broadcast; a `Broadcast` need
not follow a change (`Change`: a failed write of `Trade`, the parent of a favourite).

`Crash` is the end of the process from any cause; after `Restart` the clients are new.

### Service

The variables are those of `Trading` and of `WSClients`; the robots of the one are
the callers of `Broadcast` in the other. Three steps belong to both: `Trade` stores a
deal and enters the hub (`Store` with `Change`: the row gets a new version exactly when
the write was committed); the step with which a `Trade` goroutine leaves the hub is
`Cast`; and what ends the process (`NilStreamPanic`, a panic of a `Trade` goroutine in
the hub, `Crash`) ends and restarts both halves. Every other step leaves one half as it
is. `Find` ties the two tables together: a deleted robot is not found. A request
broadcasts a robot it has switched, or copied and left as it was; `Silently` stands for
changes nobody broadcasts: `DeleteRobot`, an activation or deactivation whose commit took
effect although it returned an error, and the passing of a plan's limits.

### RobotHandlers

A request is `Begin` (it passed authentication, which `Accounts` models), then for
`/robot/{id}` `FindByID`, `Judge` (the checks of the handler on the row it read, at the
time it is now), `Write` and `Broadcast`, and for the two lists `List`; between any two of
them everything else may happen. `Write` appends a row or updates the named columns
without looking at the row; an error of the commit leaves both outcomes open. `Broadcast`
ends with the answer, or in a panic that net/http recovers, and then the client gets no
answer to what was committed; it need not end at all.

The trading process is here as far as it writes the table. `NextCycle` gives the robots
that `FindToTrading` selects their copies, of which `taken[i]` is the position; `Trade(i)`
makes a deal on the copy and writes the position the copy has come to. The write may
fail and is not repeated, so that a later one moves the row by several deals at once; it
is absolute and looks at nothing, so that a copy behind its row would take deals back.

A row has a ticker, an owner, a parent, its flags and its plan; a limit of the plan is
a time or NULL. `UnmarshalTime` is what the JSON of a body makes of it: a limit left
out becomes NULL, a `null` becomes the zero time, which lies before every other time
(`internal/robot/time.go:17`; the method is called for `null` with four bytes, not
with nil). `Filter` picks one of four queries by which of ticker and user are given;
`FindToTrading` is the query of the trading process on the same rows. `gone[q]` is
history: the robots that were deleted when request `q` began.

### Startup

`at[p]` is the statement of `main` that process `p` has reached. `Ping` and `Pause` are
the two halves of a round of `CheckConnection`; `Prepare` prepares one statement of the
storage at hand (four for users, two for sessions, eleven for robots). Every error ends
in `Fatalf`, which is `Exit`: no deferred closer runs, the goroutines end and the port is
free. When `ListenAndServe` returns later (`Closed`), the port is free first and trading
goes on until `Fatal`. `Die` is an end from outside or by a panic, `Outage` the database going away and coming back.
`port` is all that two processes on one machine compete for.

### Accounts

A session row and its token carry the same values, so a session is one record.
`Check` is `FindByEmail` with the comparison of the password, `NewSession` reads the
clock, `InsertSession` writes the row and answers: the order of insertion need not
be the order of `created_at`. `Authentication` looks at the newest session and the
clock; where rows tie the query may return any. Tokens presented are tokens the
service has answered. Any other string changes nothing: what does not decode is answered
400, and what decodes is refused unless its user and times are those of a session in the
table, which is to present the token of that session. The
clock may be set back once. The database index decides about emails; the check in
`UpdateUser` does not, as an error of `FindByEmail` passes for "free".
`Check` lets the clock go on by one: a password hash takes tens of milliseconds, the
clock is read in nanoseconds.

## 3. Runs and bounds

| Run | Instance | Properties |
|---|---|---|
| `trading_solo` | 1 robot with greedy limits, 2 quotes, 2 prices a cycle, 2 deals | `TypeOK`, `LedgerSpec`, `TradesOnlySelected` |
| `trading_shared` | 2 robots with different limits on 1 ticker, 2 prices a cycle | `FanOut`, `CopyExtendsRow`, `DeadlineBinds`, `CycleEnds` |
| `trading_tickers` | 2 robots on 2 tickers, 1 price a cycle | `Pipeline`, `StallsOnlyOnFeedOrBroadcast` |
| `hub_clients` | 2 connections, 1 `Trade` goroutine, 1 robot changed twice | `NoMissedChange`, `ListedUntilClosed`, `ClosesOnlyBroken` |
| `hub_live` | 1 connection, 1 `Trade` goroutine, 1 request, 1 robot changed once | `TypeOK`, `MutexOwner`, `JamCause`, `NoHubDeadlock`, `BroadcastReturns`, `AllInformed` |
| `service_parts` | 1 robot, 1 request, no connection, 2 prices a cycle | `TradingSpec` |
| `service_hangs` | 1 robot, 1 connection, 1 price a cycle | `ShownBeforeNext`, `NoDeadlock`, `HangsOnFeedOrHub` |
| `handlers_race` | 2 requests of any kind, 2 users, 1 robot with 2 deals, a clock through the plan | `PlannedOnly`, `DeletedStaysGone`, `OwnerActs`, `TableSpec` |
| `handlers_copies` | 2 requests that write, 1 user, 2 robots with 1 deal each | `TypeOK`, `Lineage`, `FreshRows` |
| `accounts` | 2 requests, 2 users, 2 emails, time to 3, sessions that last 2 | `TypeOK`, `SingleSession`, `NoOldToken`, `OnlyOwnRow` |
| `startup` | 2 processes, an unreliable database | `TypeOK`, `ReadyBeforeWork`, `OverlapOnlyAtStart`, `StartEnds` |
| `handlers_lists` | 2 robots, 2 tickers | `FindsActiveRobots`, violated: section 5 |

Bounds, and why they suffice:

- `MaxPrices`: prices passed on from one stream in one cycle. Two show the forwarder
  coming back to the first robot with the next price; cycles themselves are not
  bounded. `MaxDeals` ends trading after so many deals of a robot, so that yields
  stay finite; two deals make a buy, a sell, a lost write in between and a later
  cumulative one.
- Prices: with `Low` and `High` every robot buys and sells; the greedy limits also
  lose money, so that the bound of `RobotLedger` is not trivially positive.
- Two robots are what it takes for one to be held up by the other and for cycles
  of different robots to end apart; the theorems have any number.
- `MaxVersion`: two changes of one robot are what it takes for two Broadcasts to
  overtake each other (`hub_clients`); in `hub_live` the request, the `Trade`
  goroutine and the subscriber itself broadcast one version at the same time.
- `Service` multiplies the states of its parts, so each of its runs has what its
  question needs: the refinement of `Trading` needs no peer, because connections change
  nothing of it; what is shown and what hangs needs one.
  The theorems of `ServiceProofs` have any number of everything.
- `MaxRobots`, `MaxOps`, `MaxTime` (handlers): a parent and its copy, one trade of
  each; in `handlers_race` two trades of one robot, so that one write can fail and the
  next record both, and a clock before, inside and after the plan. `Bodies` has a plan, one that
  begins with `null` and one without an end.
- `MaxUsers`, `MaxTime` (accounts): two overlapping sign-ins, each of which takes
  the clock forward, and time for the first session to expire.

Symmetry is used for requests, users, connections, robots, emails, and only in runs
without liveness. `CHECK_DEADLOCK FALSE` stands in the two runs of the hub: it can
really stop (section 5), and connections that ended do not come back.

## 4. Fairness

`Trading!FairSpec`: goroutines that can run do run (the Go scheduler), the timer
fires, database calls and `Broadcast` return, a nil stream panics, and the trading
service keeps sending prices on an open stream. The code guarantees neither that nor
that `Broadcast` returns: `SilentSpec` drops both, and `StallsOnlyOnFeedOrBroadcast` is
checked under it. Nothing is assumed of failures, crashes, restarts, users or clocks.

`WSClients!FairSpec`: strong fairness for taking the mutex (a Go mutex hands itself
over to a waiter that starves), weak fairness for steps that never block, strong
fairness for a write (a peer that takes data again and again gets it). Nothing is
assumed of peers, of the arrival of connections or messages, or of panics.

`Service!FairSpec` is the two together, step by step, with nothing in the place of
`Cast`: a `Trade` goroutine comes back when the hub's steps bring it back.

`Startup!FairSpec`: `main` runs on, and each call to the database or the network returns,
with or without success. Nobody need start or repair anything, and the database need
never answer.

## 5. What the checks show

- Cycles of the trading process never overlap, whatever fails: two `Trade`
  goroutines never own one robot (`Pipeline`). So the position columns have one writer,
  and although writes fail or are uncertain the table moves only forward
  (`CopyExtendsRow`, `LedgerSpec`).
- Deleting or stopping a robot takes effect with the next cycle, not at once:
  `TradesOnlySelected` is as strong as the code allows.
- A cycle lasts until each of its streams brings one more price after the deadline, or
  ends; until then it takes at most one more price (`DeadlineBinds`). A trading service
  that falls silent on one ticker, or a `Broadcast` that does not return, stops trading of
  all tickers; inside the pipeline nothing does (`StallsOnlyOnFeedOrBroadcast`).
- The hub can jam for good in one way (`JamCause`): a number arrives on a connection
  that a `Broadcast` has removed, `setRobot` panics and the mutex stays locked.
  A client that takes no data has the same effect while it lasts. Nothing else can
  keep `Broadcast` from returning (`BroadcastReturns`). Two Broadcasts that remove the same
  connection make the second one panic, but leave mutex and map in order.
- A client that stays subscribed is shown the last state of its robot, however
  broadcasts, removals and subscriptions crossed each other (`AllInformed`); the
  exceptions are a hub that is jammed or blocked, and a change whose `FindByID` failed.
  Nothing is claimed about the order: `Broadcast` reads the row before it takes the mutex,
  so a newer version may be followed by an older one.
- One websocket client can stop all trading: `Trade` waits in `Broadcast`, the forwarder
  waits for `Trade`, `wg.Wait` for both. `HangsOnFeedOrHub` shows that a silent stream, a
  jammed hub and a client that takes no data are the only reasons for a cycle that
  never ends. Neither half deadlocks by itself, and the two do not together: a goroutine
  that has not ended can go on, or waits for one that can, or for one of these three
  (`NoHubDeadlock`, `NoDeadlock`).
- A `Trade` goroutine waits for `Broadcast`, so before its robot decides on the next price
  each working client that shows it was sent the last deal, or another subscription or
  change that is under way will send it (`ShownBeforeNext`). To the table the composition
  adds nothing: seen from there the process is `Trading` (`TradingSpec`).
- Overlapping requests lose no update, because every UPDATE names its columns and
  reads none, and the position that the trading process writes without looking at the row
  is never behind it, as nobody else writes one and a copy is taken only when the copies of
  the last cycle are gone (`TableSpec`). The checks of a handler may be outdated when it writes: a
  robot may be activated twice, or after it was deleted; neither does harm that the
  properties forbid. A robot with a NULL in its plan never trades (`PlannedOnly`), as
  plans never change; a plan whose start is given as `null` is no NULL, and such a robot
  trades from the moment it is created until its end.
- The copy of a robot starts from nothing, whatever its parent earned or became while
  the request was under way (`FreshRows`).
- A deleted robot neither answers nor shows up in any list of a request that begins
  later (`DeletedStaysGone`).
- A second process trades on the rows of the first from `go StartTrading` until its
  `ListenAndServe` finds the port taken, or beside a first one that has lost its port and
  has not yet ended (`OverlapOnlyAtStart`): within one process cycles never overlap, in
  these moments those of two may. `CheckConnection` sleeps at most 1, 2
  and 3 seconds, the last of them after the last attempt.
- Two overlapping sign-ins of one user may leave one client with a token that was
  never valid; otherwise the last sign-in wins (`SingleSession`), and an older session
  never comes back (`NoOldToken`).
- `handlers_lists` is a disagreement between comment and code:
  `internal/postgres/robot.go:162` says that `FindActivatedByUserID` finds active
  robots; the query finds all that are not deleted.

## 6. Proofs

`TradingProofs` proves, for any finite set of robots and any tickers and prices
(`TradingAssumption`):

- `TypeCorrect`: `Spec => []TypeOK`,
- `PipelineCorrect`: `Spec => []Pipeline`.

Their inductive invariant is `TypeOK /\ Pipeline`. The barrier alone
(`CycleBarrier`: before a new snapshot every goroutine has ended) is not inductive:
that `wg.Wait` returns says only that the `Trade` goroutines ended. `Draining` adds that
a forwarder ends after its reader and a `Trade` goroutine after its forwarder, so the
last ones to end are the robots; `Grouped` that each robot has exactly one forwarder;
`Assembling` that nothing runs before all streams are open; `Carrying` that what is
sent has a receiver. The proof has a lemma per kind of step (the main loop, a reader, a
forwarder, a robot, a crash) for each of the two halves.

`LedgerProofs` proves on top of it:

- `CopyCorrect`: `Spec => []CopyExtendsRow`,
- `ImplementsLedger`: `Spec => LedgerSpec`, the refinement of `RobotLedger`.

Its argument: only `Store` writes position columns; it writes a copy that extends the
row (`CopyExtendsRow`), has more operations and a yield within the limits; that is
`Advance` of the ledger; all other steps stutter. The floor on the yield is preserved by
`Buy` and `Sell` because their guards compare the price with the limit.

`CycleProofs` has the rest of the safety of `Trading`:

- `TradesOnlyForSelected`: `Spec => TradesOnlySelected`, from `Eligible`: a robot with a
  `Trade` goroutine was tradable when the cycle took its snapshot,
- `FanOutCorrect`: `Spec => []FanOut`, a count of prices per stream and robot that
  each handoff and delivery keeps,
- `DeadlineIsBinding`: `Spec => []DeadlineBinds`. `OvertimeInv` counts the price a reader
  holds after the deadline with those already taken: together they are one at most,
- `PipelineDeadlockFree`: `Spec => []NoStall`. While a `Trade` goroutine has not ended,
  a goroutine of its own ticker can go on, or one is in `Broadcast`, or the stream is
  silent. It follows from `Pipeline` alone, whose `Draining` says who is alive and
  `Carrying` whom each of them waits for,
- `LateCyclesWindDown`: once the deadline has passed, a step of a pipeline lowers
  `Ahead` of its ticker (what the reader and the forwarder still have to do) and
  touches no other ticker, a step of a `Trade` goroutine lowers its `Duty` and touches
  nothing else, and all other steps leave both alone. A delivery may raise the `Duty`
  of its robot, so tickers come first in the order, robots second.

With these two, `CycleEnds` lacks only fairness: as long as the cycle is not over some
step that lowers the measure is possible, unless a stream is silent or `Broadcast` has
not returned.

`LedgerProofs` also has what the ledger adds up to, `NeverALoss`: the yield of a row is at
least what its limits give for its deals (`WithinLimits`), so a robot that sells for no
less than it buys shows no loss while it holds nothing (`NoLoss`).

`HubProofs` proves for any connections, goroutines and robots (`WSClientsAssumption`)
`HubTypeCorrect`, `OneWriter` (`MutexOwner`), `JamsOnlyOnRemoved` (`JamCause`),
`ListedExactly` (`ListedUntilClosed`), `NoWorkingClientDropped` (`ClosesOnlyBroken`) and
`NothingMissed` (`NoMissedChange`). The mutex is what carries them: its owner is in
`write` or dead, so `todo` and `clients` change under one hand. `bad` names only
connections that failed; a removed connection stays closed. For `NothingMissed` a
Broadcast that still has to find the row offers every version, one that found it offers
that one, and a subscriber that was not in the map when `todo` was made has got the
row, or is on its own way to it.

`HubDeadlockFree` (`NoHubDeadlock`) adds the invariant `WritesToListed`: clients still to
be written to are in the map, hence accepted and not closed, so a write succeeds or
fails at once unless the peer takes no data. The owner of the mutex therefore can go on,
or is one of the two excuses, and everybody else waits for the owner only.
`BroadcastsGetShorter` says that each step of a Broadcast takes it nearer to its end and
that no step of anybody else makes it longer: clients that subscribe meanwhile are not
added to the list, because that was made under the lock.

`ServiceProofs` proves that the composition implements its parts, `ServiceTrades`
(`Spec => TradingSpec`) and `ServiceCasts` (`Spec => H!Spec`), one action at a time.
With them every safety theorem about the parts is one about the whole,
and the module takes that step: it instantiates `CycleProofs` and `HubProofs` for the two
halves (`CP`, `HP`; `ServiceAssumption` gives both their assumptions) and obtains
`ServiceTradesSafely`, `ServiceKeepsLedger`, `ServiceCastsSafely` and `ServiceWindsDown`.
`DeadlockFree` (`NoDeadlock`) needs both halves at once: where `NoStall` says that a `Trade`
goroutine is in `Broadcast`, the lemma `ServiceInStep` says that it is in the hub, and `NoHubDeadlock` that
it can go on there or waits for one that can. A chain of waits from `wg.Wait` through
forwarder, robot and mutex thus always ends at something that moves, at a peer, at a
silent stream or at the jam. `ShownFirst` (`ShownBeforeNext`) takes `NothingMissed` of the
hub and shows that the caller who still has to offer the version is not the `Trade`
goroutine of that robot: it broadcasts its own robot only (`OwnRobot`), and while it has
left `Broadcast` it has nothing to offer.

`HandlersProofs` proves, for any number of requests, users, bodies and bounds
(`RobotHandlersAssumption`):

- `HandlersTypeCorrect`, `OnlyPlannedTrade` (`PlannedOnly`), `CopiesHaveOrigin` (`Lineage`),
- `OnlyOwnersAct` (`OwnerActs`), `DeletedNeverComeBack` (`DeletedStaysGone`),
- `RowsComeFresh`: `Spec => FreshRows`,
- `HandlersKeepTable`: `Spec => TableSpec`, the refinement of `RobotTable`.

`Inv` is inductive: `HandlersInv` for the requests, and `CopiesOK`, that no copy of a `Trade`
goroutine is behind its row. `CopiesOK` is what the refinement needs at `Trade`, whose write
is absolute: it holds because requests write no position (`WriteKeepsDeals`), and because a
new cycle replaces all copies at once. `HandlersInv` says: the table is well formed (`TableOK`) and each request is
`Sound`, that is, what it concluded from the row it read holds of the row it will write.
Soundness survives the steps of everybody else because writes only let the table grow
(`Grows`): owner, plan and parent of a row never change, and deletion is for good. So
there is one lemma per action for the request that moves (it answers, goes on, inserts
or updates), and one lemma, `SoundKept`, for all the others.

`HandlersServeTrading` is the other half of an agreement. `Trading` lets users and clock
change a row by `SetActive`, `SoftDelete` and `PlanClock`; the theorem says that the
handlers, seen through the columns `Trading` keeps (`Seen`), do nothing else to any row,
that new rows are inactive, have no deals and are in nobody's copy, that a write which
records deals, one or several, changes nothing but the position, and that `FindToTrading` is the same query in both (`SeenTradable`). One
difference is left: a tick of the clock may move several rows at once, which `Trading`
does one after the other.

`StartupProofs` proves `StartTypeCorrect`, `AllReady` (`ReadyBeforeWork`) and `OverlapShort`
(`OverlapOnlyAtStart`) for any number of processes: a label of `main` fixes which
statements are ready, and only the holder of the port serves. `StartsAreShort` counts the
steps `main` may still take (`ToGo`, at most 27): each step of its own lowers the count,
and no outage and no other process raises it.

`AccountsProofs` proves, for any requests, emails, passwords, lifetimes and bounds
(`AccountsAssumption`):

- `AccountsTypeCorrect`: `Spec => []TypeOK`,
- `OwnRowOnly`: `Spec => OnlyOwnRow`,
- `NoOldTokenCorrect`: `Spec => NoOldToken`,
- `OneSession`: `Spec => []SingleSession`.

`Base` is inductive: the types, and what the locals of a request stand for at each of
its steps (`Sound`: a token beyond the middleware was answered to the user whose id is
in the URL; a sign-in beyond the password check has an existing user). `NoOldToken`
needs `Reached`, that the session accepted last is still in the table: as no step
deletes a session, the newest one is at least as new, even after the clock was set
back. `SingleSession` is not inductive: `Past` says that nothing carries a time the
clock has not reached, `Ahead` that a sign-in no other overlaps will get a time
greater than that of every session of its user, `Leading` that once it has written
its session nobody else signs in as that user. `Ahead` rests on the password hash: between two
sign-ins of a user, the clock has moved.

Only model-checked: liveness (`CycleEnds`, `StallsOnlyOnFeedOrBroadcast`, `BroadcastReturns`,
`AllInformed`, `HangsOnFeedOrHub`, `StartEnds`), which needs fairness and ENABLED. For the
cycle, the hub and the start the theorems give what these rest on, a measure that only
falls and the absence of deadlock; that a step which stays possible is taken in the end
is left to TLC. Every invariant and every action property of the passing runs is a
theorem.

## 7. What is not modelled

- Floating-point yields: integers stand for them; rounding is out of scope.
- Names, passwords as text, birthdays, JSON, HTML, logging, HTTP status texts.
- The birthday is the one field of a user that an update may leave out, and so the
  one an overlapping update can take back.
- Time stamps of a robot, among them `activated_at`, which a favourite takes over
  from its parent.
- Fractions of seconds in `Session.Equal`.
- Streams that no reader reads any more (never cancelled by the code).
- The text forms of times (`MarshalJSON`, `ViewHTML`), among them local times
  labelled `Z`: no handler reads one back.
- The in-memory storages: only the unit tests build them.
- The pool of ten connections: no handler asks for a second connection while it holds
  one, so the pool delays requests and changes no outcome.
- `Close` of storages and database: reached by deferred calls only, and every way out of
  `main` is `Fatalf`.
- What two processes write while they overlap: `Startup` bounds when that can be,
  `Trading` is one process.
- Templates, logging and the generated gRPC code.

## 8. What could follow

Every component that keeps state and is part of the running program is modelled. What
is left is finer detail: the fractions of a second in `Session.Equal` (a token whose time
the database rounds up to the next second never works), the in-memory storages against
the tables, and two trading processes on one table.
