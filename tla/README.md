# A TLA+ model of the stock-market simulation

The repository simulates an exchange: matcher processes keep one in-memory
limit order book per symbol and serve them over HTTP, a gateway routes requests
to the matcher shard that owns a symbol, and participant runners send orders,
cancel them when they get old and react to news events.  This directory holds
TLA+ modules of its core logic, TLC configurations that check them on small
instances, and TLAPS proofs.

    tlc -workers 2 -config OrderBook.cfg OrderBook
    tlapm PriceTimeBookProofs.tla

and the same for the other runs of section 3 and the other `*Proofs` modules.
`PROJECT.json` lists the runs, the lines each definition models, the hazards
the properties are aimed at, and for each property a mutated definition under
which it fails.

## 1. Inventory

| component | state | operations | hard behaviour |
|---|---|---|---|
| Order book, `backend/exchange/orderbook/book.py` | two sides (sorted price keys, a FIFO queue per price, running totals), order-id index, arrivals deque, trade tape, sequence counter | `submit`, `cancel`, `best_price`, `open_orders`, `snapshot`, `total_quantity`, `get_open_order` | lazy deletion and compaction; lazy expiry at the start of every call; loops under the lock |
| Reference book, `orderbook/reference_book.py` | two sorted lists, tape, counter | the same without expiry | the oracle of the differential tests |
| Registry, `orderbook/registry.py` | `_books`, `_order_symbols`, `_active_session_date` | `rollover`, `get`, `submit`, `cancel`, callbacks of the books | two lock levels; references to dropped books; check-then-act in `cancel` and `submit` |
| HTTP views, `backend/exchange/views.py` | gauges | `create_order`, `cancel_order`, `book_detail`, `recent_trade_list`; event inbox; trader profiles | one gunicorn worker with four threads |
| Market session, `market_session.py` | none | `is_open`, `session_date`, `next_open` | weekends, boundaries |
| Universe and sharding, `simulation.py`, `sharding.py` | tickers cached per process | `simulated_tickers`, `owned_tickers`, `shard_for_ticker` | caches filled at different times |
| Gateway, `gateway/gateway/` | tickers loaded at start; in-flight and accepted requests, counters | accept a connection, route, round trip to a matcher, answer | a thread per connection; failing matchers, vanishing clients, no thread to be had |
| Participant runner, `participant-runner/participant_runner/runner.py` | pending requests, slots, cursor, tracked orders | `tick_once`, `cancel_all_open_orders`, `run_until_stopped` | a pool of HTTP threads; lost responses; timeouts; close and stop |
| Event coordinator, `coordinator.py` | event runs, trader-to-event map, counters | `apply_market_event`, `before_tick`, `after_submit` | reports out of order, ids of two sources, late ticks |
| Participants and planner, `backend/exchange/participants/` | traders' plans, the last midpoint, events planned | `next_intents`, `plan_once`, `drop_late_orders` | rounding of times and shares; empty and one-sided books |
| Event inbox, `views.py` and `models.py` | rows pending, dispatched or stale | ingest, pending, acknowledge | read-decide-save without a lock; at-least-once delivery; crashes of runners |
| Reference import, `reference_data/` | `MarketDaily`, `ReferenceImportRun` | `import_latest_kospi_top100` | retries, overlapping transactions, crash between steps |
| Runner configuration, metrics, frontend, infrastructure | none that the core reads | | see section 6 |

How they interact: a runner's HTTP request passes the gateway to the shard that
owns the symbol; the view looks for a new session (`rollover`), asks the
registry for the book and calls it; the book calls the registry back, with its
own lock held, when an order starts or stops resting; the view then publishes
the depth gauges.  News events are stored by shard 0, polled by runners, applied
by the coordinator, which hands plans to traders, and acknowledged.  An import
replaces the reference data that matchers, gateway and runners have loaded.

What makes each part correct:

* order book: price-time priority at the maker's price, never crossed, every
  order's quantity conserved, index, counters and totals exact, no match with
  an expired order, every call returns;
* registry and views: no circle of lock waits, a cancel finds what rests, its
  answer is final, sessions do not mix;
* runner: slots and pending requests agree, a close or stop cancels every
  order that is tracked or finds it closed, nothing is sent after the close;
* coordinator: every planned order is sent at most once and accounted for, an
  event that planned something completes and then sends nothing;
* inbox: dispatched means planned, an acknowledgement lasts, every event is
  dispatched or goes stale;
* sharding and gateway: every symbol has one owner, requests reach it, gauges
  agree with what is being handled;
* traders and planner: due at the right ticks, plans that are accepted, quotes
  that do not trade with each other, takers that take;
* import: whole ranked dates, nothing written but by a run that succeeds.

## 2. Modules

| module | models | uses |
|---|---|---|
| `OrderTypes` | orders, sides, trades; constants and their assumptions | |
| `PriceTimeBook` | the promise of one book: `reference_book.py` with the expiry contract | `OrderTypes` |
| `OrderBook` | `book.py` in detail, and its refinement of `PriceTimeBook` | `OrderTypes`, `PriceTimeBook` |
| `MatcherService` | registry, views, sessions and gauges with interleaved threads | |
| `Runner` | the participant runner: tick loop, HTTP jobs, tracked orders, close and stop | |
| `EventCoordinator` | `coordinator.py` with the event-reactive traders and the jobs that report back | |
| `EventInbox` | the event views as separate reads and saves, the runners that poll and acknowledge | |
| `Sharding` | `sharding.py`: the owner of a ticker, as pure operators; tickers and number of shards | |
| `ShardRouting` | matchers, gateway and runners with copies of the universe of different age | `Sharding` |
| `Gateway` | `proxy.py`, `routing.py` and the gauges and counters of `metrics.py` | `Sharding` |
| `ReactionPlanner` | `ReactionPlanner._resolve`: from an event to the timetable of each trader | |
| `Traders` | the five strategies of `traders.py` | |
| `MarketSession` | `market_session.py` on a clock of minutes, and the loop that follows it | |
| `ReferenceImport` | `service.py`, `krx.py` and the transactions they run in | |
| `MCRunner`, `MCGateway`, `MCReactionPlanner`, `MCTraders`, `MCMarketSession` | symmetry and sets of inputs for TLC | the module of the name |
| `PriceTimeBookProofs`, `MatcherServiceProofs`, `EventCoordinatorProofs` | the proofs | the module of the name |
| `RunnerProofs` | the proofs about the runner, and about the hours it keeps | `Runner`, `MarketSession` |
| `EventInboxProofs` | the proofs about the two kinds of transactions of the database | `EventInbox`, `ReferenceImport` |
| `GatewayProofs` | the proofs about the sharding rule, the gateway and the processes that share a universe | `Gateway`, `ShardRouting` |
| `ReactionPlannerProofs` | the proofs about the participants: plans, and the orders of the other strategies | `ReactionPlanner`, `Traders` |
| `OrderBookProofs` | the proofs about `OrderBook`, its refinement included | `OrderBook`, `PriceTimeBookProofs` |

### PriceTimeBook

The two sorted lists of the oracle are one set `resting` under the relation
`Before` (price, then sequence).  A call is a first step that takes the lock and
fixes the expiry deadline, then `Expire` steps, then one `Match` step per
iteration of `submit`'s loop, then a last step that returns.  Only the clock
moves between them, since the lock is held.  `Match` takes the order nothing
comes `Before`.  `filled` and `withdrawn` are history variables that record
where each order's quantity went.

### OrderBook

`sides[sd]` is a `_Side`: `keys`, `levels` (price to `_Level`) and `total`.
`entry` is the set of `_Entry` objects, named by order id because an id rests at
most once; `index` is the domain of `_index`.  Each method of `_Side` is an
operator on the side's record: `Add`, `DropDeadFront` (with `PopDead` for the
queue it stops at) followed by `Best` for `best()`, `FillBest`, `RemoveEntry`
(with `Compact`, which keeps the `LiveOnly` entries), `DropLevel`.  `ExpireStep` is one iteration
of `_expire`, `Match` one of `submit`.  `insort` and `bisect_left` are modelled
by the position they compute, so keys that are out of order or missing have the
consequences they would have in the code.

The refinement mapping reads `resting` off the queues (the live entries in
them, `RestingSeen`), not off the index, so an entry lost from a queue breaks it.
`RemSeen`, `SeqSeen`, `RestedAtSeen` and `CallSeen` are the rest of it.
`AnswersLikeReference` compares what the read methods answer with the reference
book's state: `InPriority` says that a sequence is the oracle's sorted list.

### MatcherService

A thread's `pc` names the next place it takes a lock or touches shared state.
A book is only the set of its resting orders here: which of them a submit fills
is `OrderBook`'s business, and `FillOrder` takes any of them.  Books are numbered
objects, because a thread may still hold one that a rollover dropped.  A lock is
taken by a step of its own wherever another thread may come in between, and the
body of a critical section that calls nothing else is one step.  The gauges of a
symbol (two quantities and a count) are one number, read and written in two
steps, which is the finest interleaving the code has for each of them.

`PassMidnight` carries the one assumption on the environment: in a scheduled
market an order request that was accepted before 15:30 is answered before
midnight.  Without it `create_order` could check the session, sleep past
midnight and submit into a book that a rollover has just dropped.

### Runner

`main` names what the main thread does next: `loop` is the head of
`run_until_stopped`; `poll`, `expire`, `fetch` and `enqueue` are the stages of
`tick_once`; `idle1`, `cancel` and `idle2` those of `cancel_all_open_orders`,
with `then` for what follows it; `shutdown` is the pool's.  A job goes through
`start`, `sent`, `answered`, `finish` (the `finally` clause before `_pending` is
lowered) and `release` (before the slot is given back).  There are more names
for jobs than slots, so that a job too many would show.

Only the main thread takes slots, and jobs only give them back.  So the test of
`_has_free_slot` and the `acquire` after it are one step: every outcome of the
two is an outcome of both at the time of the second.

The matcher is a set of orders with a status; `Fill` closes a resting one at any
moment (a match, the matcher's expiry, a rollover).  A request that raises in
the client may arrive later (`late`), arrive and have its answer lost, or never
arrive.  `Raise` stands for `BackendApiError` and for exceptions `_request` does
not convert: in a job both end in the same state, since of the counters only
`_orders_already_closed` is kept.  In the main thread they differ:
`FetchSnapshots` goes on without the book, `MainBreaks` ends the runner.

Which tracked orders are past their TTL is chosen when they are listed; an order
once due stays due.  The loop of `_expire_orders` takes them in any order, where
the code takes the order in which they were tracked.  `--once` is one tick and a
drain, which is a behaviour of the loop too.

### EventCoordinator

The main thread's `main` goes through `wait` (between ticks), `poll` (live events
are applied without the runner's lock), `before` (`before_tick`, which holds it)
and `enqueue` (`_enqueue_due_intents`).  `_assign_plans` is one step per trader,
since jobs may report in between while a live event is applied; the steps of
`AfterSubmit` wait for the lock in `before`.  A trader's plan is its offsets and
the indexes it consumed; which traders wake, and with which delay, count and gap,
is any choice within the constants (`ReactionPlanner` computes the ranges).

Two clocks decide lateness: the tick for live events, `elapsed_ms` for those of
the scenario.  `elapsed` never falls behind the ticks, because the loop waits a
whole interval between two ticks, and runs ahead of them while the market is
closed.  `SubmitRaises` is a submit that fails with something other than
`BackendApiError`, which skips the report.  The reports that the code cannot
attribute any more, and the intents that `runner.py:252` drops, are collected in
the history variable `lost`.

### EventInbox

A request thread's `op` is the place between two statements of the ORM: a poll
reads what is stale, saves those rows one by one, lists what is pending; an
acknowledgement reads the row and saves it.  `GiveUp` is the timeout of the
client, after which the matcher serves on for nobody; `Crash` empties a runner's
memory.  `Clashing` are live events with the id of a scenario event, which
raise whenever they are applied (`ApplyFixture` of `EventCoordinator` is the
other side of that clash).  Which runners want which events is chosen in `Init`.

### Sharding, ShardRouting and Gateway

`ShardRouting` has one copy of the universe per process with the number of the
import it came from.  A matcher loads it when it starts, or at its first request
if the tables were missing; the gateway and the runners read the API of shard 0,
which filters the rows of the newest date by its own copy.  `books` are the symbols
with a book in each matcher's memory.

`Gateway` follows one connection from `process_request` (the time noted before
the thread is started) through the handler: `request_started`, the round trip
with its failures, the write to the client, the `finally` clause.  The request
kinds are the cases of `route_request`.  The client may be gone at each write.

### ReactionPlanner and Traders

Both are mostly pure functions behind a small state machine that enumerates
their inputs.  A draw is any value of its range among `Samples`; seeds are hashes
and are any value.  In `Traders` the book of each tick is any uncrossed pair of
best prices, since others trade in between; prices, steps and the reference are
small numbers at which bands, steps and the smallest price meet.

### MarketSession

An instant is a minute; `Localize` and `InstantOf` convert between UTC and Seoul.  The
loop is `run_until_stopped` without its ticks, which `Runner` has; there the
session is a switch that turns at any moment, so the two modules split one loop.

### ReferenceImport

An importer goes through `fetch` (attempts, and days while it searches), `select`, and a
transaction: the DELETE, `update_or_create` row by row, and the commit that publishes
them.  When a run is over its importer may begin another.  A row that another open
transaction has written cannot be written before that one ends, as in PostgreSQL.
`Dies` ends the process at any step and the database rolls back.

The DELETE is one statement at READ COMMITTED, in several steps.  `BeginDelete` takes
its snapshot: `doomed` are the committed rows it has found.  `DeleteRow` deletes one of
them, when no other transaction holds it.  If the holder commits, the DELETE goes on
with its old snapshot: a row the holder deleted is no longer `doomed`, one it updated is
deleted, and one it inserted is not seen.  So with {1, 2} committed, and q selecting
{2, 3} and p {2, 4}, p's DELETE may wait for row 1 and leave row 3.  `missed` holds the
importers whose DELETE began before another import committed a new row they do not
select, and `mixed` the dates whose last commit was of one of them; both are history
variables, which no guard reads.

## 3. Runs

| run | bounds | shows |
|---|---|---|
| `order_book` | 3 orders, 2 prices, 2 quantities, age 1, clock 0..2, tape of 1, compaction at every dead entry | `LazyDeletionExact`, `AnswersLikeReference`, `ImplementsReference`, `CallReturns` |
| `matcher_service` | 2 threads, 1 symbol, 2 orders, 3 books, days 1..3 with a closed day 2 | `SomeoneRuns`, `MapExact`, `GoneStaysGone`, `SessionsApart` |
| `runner` | 2 slots, 2 participants with up to 2 intents, 2 orders, 1 fault, 2 session changes | `SlotAccounting`, `NothingForgotten`, `DrainLeavesNothing`, `BlankCancelHarmless`, `RoundRobin` |
| `runner_ends` | 1 slot, 1 participant, 2 orders, 1 fault, 1 session change | `StopEnds`, `ListedGoes` |
| `event_coordinator` | 2 traders, 2 live ids of which the scenario uses one, 2 orders per reaction, 4 ticks, lag 0 | `EveryOrderAccounted`, `CompletedSendsNothing`, `SentOnce`, `EventCompletes` |
| `event_inbox` | 2 threads, 1 runner, 2 events of which one cannot be applied, polls of 1, 1 request given up, 1 crash | `DispatchedWasPlanned`, `AckLastsUntilOld`, `AckedNotPlannedAgain`, `PendingEnds` |
| `shard_routing` | 4 tickers of which 3 are simulated, 2 shards, 2 imports, any restarts | `ServedAfterRestart`, `OneBookWhileAgreed` |
| `gateway` | 3 connections, 3 tickers (one with a letter) and an unknown one, 2 shards | `InFlightExact`, `AcceptedUntilServed`, `ForwardedToOwner` |
| `reaction_planner` | 3 candidates of 3 kinds, 5 presets, 4 hints, draws at the ends of their ranges and next to them | `ShareActivated`, `NeverEarly`, `Spaced` |
| `traders` | 5 strategies, 3 steps, 3 reaches, intervals 1..3, seeds -1..2, 6 prices, 6 ticks | `DueEachInterval`, `QuotesSound`, `RolesKept` |
| `market_session` | two weeks; a start in every half hour of the first and next to the boundaries; waits that end 0, 1 or 100 minutes late | `SleepsToOpening`, `EachDayOnce` |
| `reference_import` | 2 importers, 3 tickers of which 1 is selected, 2 values, 2 dates of which 1 is asked for or none, search of 2 days, 2 attempts | `WholeDates`, `NewestDay`, `OnlySuccessWrites`, `RunEnds` |

Why the bounds are enough.

* Order book: three orders make a taker that walks over two makers at two
  prices, and a level with a dead entry beside a live one.  `_COMPACT_MIN_DEAD` is
  64 in the code and 0 here, so that queues are rebuilt.  A clock of 0..2 with an
  age of 1 has orders younger than, exactly at and beyond the maximum age, and
  lets the clock move inside a call.
* Matcher: two threads are enough for every race between two requests and for a
  circle of two locks; with three books a rollover happens while a thread holds
  the old one and a third book is created after it.  The closed day makes
  `session_date` None between the two sessions.
* Runner: two slots and two orders give two cancels of one order, a submit and a
  cancel at a time, and a round cut short after one participant; two session
  changes let an order that a failed drain left behind be met again after the
  next opening.
* Coordinator: with two orders per reaction a trader is between its orders when
  the second event comes; four ticks see both due, late, and reported after the
  next event; the shared id is met in both orders.
* Inbox: one poll overlaps an acknowledgement, or an acknowledgement given up
  and still served; polls of one event let the second wait behind the first.
* Sharding: two imports give processes of three ages; three of four tickers and
  two shards make shards of unequal size and a symbol that changes owner.
* Gateway: three connections hold two requests of every kind together with one
  that got no thread; a shard number may be one too large.
* Planner and traders: the values lie at both sides of every comparison and
  rounding of the code, the smallest price included.
* Session: every half hour against a clock of minutes, nights, weekends and both
  modes.  Waits are late by less than a session, which `EachDayOnce` needs, and never early:
  `Event.wait` measures with a monotonic clock, and steps of the wall clock are not modelled.
* Import: a search that ends in a holiday, a success or at its limit, and a date that is
  asked for as well.  With one of three tickers selected, importers run again on the rows
  that were left, so that a DELETE waits for a row the other import deletes while that one
  inserts one, a date becomes mixed, and a later import repairs it.
  Transactions that write several rows are only in the theorems.

No run repeats a type invariant or another property that is proved and too simple
to need an instance.  The other modules have their `TypeOK` (`RoutingTypeOK`, ...) as a conjunct
of one of the run's invariants (`LazyDeletionExact`, `EveryOrderAccounted`,
`OneBookWhileAgreed`, `QuotesSound`, `EachDayOnce`, `WholeDates`).

Deadlock is checked in `order_book`, `matcher_service` and `shard_routing`; the other
systems may end (the runner stops, a planner call or an import is over, events and
ticks are bounded).  `MatcherService` never runs out of steps because reads are
always possible, so `SomeoneRuns` states the absence of a lock circle directly.

### Where the properties stop

Some properties hold with an exception that the code has.  Each is part of the
statement of the property, not of the model:

* `AckLastsUntilOld`: `_mark_stale_market_events` saves stale into every row it
  selected as pending without looking at it again (`views.py:437`).  An
  acknowledgement saved in between is overwritten, if the event had become too old
  by then.  `src/backend/README.md:68` calls an acknowledged event dispatched
  without that case.
* `WholeDates`: the DELETE of an import sees the rows committed when it began
  (`service.py:76`), also if it then waits.  With different answers of KRX, an import may so leave
  rows of another one that committed meanwhile, and ranks occur twice.  The property
  excludes a date only while its last import is such a one (`mixed`).  Imports with the
  same selection never leave such rows, however they overlap, and the next import that
  misses no row removes them.  `src/docs/PROJECT_OVERVIEW.md:87` promises exactly 100 rows
  after every repetition, without that case.
* `ListedGoes` speaks of the orders listed at a close or a stop, not of every order past its
  TTL.  `_expire_orders` takes slots without waiting and breaks off at the first that is
  missing (`runner.py:378-383`), and a slot that becomes free later in the tick goes to a
  new submit.  While the slots stay used up, an expired order's cancel may be passed over in every
  tick, until the session closes; line 17 of the runner's README applies the TTL to
  every open order.
* `ServedAfterRestart` and `OneBookWhileAgreed` speak of processes that loaded the
  universe of one import.  After an import, matchers restarted at different times
  may both own a symbol, and a gateway started then computes positions in another
  list than the matchers hold.
* `EveryOrderAccounted` counts the orders no total hears of (`lost`): intents that
  were dropped because no slot was free (`runner.py:252`), submits that report after
  their trader got another event (`coordinator.py:189`) and submits that raise
  something else than `BackendApiError`.
* `Passive`, a part of `RolesKept`: the center of the quotes is clamped to a band around the reference
  price (`traders.py:240`).  When the market left the band, a quote goes through
  the book and takes liquidity.

Disagreements between code and documents for which no property is stated:

* the depth gauges are read under the book lock and set outside it
  (`views.py:77`), so the older of two readings may be published last, and a read
  that expires orders publishes nothing;
* `wait_for_idle` gives up after five seconds, the default timeout of one request,
  and its `TimeoutError` ends the runner at the close with its orders resting
  (`IdleTimesOut` of `Runner`); the runner's README says that it waits;
* an order whose TTL cancel is in flight at the next tick is canceled again, and
  the second answer counts it as already closed although nobody else closed it;
* KRX short codes may hold letters, and `BOOK_PATH` takes six digits: the gateway
  answers 404 for the book of such a ticker;
* a client that is gone when the gateway writes the answer of a matcher is
  counted with status 502, although the round trip did not fail.

### Fairness

* `OrderBook`, `CallReturns`: `WF_vars(CallStep)`.  The thread inside a book call
  holds the lock and waits for nobody, so it is scheduled again; nothing is
  assumed of callers or of the clock.
* `Runner`, `StopEnds` and `ListedGoes`: the main thread and each job run (threads of one
  process) and a request that was sent is answered or raises, which the client's
  socket timeout provides.  Nothing is assumed of fills, of late requests, of
  the session or of the signal.  `MaxOrders` and `MaxFaults` bound the run and carry
  nothing: no order is submitted after the listing or after the last tick, and a
  request that raises gives its slot back like any other.
* `EventCoordinator`, `EventCompletes`: the main thread goes on.  Jobs may never
  report.
* `EventInbox`, `PendingEnds`: each request thread serves, each runner ticks while the
  market is open, and events grow old.  Nothing is assumed of requests given up
  or of crashes, which are bounded.
* `ReferenceImport`, `RunEnds`: each process takes its steps; a request to KRX
  ends because it has a timeout, and waiting for a row lock ends with the other
  transaction.

## 4. Proofs

Every safety property of the runs is proved, for every value of the constants: the
invariants, the action properties and the refinement. Each proof module extends the
module it is about, four of the eight a second one as well, which has its own names for
the parts of its specification (`RoutingSpec`, `SessionSpec`, `TraderSpec`,
`ImportSpec`). The inductive invariants were checked by TLC on the instances of the runs
before they were proved.

`PriceTimeBookProofs` proves, for every set of prices and quantities, every
number of orders, any maximum age and tape length (assumptions
`PriceAssumption`, `QuantityAssumption`, `BoundAssumption` of `OrderTypes`, which
say what the constructors of `Order` and `OrderBook` check):

* `TypeCorrect`: `Spec => []TypeOK`;
* `Conserved`: `Spec => []Conservation`.  It is not inductive: `Match` needs that
  a maker has something left (`RestingHasQuantity`), `SubmitBegin` that an id not
  yet issued has nothing (`UnissuedIsEmpty`), and `SubmitRest` that the submitted
  order is not in the book already (`SubmitterIsOut`).  `Accounts` is their
  conjunction;
* `PriorityIsTotal`: `Spec => []PriorityTotal`, from `SequenceDistinct`: no two
  resting orders share a sequence number, all at most the counter;
* `NeverCrossed`: `Spec => []Uncrossed`.  Only `SubmitRest` adds an order, and it
  does so when nothing on the other side is matchable;
* `TradesHonourLimits`: `Spec => []TradesWithinLimits`, from `TapesGood`, which
  also says that the orders named by a trade were issued (an order is immutable
  once issued, so old trades stay good).

`OrderBookProofs` proves, under the same assumptions and for any compaction threshold,
what the run `order_book` checks except `CallReturns`:

* `Inv` is the inductive invariant.  Its core is `SidesInv`: each side is a `GoodSide` of
  the entries that are alive.  `GoodSide` and `GoodLevel` are stated over values (who rests,
  what each has left, in which sequence), not over the variables, so that one lemma per
  method of `_Side` covers all its callers and both states of a step: `GoodAdd`,
  `GoodRemove`, `GoodFill`, `GoodFront`, `LevelCompacts`.  A `GoodLevel` holds every resting
  order of its price in order of arrival among dead ones, counts the dead, and has
  the sum of what the others have left.  Sums are running sums (`Adds`, `AddsPut`), and
  loops and recursive functions of the data (`LiveOnly`, the flattened list, the sum of a
  set) are reasoned about through their smallest counterexample (`LeastNat`,
  `SmallestMember`).  `EntryInv` says what an entry can be, `ArrivalInv` that the deque of
  arrivals holds every resting order, oldest first, and `CallInv` that after the
  expiry loop nothing too old rests, which is what `Expire` of the reference book
  ends with;
* `LazyDeletion`: `Spec => []LazyDeletionExact`;
* `BookImplementsReference`: `Spec => ImplementsReference`, step by step (`RefMatch`,
  `RefExpireStep`, ... and `RefNext`); dropping dead entries, compaction and `best_price`
  are stutters.  `RestingSeen` is the set of live entries by `LazyDeletion`, so that each
  step is compared through `entry` and `call`;
* `BookKeepsPromises`: with the theorems of `PriceTimeBookProofs` for the same mapping,
  `Conservation`, `Uncrossed`, `TradesWithinLimits` and `PriorityTotal` hold of the
  production book;
* `AnswersMatch`: `Spec => []AnswersLikeReference`.  It needs one thing more than `Inv`,
  `LevelsFull`: no level is left without quantity, since then the depth would show a
  price at which nothing rests.

`MatcherServiceProofs` proves, for any sets of threads and symbols and any bounds
(assumption `ServiceAssumption`), the invariants and action properties of the run
`matcher_service` and the types:

* `TypeCorrect`: `Spec => []TypeOK`.  `LocalOK` strengthens it: which of a
  thread's locals are set at which position, so that for example the gauge step
  knows that the request had an order;
* `NoLockCircle`: `Spec => []SomeoneRuns`.  `LockInv` is the lock order: the owner
  of a book's lock is inside that book (so it waits for the registry at most),
  and the owner of the registry's lock waits for nothing;
* `MapIsExact`, `GoneForGood` and `SessionsNeverMix`: `Spec => []MapExact`,
  `[]GoneStaysGone`, `[]SessionsApart`.  They are parts of one inductive invariant,
  `DataInv`, since each fails to be inductive for lack of another.  `MapInv` says of an order that
  rests without being in the map that some thread is just about to enter it, and of
  one in the map that does not rest that some thread is just about to take it out.
  `PlacesInv` says that a cancel which found no open order cannot see it come
  back, and which book a cancel holds; that needs `IdsInv` (a submit's id is known to nobody
  before it was answered) and `BooksInv` (a submit still holds the current book).  The
  last is where midnight matters: `DatesInv` carries the assumption of `PassMidnight`.  `HoldsLock`
  says which thread may change a book.

`RunnerProofs` proves, for any number of slots, job names, participants, orders,
session changes and failing requests, with or without idle timeouts (assumption
`RunnerAssumption`), every invariant of the run `runner`:
`TypeCorrect` (`TypeOK`), `SlotsAgree` (`SlotAccounting`), `NoOrderForgotten`
(`NothingForgotten`), `BlankCancelsHarmless` (`BlankCancelHarmless`),
`QuietAtRest` (`QuietOutsideHours`), `DrainComplete` (`DrainLeavesNothing`) and
`TurnsRoundRobin` (`RoundRobin`).
All but the last follow from one inductive invariant, `Inv`:

* `SlotAccounting` is inductive given the types: starting a job adds it to both
  `Busy` and `Unfinished`, `Finish` takes it out of one and `Release` out of the other.
  It turns the test `_pending == 0` of `wait_for_idle` into "no job has anything
  left to record" (`IdleMeansQuiet`), which the rest builds on;
* `OrderInv` follows an order through its life.  `NothingForgotten` alone is not
  inductive: a cancel's answer removes an order from the tracked ones, which is
  harmless only because the answer is still true when it is recorded (`AnswerInv`),
  and that needs that a canceled order is never put back to rest, so that it has no
  submit on its way: each order has one submit (`UniqueInv`), served at most
  once (`UnservedInv`), and whatever is tracked, listed or being canceled has been
  served already (`HandledInv`);
* `LoopInv` says that `was_open` is set during a tick and cleared when the market is
  closed, that a loop that is over has nothing left to do, and that the quiet
  places are reached only through a wait for the jobs;
* `DrainInv` carries `DrainLeavesNothing` backwards to the listing: from there on
  every resting order is listed, being canceled, or its submit or cancel raised;
* `RoundInv`, for `TurnsRoundRobin`, counts the participants from the cursor on: those
  that had one turn more are exactly the ones just behind it, modulo their number
  (`NextPlace`).

It also proves the invariants of the run `market_session`, for any start and end in minutes, tick
length and lateness of waits (`SessionAssumption`):

* `SleepsUntilOpening`: `SessionSpec => []SleepsToOpening`.  `NextOpenFirst` says that
  `next_open` is the first instant at which the market is open, over nights and weekends
  (`NextTrading`, `OpenHours`);
* `EveryDayOpenedOnce`: `SessionSpec => []EachDayOnce`, under one more hypothesis,
  `PromptWaits`: a wait is late by less than a session, and a tick and its lateness are shorter
  than a night.  The code does not ensure it (a process may be suspended for a day, and
  then a day is not opened), so it is a hypothesis, not a part of the model; the values of the
  run satisfy it.  `Pace` is the invariant: until when the clock may have gone in
  each phase of the loop.

`EventCoordinatorProofs` proves, for any traders, events, ranges of plans and clock
bounds (assumption `CoordinatorAssumption`, which says among other things that the order
counts of a plan have a maximum):

* `OrdersAccounted`: `Spec => []EveryOrderAccounted`, the conservation law: what was planned is
  what was submitted, dropped, still to come, in flight or `lost`.  Its terms are sums
  over events and traders, so the module first proves how the library's sum of a
  function changes with one summand (`SumTakeOut`, `SumChanges`, `SumByKey`), from its
  definition and by smallest counterexample;
* `CompletionIsFinal`: `Spec => []CompletedSendsNothing`, from `DoneInv`: a completed event has
  no trader with an open order, which `AssignInv` guards while the plans of a live event are
  still being handed out and jobs report in between;
* `OrdersSentOnce`: `Spec => SentOnce`, from `SentInv`: an order that a trader has still open
  is neither sent nor lost.

`GatewayProofs` proves, for any tickers, connections and number of shards
(assumption `GatewayAssumption`):

* `ShardOwnsTicker`: for every sequence of tickers without repetition, the shard that
  `ShardForTicker` computes is the one whose `OwnedTickers` hold the ticker.
  `UnknownOwnedByNobody` is its complement.  Both rest on `PositionFound`, that the first
  position of a ticker is its only one;
* `TypeCorrect`, `AlwaysForwardedToOwner`, `AcceptedExact` and `GaugeInFlightExact` from `Inv`, the
  conjunction of the four invariants.  It is inductive as it stands, because
  `InFlightExact` counts the places of a handler and every action moves one connection:
  `OneConnection` and `HandledCount` say what such a move does to the sets and their
  cardinalities, and `MoveKeepsInv` combines them for every action.

It also proves the invariants of the run `shard_routing`, for any tickers, number of shards,
rows and imports and any limit (`ShardRoutingAssumption`):

* `ServedAfterRestarts` and `OneBookEach`: `RoutingSpec => []ServedAfterRestart` and
  `[]OneBookWhileAgreed`, from `RoutingInv`.  Neither is inductive: they speak of
  processes that agree, and the steps are those of processes that do not.  `OneUniverse` says that
  a version names one universe, in every matcher and in the database when it is the newest;
  `BooksOwned` that a matcher has books only of symbols it owns in the universe it holds,
  whatever the gateway that routed them knew; `ReadersTold` what a gateway or runner with the
  newest version was told.  `ShardOwnsTicker` turns these into one owner;
* `AnnouncedRows`: a matcher that holds the newest universe announces exactly that universe, in
  its order, so the positions that gateway and runners compute are those of the
  matchers.  `EnabledRows` filters by a recursive function, of which `FilterExists`
  and `FilterKeeps` say what it computes, by smallest counterexample.

`EventInboxProofs` proves, for any number of events, runners, threads, faults and
crashes (assumption `InboxAssumption`):

* `TypeCorrect`, `DispatchedIsPlanned` and `AckedStaysDone` from `Inv`.  A row becomes
  dispatched by the save of an acknowledgement, possibly of a client that has
  given up, so `AckSound` says that every acknowledgement under way is of an event
  some runner planned.  `Own` and `OneRequest` say that a runner waits for at most one
  request and that its request is the one its position says; `AckedDone` that an
  event whose acknowledgement was answered is in no answer and no list a runner
  still handles, although its memory may be empty;
* `AckedStaysDispatched` from `Inv` and `AgeInv`: whatever a poll is about to mark stale is
  old, old events stay old, and no answered acknowledgement leaves a row absent or
  pending.

`EventInboxProofs` also proves what the run `reference_import` checks except `RunEnds`, for any
tickers, values, dates, numbers of importers, rows and attempts (`ImportAssumption`):

* `SelectionIsTop`: sorting by value and ticker leaves no tie, so the list of an import is
  in order, without repetition, and nothing outside it comes before anything in it;
* `ImportsAreWhole` and `ImportsNewestDay`: `ImportSpec => []WholeDates` and
  `[]NewestDay`, from `ImportInv`.  `WholeDates` is not inductive: what a commit leaves
  depends on the rows that were there.  `Swept` says that a transaction that writes and is
  not in `missed` selects, has deleted or has found every committed row of its date; it is
  kept by another import's commit, because rows that one adds are selected or put the
  importer into `missed`.  `AtWork` says that an importer has selected before it writes, and
  has finished its DELETE before its first row; `Searched` that every day after the one
  asked for had no rows;
* `FailureWritesNothing`: `ImportSpec => OnlySuccessWrites`.

`ReactionPlannerProofs` proves the invariants of the run `reaction_planner`, and
`TypeOK`, `PlanAccepted` and `FollowsHint`, for any users, intervals, starts and draws (assumption `PlannerAssumption`):

* `CeilDivExact`, `TicksCover` and `ShareRounded` are the arithmetic: division rounded up
  comes less than one divisor late, and the share is within half a trader;
* `Inv` says that a plan is that of a dormant trader or `ReactionOf` of draws within
  the ranges of the preset; `OrdersNeverEarly`, `OrdersSpaced`, `EveryPlanAccepted`,
  `SharesActivated`, `HintFollowed` and `TypeCorrect` follow from it, case by preset where
  the bounds of the preset matter (`PresetBounds`).

It also proves what the run `traders` checks, for any reference price, steps, offsets,
intervals, seeds of either sign, and books (`TradersAssumption`):

* `QuotesAlwaysSound` and `RolesAlwaysKept`: `TraderSpec => []QuotesSound` and
  `[]RolesKept`.  `Placeable` says what an order may be, given the strategy, the
  settings and the book; there is one lemma per strategy (`NoisePlaces`, `ProviderPlaces`,
  `MomentumPlaces`, ...), over `MidpointBetween`, that the midpoint lies between the best
  prices, and `Band`, which has the only products;
* `DueOnceAnInterval`: `TraderSpec => DueEachInterval`.  `OnSchedule` is its
  invariant: before the first due tick no tick was due, and the last one is less than an
  interval ago.  `DueAtStart` and `DueAfter` are the modular arithmetic of `is_due`.

Model-checked only:

* liveness under fairness (`CallReturns`, `StopEnds`, `ListedGoes`, `EventCompletes`, `PendingEnds`,
  `RunEnds`), ENABLED, and what needs an induction theorem of the library with an
  operator for its argument, which are out of the prover's reach.

## 5. Plan

1. Shorter proofs where a fact is proved in two modules (`SmallestMember`, `LeastNat`,
   `LeastNumber` and the sums of `EventCoordinatorProofs` and `OrderBookProofs`).
2. Trader profiles and the validation of payloads, if they get rules that relate rows to
   each other.

## 6. Not modelled

* Validation of payloads: a rejected request changes nothing but a counter.
* Trader profiles (plain rows, development only) and probes.
* `OrderBookRegistry.reset` and `reset_books`, which serve tests and development.
* `ShardedBackendClient`, which no entry point builds.
* Loading and validating configuration at start-up, apart from the choice of
  profiles by shard in `ShardRouting`.
* Histograms, counters without a property, the text of metrics and logs, and
  `/proc` readings.
* URLs and targets built from the shard topology, which are formatting.
* The side and quantity of single planned orders, and the hash seeds of draws.
* The frontend, and everything under `infra`, `infra-azure`, `deploy`, `db`,
  `observability`, `loadtest` and `scripts`: descriptions, benchmarks and deployment.
