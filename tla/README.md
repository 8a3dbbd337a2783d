# ArchitechCode: TLA+ models, checks and proofs

This directory models the market-making platform of this repository: how it learns of
executions, how the stacks of one product keep out of each other's way, how the local
order table and the venue's book are kept together, how a stack's two legs are replaced, and
around these the mover, the event bus, the feeds, the breakers, start-up and shutdown.
Modules are checked with TLC on small instances; every safety property that a run checks is also
proved with TLAPS, for every value of the constants that section 5 names. `PROJECT.json` lists runs, mutants,
theorems, hazards, findings, and for every definition the source lines it stands for. Paths
below are relative to the repository; line numbers are those of the commit the models were
written from. MM is `src/src/strategy/MakeMarketStrategy.cpp`, SS
`src/src/core/StartupSequence.cpp`, PL `src/src/core/Platform.cpp`, OM
`src/src/orders/OrderManager.cpp`, MAIN `src/examples/main.cpp`.

## 1. Inventory of the system

One process (`examples/main.cpp`, `core/Platform`, `core/StartupSequence`) quotes several
AX products. A *stack* is one `MakeMarketStrategy` object with a bid leg and an ask leg;
several stacks may quote one product. These threads meet:

- the **main loop** (`executeTradingLoop`): applies fills and positions, reconciles with the
  venue, runs the strategies' timers and, every 15 s, the feed guardian;
- the **FastPoller** thread, which fetches fills and positions for the main loop;
- **mover workers** (`MmOrderMover`), one per instrument or one for all, which run quote cycles
  and fill re-quotes, and one more for the market monitor;
- **event workers** (`EventManager`), **feed threads** (`ExternalFeedManager`), the **pinger** of
  the connection pool, the **crash watchdog** of `main`;
- **mm_desk_bg_thread**, which starts and tears down stacks as `orders.json` says. That file is
  written by the desk, a separate program.

| Component | State | Operations | What must hold | Module |
|---|---|---|---|---|
| Fill pipeline (SS 1430-2064, `FastPoller.cpp`) | cursor and its file, hand-over queue, dedupe set, poller state | fetch, push, drain, apply a row, finish or abandon a body, fall back, exit, restart | no execution is skipped, none applied twice but where the dedupe set was emptied; the cursor does not go back; everything is applied in the end | FillPipeline |
| Placement lease and cycle mutexes (MM 3536-4660, 4796-4973, 5280-5435) | lease owner and deadline, pending accepts, recursive mutexes, registered stacks | acquire, claim, release by name, force-release, reserve, submit, lock all, tear down | one placer per product; no leaked lease or reservation; no deadlock; teardown ends | ProductLease |
| Order table and gateway (OM, the order handlers of PL, SS 700-1041) | orders, active count, event queue; at the venue: the book | submit, cancel (several paths), accept, reject, fill, reconcile in two directions | table and book agree in the end; nothing live is forgotten; the count is exact | OrderGateway |
| Pair cycle (MM 1766-2494, 2629-2946, 7981-8820, 11795-11985) | legs, cancel/replace phase, fill re-quote state, pending accepts | requote, cancel then place, ack timeout, fill re-quote, orphan, evict, re-arm | at most one live quote per side; nothing waits for what cannot come | PairCycle, BatchReplace |
| Clean-up at the cap (MM 5436-6110) | claims on listed rows | list, claim, cancel the rest | a present quote is spared | CapConverge |
| Quoting arithmetic and requoting (MM 1611-1717, 7600-7900, 11000-11600) | last theo, resting pair, queued reasons | price, check, place, look again | what rests follows the theo; a refused leg is not placed | Requote |
| Order mover (`MmOrderMover.cpp`) | workers, action queues | enqueue, run, shut down | a queue runs in order, one job at a time; every worker is joined | OrderMover implements SerialQueues |
| Event bus (`EventManager.cpp`) | queue, subscriptions, workers | publish, dispatch, (un)subscribe, start, stop | no lost wake-up; stop ends; drained events are handled once | EventBus |
| Position book (`PositionBook.h`) | base position, unaccounted fills | onFill, onSnapshot, effective | a snapshot clears just the fills it contains; the cap holds | NetPosition |
| Breakers and hold (`MwrBreaker.h`, `FastMarketMonitor`) | samples, pause, pulls | tick, evaluate, fan out | paused means dark; gaps do not count | QuotePause |
| External feeds (`ExternalFeedManager.cpp`, `NeonFixFeed.cpp`) | quotes, up flags, callbacks and their in-flight counts | publish, invalidate, register, unregister, notify | no callback after unregister returns; a flag that is up is fresh | ExternalFeed, FeedCallbacks |
| Feed guardian (PL 900-1180) | what was seen down | cancel all of an instrument, reset, recover | a source that is down has no orders | FeedGuardian |
| Start-up, shutdown, watchdog (SS, MAIN) | phase, threads, orders.json, marker file | start; stop strategies, mover, sweep the venue, stop feeds and events | every live order is cancelled before exit | Lifecycle |
| Stack table (MAIN 850-1400) | orders.json, its frozen copy, running stacks | freeze, read, start, tear down | what runs is what the file says; a mass removal is confirmed | StackTable |
| Seeding from the desk's file (MM 6700-6760, 13219-13460, OM 870-930) | names in orders.json, legs | seed, adopt, patch | an old name is not adopted over a present leg | DeskSeed |
| Request pool (`CurlMultiManager.cpp`, `RestClient.cpp`) | easy handles and their options | acquire, batch, release, warm | nobody is forgotten; no option is left over | RequestPool |
| Portfolio (`PortfolioManager.cpp`) | positions, realised PnL | apply a fill, refresh | position = sum of fills | read as a (possibly stale) input by PairCycle |
| Desk signal file (SS 76-157) | a file | append, claim by rename, read | no signal is lost | not modelled |
| Timers, strategy base, predictors; market data, WebSocket; users; configuration; logging; desk UI; tools | - | - | - | inputs, or not modelled (section 8) |

Interactions: a strategy submits to `OrderManager`, whose `ORDER_SUBMITTED` event is handled
synchronously by `Platform`, which posts the order and stores the answer; accept and reject come back to the
strategy on the same thread; the fill pipeline calls `onOrderFilled`, whose events feed the portfolio, the
hedge provider and the strategies; a feed quote calls the strategies, which enqueue quote cycles
on the mover; the reconcile pass repairs the table and the venue; the guardian, the breakers, a hold and the
desk take orders off or remove stacks while all of this runs.

What is hard here: the same order is worked on by strategy threads, the fill poll, the
reconcile pass and late answers; requests are lost, late or answered with errors; state is collected
before an HTTP call and used after it; clocks of two hosts are compared; recursive mutexes of
many objects are taken under other locks; a stack is removed while its jobs run;
the process may stop between applying a fill and persisting its cursor. `PROJECT.json` ("hazards") names
each with its line and the properties that cover it, or why none does.

## 2. Plan

Written: **FillPipeline**, **ProductLease** and **OrderGateway**, the three places where the
repository's own comments make promises to be kept between threads and machines, with proofs; then **PairCycle**
over an abstract order table; the life of the process (**Lifecycle** over **OrderMover**, with the abstract
**SerialQueues** shown to be implemented); and eleven smaller parts, each a module, checked together by `parts` and `stack`.

The safety properties, the action properties and the refinement are proved (section 5); what is checked only is
liveness. Next, in this order:

1. Composition: a stack's teardown with the legs it has (StackTable, PairCycle, ProductLease), so that "DEAD is final" and
   "an order on the wire at a teardown is cancelled" can be asked.
2. Partial fills of a leg in PairCycle; in-place modify.
3. Proofs: the safety part of the temporal properties of OrderGateway (what a reconcile pass has in hand when it ends), and
   the types of the parts in full where their proofs state no more than they need.

Parts that share no state share the runs `parts` and `stack`, where a behaviour picks one of them.

## 3. Modules

### FillPipeline (proofs: FillPipeline_proofs, instances: MCFillPipeline, MCStack)

From an execution at the venue to a local fill. `fetch` is the one `GET /fills` in flight, of
the poller thread while it is up and of the main loop otherwise; `queue` is `poll_handoff_queue_`, which drops
its oldest body when it is full; `local` holds the bodies the main loop applies. `ApplyRow` is one row of
`applyExchangeFillsBody`, `FinishBody` the end of it, which moves the cursor to
max(start, now - overlap), `AbandonBody` its catch block. `FallBack` is the poller giving up after its
respawns. `LeaveLoop`, `Stop`, `Crash` and `Restart` are the life of the process; the dedupe set is
lost with it and the cursor file is kept. The set is emptied when it holds `MaxProcessed` ids, whatever window is being polled (`Full`,
`Remember`): the ghost `clears` counts that, and `AppliedOnce` says that a fill passes again in a session only as often as the set was emptied (aa).

Assumptions: the venue and the host share one clock except for `Skew`, by which a stamp may be older than the
moment at which the execution becomes visible; the cursor in the file, in `last_fill_id` and in the
poller's variable is one variable (they are written one after the other by one thread); the position
polls of the same poller and its rate governor are left out. `lossy` is a ghost: a body that was truncated by
the page limit, or applied later than `Overlap - Skew` after its answer, has moved the cursor.

### ProductLease (ProductLease_proofs, MCProductLease)

The stacks of one product. `lease` is `gate.lease_owner`, `held` the recursive cycle mutexes of each
thread, `pending` the reserved accepts, `pc` the place of a thread in its job: a quote cycle, a fill
re-quote, a converge of the product's book, a position reconcile. The locks of "all stacks" are collected
first and taken one by one in the order of their addresses; the jobs that hold their own stack's
mutex first do so here as well. `Acquire` covers the claims of `mmTryAtomicClaimProductPlacementLeaseLocked`, in which the
quiet product decides and not the owner: a cycle may take a lease that has not expired (line 4194 is called with
`owner_available=true`), although `MmProductLeasePolicy.h:51` says a waiter never steals it. That is why `PlaceExclusive` rests
on the mutexes and not on the lease, and the proof shows that they suffice.

Assumptions: position book modes off and shadow (in enforce mode converge and sync return early, and
the sharded bypass places without the lease); every stack is managed by the desk; placing two legs in
one batch request is not told apart from placing them one by one; no stack is added while jobs run; a teardown stops a stack and unblocks its waiters in one step.
In the instance all placing runs on one mover worker, as one product belongs to one worker, and
timers run on the main loop.

### OrderGateway (OrderGateway_proofs, MCOrderGateway)

The order table, the venue's book, and between them requests that may be lost, late, refused, or answered with
something unreadable. `status`, `oid`, `filled`, `active` are the fields of the table; `partials` the queued
`ORDER_PARTIALLY_FILLED` events (full fills are handled before the publish returns); `booked` is what
portfolio and hedge provider are told; `venue`, `vfill`, `aged`, `places`, `cancels` are the venue and the network; `call`
is the request each strategy thread waits for; `recon` the phases of the main loop's reconcile pass: collect
the active orders, `GET /open-orders`, cancel locally what it does not show (direction A), cancel at the
venue what the table does not know (direction B). With `ListingLags`, as in production (MM 200-206, 9856-9862, 12217-12227), a listing may leave out any open
order that is not `aged`. Direction A has no grace for these: `SyncSound` excuses the orders that were open and young when
the listing was read (ghost `recon.young`) and no others, and `SyncMatchesReality`, which excuses none, is what the comment at SS 846-847 says and is violated.

Assumptions: a fill is one contract and is polled once (FillPipeline's `AppliedOnce`); a place call ends within
4 s (`api.order_op_timeout_ms`), before the grace of 10 s (`gateway_orphan_grace_ms`, not 0) is over, and it is not
retried; the event queue is never full; a status and the counter change in one step; two cancel requests for
one order in flight act as one. Left out: orders the desk places itself and the table adopts, modify,
purge and detach, the venue-wide cancel-all, several symbols, and the converge of the product's book, which may
remove further orders.

### PairCycle (PairCycle_proofs, MCPairCycle, MCStack)

Both legs of one stack. `legs` are the tracked orders with their phase, `work` the jobs of the
instrument's worker with the step they are in, `desk` the queue and flags of the stack, and
`venue` the orders. Three actors work on the legs: the feed (start of a cycle, scan for overdue cancels), the main loop
(fills, reconcile) and the worker, whose HTTP calls are steps of their own with the other actors in between. `Faults` says
which failures an instance has: rejects, cancels answered with errors, orders the venue drops.

Assumptions: one contract per order, so no partial fill; the answer to an order comes with its submission;
`place_before_cancel_ack` and the position book are off (BatchReplace has both on); the listing lags less than the grace of
the eviction; a gate that closes for a moment is a side the cycle does not want; the portfolio's position
may be stale. Left out: the desk's reseeding and adoption (DeskSeed), teardown, in-place modify.
Whether a cycle ends is asked for as safety: what is pending must be awaited (`PendingIsAwaited`, violated), what is
counted must be due (`PendingAcceptsExact`). `PulledIsCancelled` is stated while the stack is `ACTIVE`; without that it is
false, on instances larger than that of `stack` (y).

### Lifecycle, OrderMover, SerialQueues (Process_proofs)

`OrderMover` has the three unlocked steps of posting a job (test the flag, find or start the worker, append), the workers,
and a shutdown that copies the worker table, stops each and joins. `Lifecycle` extends it with the process: the
start-up steps and their clean slate, the trading loop, the shutdown with its two sweeps, the watchdog that sweeps after a fatal
signal, and a restart, which finds the venue's orders and `orders.json`. `SerialQueues` is what the mover promises: per instrument,
jobs in order and one at a time, none lost before shutdown; `JobsRunInOrder` is `SQ!Spec` under the refinement mapping,
across restarts and in both sharding modes: what waits for an instrument is its share of its worker's queue (`Share`, the jobs of
the instrument in the order in which they are queued, also where one worker has the queue of all), what runs is that worker's job
if it is of the instrument, and the phase follows the stop flag and the process.

Assumptions: an order rests until a request cancels it; a cancel that succeeds has taken effect when it is answered; fills are left out; a setting
is chosen in the step that reads it; the steps that touch neither orders nor threads just succeed or fail.
`SweptFlat` and `Inherited` say what is left of the hard rule of SS 2282-2286 ("every live order it has ever placed on AX MUST be
cancelled on the venue before the process exits"): an order survives if its sweep failed, or if a worker was started after
shutdown took its copy of the table.

### EventBus (Process_proofs), FeedCallbacks (Feeds_proofs)

The two places with a hand-made wait. The test of a wait condition and the falling asleep are two steps, with the mutex held
between them; flags and counts that are changed without the mutex can change in between. `NoLostWakeup`, `Drained`, `CallbackDrained`
say that no sleeper is forgotten, that `stop(true)` neither loses nor repeats an event, and that a strategy's destructor may rely on
`unregisterCallback`. Left out: subscribing while the bus runs, the stop of the destructor without drain.

### ExternalFeed, FeedGuardian (Feeds_proofs)

ExternalFeed: the FIX session, the poller and the web socket, each a thread, with the up flags and the table of quotes. The feed
mode is fixed while the process runs; the FIX settings are complete; a message is "both sides known and
not crossed" or not. FeedGuardian: the heartbeat of the main loop against a source that goes down and comes back between
any two of its steps. A stack's pair is one order; cycles may be asked for at any time; one
instrument with two stacks of different sources in multi mode, one provider otherwise.

### NetPosition (FillPipeline_proofs)

`position_book_mode = enforce`: fills and positions fetched by one thread and handed over in order, the book, and the decisions that
read it. Two BUY legs of two stacks (the other direction comes with fills of orders that are no stack's). Assumed:
a positions body is current when it is fetched. Fetching inline by the main loop is the special case of an empty queue. Each fill is for one contract, so that a position
is a count of buys less a count of sells (`SumOf`).

### Requote (Stacks_proofs)

Price moves against a running cycle, in scaled integers: skew, width, market check, tick rounding, the drift test. Desk-managed stack,
enforce mode, `requote_on_timer` off, equal widths; in-place modify and the reload limit are left out; a cycle waits
for its accepts. `overtaken` is the history of what the code lets slip; `QuoteFollows` holds but for those, each of
which is a definite place of the code: a price handled while its cycle runs (below, a), a request that replaces another (c), a leg the cap refuses
or that the market check refuses (e), a cycle that is skipped (b), and a position moved by another stack.

### StackTable, DeskSeed (Stacks_proofs)

StackTable: the thread that makes the running stacks those of `orders.json`, with the freeze copy and the second reading before a mass
teardown. `allow_multi_mm_per_ax = true`, the guard on; a stack's parameters and legs are left out.
The exceptions of `StacksFollowFile` are stacks that failed to start and files that cannot be read to the end (h); a removed file is
(g): the teardown it asks for is deferred and never confirmed while two or more stacks run.
DeskSeed: one stack adopts the legs its file names, from three threads; the file is always behind. `AdoptsCurrent` does not say that the adopted
order rests: seeding adopts an id without looking (o). `on_cancel` marks the leg under `tracked_orders_mutex_` (`CancelAnswered`) and stamps the time of the cancel
after it has released it, without the cycle mutex (`CancelNoted`); an adoption in between reads the old stamp. The orders in between are
`acked`: that one of these is taken up again is the exception of `AdoptsCurrent` (bb). One cancel at a time is answered, since a stack's
cancels run one after the other on its worker.

### CapConverge (ProductLease_proofs)

The clean-up lists the venue's rows, lets each stack claim one row per side, and cancels the rest, with the position book off or in shadow
mode (the default). A clean-up holds the lease and every cycle mutex (ProductLease shows that it may); meanwhile orders that were sent arrive, accepts are handled,
rows fill. A stack keeps its price; prices match when equal; throttles are a free choice of when to run. Left out:
rows of other instruments, the fallback for manual stacks.

### RequestPool (RequestPool_proofs)

Handles, what is left on them from the last request, batches that wait while they hold, and the pinger. `PoolServes`
needs a pool with more handles than all batches together hold while still incomplete; the instance meets that with nothing to spare (two batches of 2, three handles), as does
the code's default of 32 (s). `size` is `CURLOPT_POSTFIELDSIZE`: every request sets it, the two pings do not (`CurlMultiManager.cpp` 507-519, 559-569), so that
`NothingLeftOver` says of callers' handles that body and length are their own, and of pinged ones everything but the length (cc). URL and token are the same for all; the token is set at start-up only; answers are left out.

### BatchReplace (Stacks_proofs)

`place_before_cancel_ack` and `async_batch_submit` on (both off by default): cancels and places in one batch, arriving in
any order. No fills; the cancelled legs have exchange ids; a retry may be sent again where the code sends one. `doubtful` are
the orders whose cancel or placement was not answered, or whose cancel was never sent (v).

### QuotePause (Stacks_proofs)

The monitor's samples and moving window, the pull it queues behind the instrument's jobs, the stack's own breaker, the hold
(`mm_orders_enabled`), and jobs that pass the gate first and place later. One stack, one side, one of the two breakers set up. An order whose
cancel was refused or whose placement was not answered is not followed (OrderGateway has those). `NoStraddle` is about the market's breaker only: the stack's own
does not clear its samples on a gap (x).

### MCParts, MCStack

`MCParts` has eleven of these in one specification, `MCStack` the pair cycle with the request pool, the breakers and the fill pipeline: a behaviour
picks a part at the start and runs it, while the others, which share no state with it, stay in one of their initial states. Each property is
checked under its own name, in the behaviours of its part; elsewhere it says what it says of an initial state. `JobsRunInOrder` is written so that
TLC maps only the steps that change something; that it is `SQ!Spec` is part of the theorem `MoverKeepsOrder`.

## 4. Runs

| Run | Expected | What it shows |
|---|---|---|
| `fill_live` | pass | `EventuallyApplied` through failed polls, dropped bodies, fall-back and restart |
| `fill_crash_replay` | violation | `NeverReplayed`: a restart processes fills again |
| `lease_safe` | pass | two stacks, mover and main loop, one teardown: types, `PlaceExclusive`, `NoLeakedLease`, `PendingAccounted`, `TeardownEnds` |
| `lease_lock_order` | violation | `NoWaitCycle`: a re-quote and a reconcile wait for each other |
| `order` | pass | one order of two contracts, two strategy threads: `ActiveExact`, `TerminalSticky`, `SyncSound`, `OrphanSound`, and in the end `EventuallySettled`, `StrayTakenOff`, `FillsReachOrder`; the listing may lag |
| `order_fill_recount` | violation | `FillsBookedOnce`: cumulative quantities are booked as the quantity of each fill |
| `order_orphan_left` | violation | `CancelledLeavesVenue`: an order that is cancelled in the table but alive is skipped by the orphan pass |
| `order_sync_lag` | violation | `SyncMatchesReality`: a lagging listing makes the pass mark a resting order CANCELLED in the table |
| `stack` | pass | two legs with rejects, failed cancels and dropped orders: `PendingAcceptsExact`, `PulledIsCancelled`; the request pool: `PoolServes`, `NothingLeftOver`; the breakers: `PausedIsDark`, `NoStraddle`; the fill pipeline with two executions, both fetchers, one crash or exit: `AppliedOnce`, `NoFillSkipped`, `CursorMonotone` (2.9 M states) |
| `pair_double_quote` | violation | `OneQuotePerSide`: a cancel refused because the order was filled leads to two quotes on one side |
| `pair_dead_leg` | violation | `PendingIsAwaited`: a rejected order of the fill re-quote leaves a leg nothing will settle |
| `parts` | pass | eleven parts, one at a time (1.4 M states): the 18 properties below |

Properties of `parts`:

| Part | Properties |
|---|---|
| Lifecycle with OrderMover | `JobsRunInOrder` (the refinement), `SweptFlat`, `Inherited` |
| EventBus | `NoLostWakeup`, `Drained` |
| FeedCallbacks | `CallbackDrained` |
| ExternalFeed | `UpIsFresh`, `Blanked` |
| NetPosition | `BookSound`, `CapHeld` |
| Requote | `QuoteFollows`, `MarketChecked` |
| StackTable | `StacksFollowFile`, `MassConfirmed` |
| CapConverge | `SparesQuotes` |
| DeskSeed | `AdoptsCurrent` |
| FeedGuardian | `DownIsDark` |
| BatchReplace | `NoOwnCross` |

### Bounds

- `fill_*`, and the fill pipeline in `stack`: overlap 2, look-back 3, skew 1 and a clock up to 5 are the smallest values at which a body can be in time, late but
  within the overlap, and too late; in `stack` pages of 1 of 2 trades are truncated; a queue of 1 drops on its second body
  (`fill_live` has one trade: its question is about one). In `stack` the dedupe set holds one id, so that the second trade empties it
  inside the overlap window of the first, once (`MaxClears = 1`). `MaxEnds = 1`
  lets one process replace another. A body that is applied later than the overlap, or was truncated, may move the cursor past an
  execution (`lossy`); the properties leave those out.
- `lease_*`: two stacks and two threads suffice for a wait cycle and a stolen lease; `Degraded = {2}` has one
  stack that may claim over activity; `MaxLegs = 2` is a pair; `MaxTeardowns = 1` removes a stack under running jobs
  (`lease_lock_order` needs neither).
- `order*`: one order, two contracts (a partial and a full fill), two threads that may cancel it at once. With two
  orders the temporal properties take too long; an order interacts with others only through
  `active` and the reconcile pass, and the theorems about the count hold for any set of orders. `ListingLags` is TRUE in `order`
  and `order_sync_lag`; the other two runs do not need it. `ClockAhead` is FALSE: the clocks of venue and host agree (the
  age test of SS 991 has no lower bound). With it TRUE, TLC finds `OrphanSound` violated.
- `stack`, `pair_*`: two orders are the pair and three add a replacement, which a double quote takes; one price event; a cap of 1 is reached by one fill; one
  order the venue drops.
- `parts`, `stack`: two of each actor (instruments, posters, workers, publishers, callbacks, stacks, callers), which is enough for every race of
  two; queues of one or two, so that they fill; a mass teardown from two; one restart; two prices or pairs
  that make a leg move and cross; breaker times of one or two seconds with four seconds of clock, so that a window fills, passes,
  gaps and a pause ends. Each bound is a constant headed "bound:" in its module.

`lease_*`, `order*`, `pair_*`, `stack` and `parts` say `CHECK_DEADLOCK FALSE`: threads blocked on each other's mutexes are what `NoWaitCycle` is
about; a settled order leaves nothing to do; the orders, posts, ticks and writes of the bounded parts run out. `fill_live` and
`fill_crash_replay` check deadlock.

### Fairness

- `fill_live`: strong fairness of fetch, answer, push, drain and of applying rows: a poll does not fail for ever and a body
  is not malformed for ever; both threads are scheduled. The engine polls at a fixed interval for as long as it
  runs. A process that has ended is started again (weak fairness of `Restart`: `deploy_aws.sh:273` has systemd restart it after a failure; after an orderly exit the operator starts it). Nothing is assumed
  of falling back, dropping or crashing.
- `lease_safe`: only the desk thread is scheduled. The jobs may be blocked for ever, and `TeardownEnds` holds nevertheless.
- `order`: the main loop runs; a place call ends, because it has a timeout; orders grow old; the listing and
  `orders.json` are not unavailable for ever; a cancel that is sent again and again gets through. Strategies, fills and
  the answers to cancels are not assumed to happen.
- `stack`, `parts`: safety only, no fairness. `NoLostWakeup`, `CallbackDrained` and `PoolServes` state the safety half of
  "nobody sleeps for ever": a sleeper always has somebody who is going to wake it.

### Mutants

For every property of a passing run `PROJECT.json` names a fault of the code (a dropped guard, a missing reset, a narrower
lock set, ...) with which TLC finds the property violated. They are the definitions headed "Fault:" or "mutant:" in the modules.

## 5. Proofs

Checked by `tlapm` from nothing, for every value of the constants that meets the modules' named assumptions and the
hypotheses below. Each theorem is `Init => IInv`, `IInv /\ [Next]_vars => IInv'` and `IInv => Inv`, with a lemma for each group of actions;
the invariants `IInv` were first checked by TLC on the instances of section 4.

- `FillPipeline_proofs`
  - FillPipeline: `TypeCorrect`; `GapFree` (`NoFillSkipped`); `CursorNeverBack`; `NoDoubleApply`
    (`AppliedOnce`, for any size of the dedupe set: an applied trade is in the set, or was applied before the set was emptied last). `NoFillSkipped` is not inductive: it speaks of the cursor, and the next cursor comes from a body
    that may have been on its way for long. `GapInv` says of the fetch and of every queued body that it starts early enough for any
    cursor it may set (`StartOK`) and that a whole answer misses only what is applied or is too recent to be behind that cursor (`Accounts`).
  - NetPosition: `BookMissesNothing` (`BookSound`), `CapIsHeld` (`CapHeld`). `PosInv` orders the bodies: a positions body in the queue has every fill that
    the fills bodies before it, and all that is booked, have (`InOrder`); that is what makes a snapshot safe to apply. `LegsOK` relates each
    leg to the position it was decided on.
- `ProductLease_proofs`
  - ProductLease: `TypeCorrect`, `PlacementExclusive`, `LeaseNotLeaked`, `PendingIsAccounted`. The
    invariant `LockInv` adds that a mutex has one holder, that a thread keeps all it has collected while it places, and that what it
    collected covers every stack that is still registered: stacks may leave between the collection and the locking (the model has none join).
    `LeaseNotLeaked` follows the scope of each claim (`InScope`) through every step; `PendingInv` rests on the exclusion: only one thread counts.
  - CapConverge: `CleanUpSpares` (`SparesQuotes`). `ConvInv` says that a stack's quote is an order of that side at the price it wants there, so that
    the stack's own claim, or an earlier one, protects it (`QuoteIsProtected`), and that what is left to cancel holds none.
- `OrderGateway_proofs`: `TypeCorrect`, `ActiveCount` (`ActiveExact`), `FinalStaysFinal` (`TerminalSticky`), `SyncIsSound`, `OrphanIsSound`. The
  invariant `TableInv` adds that a placing thread's order is pending and has no second one (`PlaceOK`), that the venue has nothing of an order that was not sent
  (`SentOK`), that an exchange id comes with an accept (`IdOK`), and that no more is applied than was executed and no more executed than ordered (`FillsOK`):
  the accept and fill handlers have no guard on the status, so that FILLED and REJECTED are final only because of these. `ReconInv` says what the pass has
  in hand: the orders it collected were accepted, the rows it read do not reopen, an accepted order the rows leave out is young or not open any more, and no order whose call is running is old.
- `PairCycle_proofs`: `PendingExact` (`PendingAcceptsExact`), `PulledCancelled` (`PulledIsCancelled`). `PairInv` gives the job of the worker its shape: only cancels,
  or quote steps behind at most one placement that awaits its answer, or submissions of which the first may have its answer or its tracking outstanding (`WorkOK`); the count
  is that of the steps without an answer (`PendOK`), orders are answered once and after they are sent (`SentOK`), and every leg marked as being cancelled is queued, called
  or asked for (`CoverOK`).
- `Process_proofs`
  - EventBus: `NothingSleepsOn` (`NoLostWakeup`), `StopDrains` (`Drained`). `WakeInv`: while a worker falls asleep it has the mutex, and nobody has
    queued an event since it looked. `DrainInv` follows each event: it is in the queue, at one worker, at its publisher, or handled, and never in two of these.
  - Lifecycle: `SweepsLeaveNothing` (`SweptFlat`), `CleanSlate` (`Inherited`). `LifeInv`: the sweeps begin when the mover is joined; what a worker of the table's
    copy may still place is nothing; what the clean slate has collected is all that earlier processes left.
  - `MoverKeepsOrder` (`JobsRunInOrder`), the refinement: the initial states map to those of `SerialQueues`, and every step of the mover, of main, of a signal or of a
    restart maps to one of its steps or a stutter. The lemmas about `Share` say what appending a job to a worker's queue, or taking its first, does to each instrument's share.
- `Feeds_proofs`
  - FeedGuardian: `DarkAfterHeartbeat` (`DownIsDark`); `BeatOK` covers the time between the reading and the cancel.
  - FeedCallbacks: `CallbacksDrain` (`CallbackDrained`); the count of a callback is the number of threads that hold it.
  - ExternalFeed: `FlagsAreFresh` (`UpIsFresh`), `ErrorsBlank` (`Blanked`); `FeedInv` relates the streak of errors to what is quoted.
- `RequestPool_proofs`: `HandlesAreClean` (`NothingLeftOver`), `NobodyIsForgotten` (`PoolServes`). `CleanInv`: the handles are partitioned, and those a caller
  has serve its request. The second adds that free handles are no more than those awake to take them (`Attended`), and counts: with no handle free,
  the callers that wait hold less than all of them.
- `Stacks_proofs`
  - StackTable: `RunningFollowsFile` (`StacksFollowFile`), `RemovalsAreConfirmed` (`MassConfirmed`): what the thread looked at last is as it was then, or newer than what it remembers.
  - BatchReplace: `OwnOrdersDoNotMeet` (`NoOwnCross`): every order at the venue is an adopted leg, or its cancel is on its way, or it is doubtful; a new
    pair is sent at once only if it meets none of these.
  - QuotePause: `PausedStaysDark` (`PausedIsDark`), `BreachesAreContiguous` (`NoStraddle`): the samples of the window have no gap and are younger than the last blind moment.
  - DeskSeed: `AdoptionIsCurrent` (`AdoptsCurrent`): a side has one leg at most, the leg is the newest of its side, and an order on its way belongs to a waiting leg.
  - Requote: `QuotesFollowTheo` (`QuoteFollows`), `RefusalIsHeeded` (`MarketChecked`). `Following` says for each phase of a cycle what is still up to date: before it, the pair is near the
    price handled last; in it, the legs it is done with are where it wants them; a newer theo always has its news waiting. `GatesOK`: until the first cancel no
    refused leg is still to be placed, and the bid goes first.

The parts have no ASSUME of their own; what their theorems need of the constants is a named hypothesis, as weak as the code justifies:

| Hypothesis | Says | Because |
|---|---|---|
| `PosConstants` | a leg has a side, an orphan fill no leg of ours, the queue takes a body | `poll_handoff_queue_` is bounded by 256 |
| `ConvConstants` | the stray order is a bid or an offer | an order has a side |
| `BusConstants` | there is a worker; events are told apart by their time; 0 and "free" are no event and no worker | `worker_threads` |
| `LifeConstants` | "all" and "again", which the sweeps note, are not instruments; posts are counted | naming of the model |
| `GuardConstants` | every guarded stack has an instrument | a stack is made for one |
| `CbConstants` | threads and callbacks that are registered before the start are finitely many; none is called "free" | naming of the model |
| `FeedConstants` | some error is tolerated; no FIX symbol is quoted by another feed | the symbol map of each feed is its own |
| `PoolConstants`, `PoolIsLarge` | finitely many callers; for `NobodyIsForgotten` more handles than all batches together hold while incomplete | `kDefaultPoolSize = 32` (`CurlMultiManager.h:220`) against batches of two legs; see (s) for what happens otherwise |
| `TableConstants` | one stack may always be torn down at once | the guard's threshold is positive |
| `BatchConstants` | a pair the price asks for does not cross | the width is a tick at least (`finalizeMmPairOnTickGrid`) |
| `PauseConstants` | pause, window and gap are counts of seconds | configured integers, negative ones disable |
| `SeedConstants` | orders are numbered | - |
| `QuoteConstants` | prices, positions, widths are integers, grid, pricer's snapshot and adjust step positive, a move is a tick at least | `std::max(1, ...)` at MM 1254 and 9254; without a snapshot the transform is off (MM 1147-1170), which is the pair of snapshots 1, 1 |

`OrphanIsSound` has `~ClockAhead` as a hypothesis, as the run `order` has.

Only model-checked: all liveness properties (`EventuallyApplied`, `TeardownEnds`, `EventuallySettled`, `StrayTakenOff`,
`FillsReachOrder`), since fairness and ENABLED are beyond the prover. No safety property of a passing run is without a theorem. What the violation runs check is false and
not proved. Proofs are about the models: that a definition is what the code does is for `map` and its reader to settle.

## 6. Findings

Seven, in `PROJECT.json` with the quoted lines; each is the counterexample of one violation run (section 4).
`order_fill_recount` and `pair_dead_leg` are defects of the code; the others are
differences between the code and a comment, most of which matter only under load or after a failure.

Further observations, met while modelling; no run is about them. Where a property has an exception for one, its comment says so.

- (a) `mmMaybePostCycleRecheck` (MM 1611-1717) compares with `last_theo_`, which `onFeedUpdate` keeps stamping while the cycle runs (7817);
  the comments at 1600-1610 and 7633-7637 say it compares with the prices just placed.
- (b) The cycle it queues is skipped by `runFullMmQuoteCycle` when both legs rest and the position is below the cap (11010-11024).
- (c) A pending theo_move reason is overwritten by a later reason that is then skipped (11591-11599).
- (d) `refreshCapGatesBeforePlace` (11365-11377) sets `do_ask` from the cap gates alone and drops the market check's refusal.
- (e) A side that is refused keeps its old leg resting.
- (f) The reload-limit count is never synced for stacks beside a manual stack (10131).
- (g) When `orders.json` is removed while two or more stacks run, the teardown is deferred and never confirmed (MAIN 1366-1374); compare the comment at 1258-1271.
- (h) A stack whose start failed, and a file that throws part-way, are not tried again until the file changes: its time is stored before the reconcile (MAIN 1389). A freeze
  signal whose copy fails counts as handled (904 before 908).
- (i) `orders.json` is patched (MM 613-691, from 8122) without lock or generation, and emptied (548-588) with generation 0; the desk's compare-and-swap sees neither.
- (j) The gate after a cancel (MM 3856-3900) opens on a fill poll that completed after the answer even if it was fetched before it or failed (SS 1664-1675, 1774);
  `StartupSequence.h:157-164` promises otherwise.
- (k) `EnsureClean` (MM 3970-4036) allows one reducing row and then one more is placed; a failed listing on a later pass counts as clean.
- (l) The clean-up at the cap may cancel the order just placed and not yet accepted when another row rests at its price.
- (m) One of its cancels answered "benign" evicts the leg, so `processFill` (8827) does not book its fill before the next portfolio sync.
- (n) The "refresh failed" branch of `mmReconcileVenueOrAbort` (3253-3263) is never taken; a portfolio refresh clears the positions before it inserts them.
- (o) Seeding adopts an exchange id from `orders.json` without checking that it rests (13393-13457; OM 870-930).
- (p) Recovery for the desk (6746-6753) clears tracked legs whose cancels may not have worked, though its comment says they cannot be alive.
- (q) Desk sync queues a cancel by local id and detaches that id at once, so that the cancel finds no order (comment at 13335-13337).
- (r) `mmPruneCrossStackGrowSideToCap` (5558) has no caller.
- (s) The request pool holds and waits: if concurrent batches hold 32 handles while incomplete, all wait for ever (`CurlMultiManager.h:84` speaks of a default of 8). Its header says the
  pinger never blocks order traffic; a request can wait up to 3 s for a borrowed handle.
- (t) The guardian resets the local state after a cancel-all that failed (PL 1032-1047, 1137; MM 9717-9758); a cancel-all of an instrument also takes the
  orders of a stack whose own source is up and that is not reset.
- (u) The "feed_recovered" cycle (PL 1154) is refused for desk-managed stacks (MM 10721-10733), after the legs were cleared.
- (v) In a combined batch that may not place (MM 2131, 2148-2195), legs are marked as sent for cancelling although nothing was sent; when the self-trade guard
  trips, the new pair goes out whether or not the cancels succeeded (2263-2266).
- (w) In enforce mode a stale listing makes the reconcile of overdue cancels drop the leg (2358-2364).
- (x) A pull whose cancel failed is not repeated during the pause (10622). A re-peg that passed the gate (2508) may place after a hold's cancel-all, because it waits for the
  lease in between (2601-2607); MM 6950-6955 calls that gate the single exhaustive one. The stack's own breaker evaluates without clearing on gaps.
- (y) Of a stack that stays `VENUE_ORPHANED` the worker drops the queued cancels (MM 209, `mmWorkerMayProceed`), while a re-peg that was queued before
  still places (11832-11847 has no such test): its legs then count as being cancelled with no cancel on its way. TLC shows it with
  `MaxOrders = 3`, `MaxEvents = 4`, `Cap = 1`, `OrphanMax = 0` and `Faults = {"drop", "error"}` when `PulledIsCancelled` is stated without `ACTIVE`; the instance of `stack`
  is too small for it.
- (z) The comment at MM 12355 says that recovery is attempted on every orphaned poll; its three callers (11633, 11785, 11823) test `mmWorkerMayProceed` first, which
  is false for an orphaned stack.
- (aa) The dedupe set is cleared at 20 000 ids (SS 1937-1939) in the middle of whatever window is polled: the fills of the overlap that were applied already pass again with the next
  poll, although the comment at SS 1906-1907 counts on the set. A session has to see that many fills first.
- (bb) `on_cancel` releases `tracked_orders_mutex_` at MM 8393 and stamps `mm_last_cancel_first_ms_` at 8430, without `mm_cycle_mutex_`. An adoption on another thread in between
  (13200-13321) finds no churn, no live leg and the old stamp, and takes up the id that was just cancelled, which the guard described at 13283-13298 is there to prevent.
- (cc) The warm and the idle ping leave `CURLOPT_POSTFIELDSIZE` of the last order on the handle, after `CURLOPT_HTTPGET` and with `CURLOPT_POST` 0. The next request of a
  caller sets it; what libcurl makes of it in the ping itself is outside the repository.

## 7. How to run

    tlc -config order.cfg MCOrderGateway
    tlc -config stack.cfg MCStack
    tlc -config parts.cfg MCParts
    tlapm OrderGateway_proofs.tla
    tlapm PairCycle_proofs.tla

## 8. Not modelled

- **The desk** (web UI, server, and its half of `orders.json` and of the signal file): separate programs; what they write are inputs here.
- **Tools, probes, scripts, tests, logging, CSV, object pools**: no part of the running decisions (the pools have no user).
- **WebSocket client, market data and L2 books**: the client does no I/O (`WebSocketClient.cpp:109`, `:534`), so the books stay empty and the market maker does not
  read them.
- **Users and sessions**: one session, set at start-up; the authentication call is a placeholder (`UserManager.cpp:31`).
- **Configuration and instrument catalogue**: parsing and look-ups; the reload as far as it holds orders is in QuotePause.
- **Strategy base, predictors, timers**: they forward events and fire the market maker; both are inputs ("at any time").
- **Portfolio**: a sequential function of fills; what the market maker takes from it is an input that may be stale. Profit and loss is left out.
- **Hedge provider**: outside the repository; what it is told is `booked` of OrderGateway.
- **Request answers**: JSON and headers; their outcomes are the lost, late and failed requests of the modules.

Of the modelled components, left out are: in-place modify, partial fills of a leg, manual stacks, teardown of a stack with its legs,
the poller's rate governor, basis and ladder caps, subscribing while the bus runs. `PROJECT.json` says so at each component.
