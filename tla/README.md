# cow-solver in TLA+

A verification development of cow-solver, a Rust service that competes in CoW
Protocol batch auctions on Arbitrum. The CoW driver POSTs an auction every few
seconds; the service routes the orders through pools and market makers within
a time budget and answers with at most three solutions, or none.

The modules are translated from the Rust source under `solver-engine/src/`
(paths below are relative to it). `PROJECT.json` maps each definition to the
lines it stands for, and lists runs, mutants, findings, hazards and theorems.

    tlc -config MCSolvePipeline.cfg MCSolvePipeline.tla     # one run
    tlapm SolvePipelineProofs.tla                           # one proof module

| Module | What it is |
|---|---|
| `SolvePipeline` | one request through the five solver phases and their timeouts |
| `AnytimeSolver` | what that pipeline promises: the abstract specification it implements |
| `SolvePipelineProofs` | its inductive invariant, seven safety theorems and the refinement |
| `SolveRoute` | the handler of `POST /solve` around the solver, with concurrent requests |
| `SolveRouteProofs` | its inductive invariant and four safety theorems |
| `PoolCache` | the shared pool cache and the tasks that write it |
| `CompetitionTracker` | the lookup queue, the poll task and the replay database |
| `CompetitionProofs` | its inductive invariants and five safety theorems |
| `Aggregators` | phase 5: the providers, their limiters, the quotes and the solution |
| `AggregatorsProofs` | its inductive invariants and four safety theorems |
| `Monitoring` | the counters, the background task, the alerts and the restart |
| `MonitoringProofs` | its inductive invariants and four safety theorems |
| `Listing` | sorting, filtering and summing sequences: pure operators |
| `DirectRouting` | one order and the pools of its auction: pure operators |
| `CowMatching` | opposite orders settled against each other: pure operators |
| `Assembler` | routes to solutions with clearing prices: pure operators |
| `PhaseOne` | phase 1 and the final filter and ranking, composed of the four above |
| `PhaseOneProofs` | its inductive invariant, five safety theorems, and three about matches and gas |
| `TokenGraph` | the graph of tokens, its weights, and what a path yields: pure operators |
| `GraphSearch` | the search for the best paths of an order, one action per turn of its loops |
| `SplitRouting` | an order shared between paths or pools: pure operators |
| `TwoHop` | routes through one intermediate token: pure operators |
| `Pricing` | uniform prices of a solution: pure operators |
| `Routing` | phases 2 to 4 and the fallback, composed of the five above |
| `RoutingProofs` | the invariant of the search, what it finds, that it misses nothing, what splits sell and what calls yield |
| `Registry` | the pool registry: discovery, index and refresh of every kind of pool |
| `PoolReads` | one sequence of contract calls, some of which fail: pure operators |
| `ProductPools` | Uniswap V2, SushiSwap, Camelot V2 |
| `ConcentratedPools` | Uniswap V3, Camelot V3, Trader Joe |
| `StablePools` | Curve, Balancer, Wombat |
| `PricedPools` | GMX and DODO |
| `LiquidityProofs` | the inductive invariants of `PoolCache` and `Registry`, their safety theorems, and the arithmetic of quotes |
| `MC*` | instances of the above for TLC, with a `.cfg` for each run |

## 1. The system

`main.rs` starts, in one tokio runtime: the gas oracle's refresh (every 300 s),
the pool indexer (after loading the pool file), a pool discovery scan if fewer
than 100 pools were loaded, the competition tracker (first its bootstrap from
the replay database, then the poll task), the subgraph updater, the WebSocket
monitor, the Bebop price stream, monitoring, and the HTTP server. All state
shared between them is global: `DashMap`s, atomics, mutexes around deques, and
one SQLite file for replay and accounting.

### Components

For each: its state, operations, partners, what is hard, and what makes it
correct.

**Solve pipeline** (`solver/mod.rs`, `solver/agg_solver.rs`).
State: local to a request (candidates, running best and its strategy, scores
and decisions of the phases). Operations: CoW matching and direct routing,
multi-hop, split, graph, aggregators, fallback, finalisation. Phases 1-4 are
pure computation between checks of a deadline; phase 5 awaits HTTP under a
sub-timeout, and the whole future sits under the route's timeout, which drops
it. Hard: two timeouts, their defaults, late polls, early exits between
phases. Correct: the best candidate is kept and returned, the fallback is a
last resort, the budget is respected, every request is answered.

**Solve route** (`routes/solve.rs`, `triage.rs`, `simulation.rs`,
`settlement.rs`, `freshness.rs`, `submission.rs`, `attribution.rs`).
State: per request what has been decided; shared the block tracker, the pool
cache, the attribution counters. Operations: note the auction's block and seed
its pools, skip hopeless auctions, solve, simulate with `eth_call`, score the
freshness, decide, count, record, answer. Hard: requests interleave at the
solver and at the simulation, while other tasks move the block tracker; the
node may fail; several records are written of one answer. Correct: what is
served is what is recorded; a held or reverted solution never leaves; the
counters agree with the answers.

**Pool cache and its writers** (`pool_indexer.rs`, `ws_monitor.rs`,
`subgraph.rs`, `pool_discovery.rs`).
State: `POOL_CACHE` (one snapshot per pool), `CURRENT_BLOCK`, the poller's last
polled block, the tick store, the set of hot pools. Operations: start-up
refresh, event poll (`eth_getLogs` over at most 50 blocks), WebSocket events,
subgraph snapshots, discovery scans, seeding by auctions and by the pool file.
Hard: six uncoordinated writers, no version check on any write, failed
requests, broken connections. Correct: a cached pool reflects the blocks the
poller has dealt with, and every way it may not is known; the poller never
stops.

**Competition tracker and replay database** (`competition.rs`, `replay.rs`).
State: `PENDING_QUEUE`, `RESULTS`, the table `auction_log`. Operations: queue a
lookup per solved request, drain what is old enough, ask the CoW API, retry
once, write winner to the database and to the results, reload after a restart.
Hard: spawned tasks in any order, auctions sent twice, errors and crashes
between the two writes, caps. Correct: one lookup per request; the results
know what the database knows; a settlement is not overwritten by a late miss.

**CoW matching** (`solver/cow_matching.rs`): pure. Pairs opposite orders,
filters matches that an AMM beats, builds uniform clearing prices. Correct:
limits respected, no order traded twice, one price per token.

**Routing** (`solver/direct.rs`, `router.rs`, `split.rs`, `graph.rs`,
`pricing.rs`): pure. Best pool or path per order, split amounts, Yen's k
shortest paths over a graph whose weights may be negative. Hard: a search that
must end on any graph, floats that become amounts, routes simulated on reserves
that other routes use too. Correct: paths walk the graph and none is missed,
shares add up, the calls of a solution deliver what it promises.
(`internalization.rs` marks calls of the main solution of phase 1 as advice to
the driver and is left out.)

**Scoring and assembly** (`solver/scoring.rs`, `solver/assembler.rs`,
`validation/ebbo.rs`): pure. Clearing prices, surplus, score, EBBO check.
Hard: 128-bit arithmetic, and price vectors written by two conventions.

**Aggregators** (`liquidity/aggregator/*`, `solver/agg_solver.rs`).
State: eight HTTP clients, each behind a rate limiter, one also behind an
hourly and a daily budget; all of them rebuilt for every auction. Operations:
choose the most valuable orders, ask one provider after another with a second
for each, build one solution of the best quotes. Hard: limits that live as long
as the client, waits that count against the turn, a sub-timeout shared by all
that drops everything. Correct: requests are spaced, quoting ends in time, a
trade keeps the rate it was quoted at.

**Liquidity registry and AMM mathematics** (`liquidity/*.rs`).
State: the pools and an index by pair. Operations: load from configuration,
discover, refresh pool by pool, quote in both directions. Hard: a refresh reads
one pool in several calls while blocks arrive and calls fail; integer rounding
in the formula of each kind, in two directions. Correct: a pair finds its pools, no
quote pays more than the pool holds or returns a profit on the way back. The
live solve path quotes from the liquidity of the auction and does not consult
the registry; the benchmarks and the tests do.

**Bebop price book, graph cache, parallel solver, JIT, RFQ**: compiled, but not
consulted by the live solve path.

**Settlement encoding** (`settlement.rs`, `interactions/*`, `gas/calldata.rs`):
ABI layout. `settlement.rs` also performs the simulation's `eth_call`, which
`SolveRoute` models.

**Gas oracle** (`gas/oracle.rs`): a refreshed price and a bounded history that
nothing reads; the solver takes the gas price from the auction.

**Monitoring and alerts** (`monitoring/*`, `alerts.rs`).
State: atomic counters, the window of the current hour, the time until which
each alert is muted. Operations: count a request and its outcome, check every
minute, close a window, send an alert, reload after a restart. Hard: handlers
change several counters one after another while the task reads and clears
them; rows of the database that come late or never. Correct: windows add up, a
restart forgets no written row, silence is reported and not repeated.

**Metrics, revenue, dashboard** (`metrics.rs`, `routes/*`): views.

**Accounting** (`accounting.rs`): predicted, realised and adjusted rows per
auction. That a predicted row is spawned for exactly the served requests is in
`SolveRoute`; the rows themselves are not.

**Data models, configuration, shared RPC client, tools, benchmarks**: wire
formats and start-up; no state of interest.

### How they interact

    driver --POST /solve--> SolveRoute --calls--> SolvePipeline --awaits--> aggregators
                               |  \--eth_call--> node
                               |---seeds-------> PoolCache <---- indexer, WebSocket,
                               |                                 subgraph, discovery
                               |---spawns------> CompetitionTracker <--polls-- CoW API
                               \---counts------> Monitoring --alerts--> Telegram

`SolveRoute` takes from `SolvePipeline` only its outcome (a nondeterministic
choice of a record that the pipeline can return), and from `PoolCache` only
whether it holds pools and the block tracker. `CompetitionTracker` starts where
the handler has spawned its two tasks. `PhaseOne` is the inside of
`SolvePipeline`'s first phase and of its finalisation: where the pipeline has a
candidate with a free score, it has trades and prices. In the same way
`Routing` is the inside of phases 2 to 4 and of the fallback, and `Aggregators`
of phase 5. `Registry` stands alone, as in the code. No action of one module
writes state that another module models in detail, so the modules are checked
apart.

## 2. Models

### SolvePipeline

Variables are the locals of `solver::solve` (`all_candidates`, `best_score`,
`best_strategy`, `phase_scores`, `phase_decisions`), a clock, and the place the
future is at. A candidate is the phase that built it and a score: which route
it takes is a free choice. One action per phase, one per iteration of each
search loop (the deadline is read once per order), and the events of the one
await: the aggregators answer, the sub-timeout or the outer timeout fires,
time passes. A poll of the nested futures tries the inner ones first, which
is the priority in the guards of the three outcomes. `Durations` are the times
a computation may take and the lateness of a poll.

`AnytimeSolver` is the promise in ten lines: best only grows, the leader
changes only with it, one answer closes the request and is no better than what
was found. `ImplementsAnytime` instantiates it with `open <- pc # "done"` and
`answer` the score of the first solution served.

### SolveRoute

Variables are what the handler holds per request between awaits, the shared
tracker and counters, and two histories (the block as of which the oldest cached
pool really is; whether the simulation's request failed). `Arrive` is everything before
the first await, `Solved` the return of the solver or of its timeout,
`SimulateLocally`, `SimulateCall`, `CallAnswered` and `CallFails` the
simulation, and `Decide` the rest: no await is left, so freshness, policy,
counting, recording and the answer are one step. The confidence is computed
in thousandths with the code's weights.

Left out: the submission mode and the expected value (stored or logged only),
the triage classes other than skip (logged only), replacement of a submitted
solution (the handler always passes a previous score of 0, so that rule never
applies). An invalid payload is answered before any of this.

### PoolCache

`chain[b]` is what block b did to each pool: the Sync of a V2 pool, a Swap of a
V3 pool, or a Mint or Burn around its price. The event of block 1 says which kind
a pool is. A state is named by the block of its last change, so two states compare by age,
and a cached entry is a state with how much of it was read (`seen`): all of it,
part of it, or no reserves or price, in which case `cached_as_liquidity` leaves
the pool out (`Holding`).

The decoding is that of the code (`Heard`, `Readings`). Words are parsed as
numbers of 64 or 128 bits: a negative tick (all upper bits set) does not fit and
becomes 0 (event "below", read in part); a sqrt price of 2^128 or more becomes 0
too, for which a log is dropped and an answer leaves the pool without a price
(event "wide"). A Mint or Burn marks the pool as fresh but does not change
its `v3_liquidity`. A refresh reads liquidity by a call of its own, which may fail.

One action per map access of each writer: the two quick refreshes at the start, then
the background ones (V2, and after it V3, each over the pools that are `Unread`
then) read and apply in two steps; the poller starts, is answered or fails, applies
block by block and ends; the WebSocket delivers in order and breaks; a subgraph answer describes
some past block; seeders and the loading of discovered pools check and insert in
two steps. A discovery run is what it lists in the end: its factories may
fail in batches, so any set (`Listings`).

`missed` is a history variable: the reason why the last write of a pool, or the last
time it was passed by, left it short of its state: "started" (read before the
first block number), "unpolled" (its range failed or was capped, or the pool was
cached after it was asked for), "dropped" (with the connection), "late" (an older answer over
newer data), "misread", "position" (a Mint or Burn).

Left out: the tick table (`subgraph::store_tick_data`), which Mint and Burn
events change and which nothing in `PoolSnapshot` depends on; the age of a
snapshot (stale ones are filtered when read) and its block label; the
set of hot pools, which nothing ever drains.

### CompetitionTracker

A request is an auction and a copy number, since the driver sends some
auctions twice. `Solve` spawns the two tasks, `Record` and `Enqueue` run them
in any order, `Drain` takes the due lookups (`Due(n)`: which of the first n
entries are old enough), `Ask` and the five answers process the batch one by
one, `Push` is the second of the two writes (`Won` is its row in the database),
`Restart` loses memory and reloads the database in the order of the rows
(`Place`), or logs that it cannot read it and keeps no results. The API is external: from `Settle(a)` on it
knows the competition of auction a. `fate` records why a request has neither
lookup nor result.

### PhaseOne, DirectRouting, CowMatching, Assembler

The strategies are pure functions of an auction, so they are operators; the
variables of `PhaseOne` are `cow_matches` and `all_candidates`, and its actions
the three strategies in their order and the final filter, ranking and cut. Its
behaviours are those of a request whose deadline falls after phase 1; later
phases only add candidates. `Assembled` is a set, because the price loop walks
a `HashMap` whose order is different in every run.

Amounts are naturals with a largest value (`MaxAmount` stands for
`u128::MAX`), and a checked multiplication that fails drops the route or match.
Abstractions: token addresses are compared as if lower case everywhere, as the
driver's are; reference prices are integers, and 0 when missing; a pool is
constant-product, weighted or concentrated (the service registers no Curve or
Balancer pool with its direct solver, so a weighted pool is quoted as a
constant product), and the output of a tick pool is a parameter; interactions,
approvals and internalisation are left out, as is the protocol fee bonus (off
by default). uids are numbers in the order of their text.

The sorts, filters and sums of the code are those of `Listing`, by ranks: the
k-th element of a sorted sequence has k - 1 elements before it. A stable sort
compares places as well. `IsAuction` is what the driver sends, with orders that
sell one token for another under distinct uids.

`AtLimit` compares amounts rounded down, as the code does. The limits of buy
orders are not stated: `direct.rs` takes their executed amount as what is sold,
`ebbo.rs` as what is bought.

### Routing, GraphSearch and their operators

`GraphSearch` holds the locals of `find_paths`, `yen_k_shortest` and
`dijkstra_shortest`: the graph, the two ends, the paths found, the candidates,
the hop at which the search deviates, the heap and the visited weights. `Step`
pops one partial path or takes one deviation; paths of equal weight may be
popped in any order. `Routing` adds the auction, the stage, the orders that
wait, what was routed and the solutions: `Hop` is phase 2, `Search` starts the
paths of the next order, `Settle` turns them into a split or a route,
`OutOfTime` is the deadline between two orders, `Publish` builds the solution of
the stage and `Fallback` is the last resort of an empty hand.

Two-hop choice, the splits (marginal rates, shares by bisection, dust, the
golden section over two pools) and prices are operators on amounts. The shares of
a split are scaled as `f64` does it: conversion, division and product are each
rounded to a significand of `Mantissa` values (2^53 in the code), so that the
shares but the last may exceed the order, the last is cut at nothing, and more
than the order is sold. Other floats are integers at a named scale (`RateScale`, `FracScale`), a weight is an integer
logarithm (`NegLog`), and the output of a tick pool is a parameter, as in
`PhaseOne`. The gate that skips phases 3 and 4 is in `SolvePipeline`.

A split skips a leg that yields nothing, and the code forgets its share; the
model keeps it as `unsold`, so that `SplitsFill` can say where every atom of the
order went. A leg that cannot be quoted ends the search of `find_split`
(`Aborts`), as its `?` does, whatever pairs were already better. `ReservesAt` is the chain: what the pools hold after each call of
a solution, paid by their formula (`Pays`) in unbounded numbers.

### Registry and the AMM formulas

`pools` and `index` are the fields of the registry; `script` is what the caller
asks for and `todo` what is left of it. `Ask` starts an operation (a discovery
of one pair, a list of loads and fetches, a refresh), `Load` reads
one configured pool, `Miss` and `Fetch` ask a factory and the pool it names,
`Sync` refreshes one pool. A step reads one pool: late calls of it see the next
block, and at most `MaxFaults` calls of a behaviour fail or do not decode, so a
pool may hold a mixture of two blocks. The registry is `&mut`, so operations do
not interleave with one another.

Each quote is translated with its rounding, fee and early returns. Where the
code iterates on floats (the invariants of Curve, Balancer and Wombat) the
operator is the root the iteration converges to: `curve.rs` may stop a token short
of it (186, 226), `camelot_v2.rs` an atom (335), `wombat.rs` at a tolerance of 1e-12, and
`wombat.rs:259-268` scales tokens of differing decimals first; the runs say nothing of that last
step. Balancer iterates on integers and is iterated, with its checked
products and at most `MaxRounds` rounds. `StableOut` is 0 where `camelot_v2.rs`
has none. Tick math is a table
(`SqrtAt`). Ticks are read in two multicalls, words and then what they name
(`NetAt`), between which a block may pass; of one multicall, all calls succeed or
none. GMX markets are fetched and added by the caller (the loader at
`registry.rs:408` stands in a comment), so a registry with markets is more than the code builds by itself.
Word sizes are the constants `U128`, `Q`, `Bps`, `Ppm`.

### Aggregators

One task, so the order of events is fixed but for the time they take: time jumps
from one event to the next. `Begin` builds the clients for an auction, none when
`AGG_ENABLED` is false (or `SkipPhase`), `TakeOrder` and `SkipOrder` choose the order; in its turn a
provider waits for its limiter and then `Request`s, or its budget is
`Exhausted`; the turn ends with `Silent`, `Refusal`, `Answer`, or after a
second request (`Build`). `Picks` are the orders the phase chooses, by falling
value. `Weigh` takes the best quote into the solution,
`Finish` ends the phase and `Expire` is the deadline that drops it with all
that it has found.

### Monitoring

A handler is four steps, `Received`, `Stamped`, `Windowed` and `Classified`,
one for each atomic it changes, and `Insert` writes its row at any later time,
perhaps in place of the row of an earlier request for the same auction, or
fails. The task is `Check` (the alarms, and the decision to close a window),
`TakeWindow` and `StoreWindow`; `Alert` is a spawned alert task that takes the
lock of the suppression table. `Minute` lets time pass when the task and the
alerts of the minute are done. `Crash` loses all memory, `Start` and
`Bootstrap` bring it back from the database, or from nothing when it cannot be
read (then silence goes unreported until the first auction, as after any first
start). The histories `closed`, `lost`, `replaced`, `unread` and
`fired` say what the properties compare with.

Left out: the statistics of durations, scores and phases, and the two alarms
that compare other counters in the same way.

## 3. Runs

Every property of a passing run has a mutant (in the module, marked as one)
that a plausible slip in the mapped code would give, and that TLC refutes.

| Run | Shows |
|---|---|
| `pipeline` | best kept, returned and named; fallback alone; overrun bounded; with the variable set the outer timeout never fires; every request answered; `AnytimeSolver` implemented |
| `route` | served is recorded; the attribution funnel; every request answered though the node may never be |
| `route_stale` (violation) | pools of block 1 are scored fresh for an auction of block 12: staleness does not lower the confidence |
| `pool_cache` | a pool handed to the solver that is not up to date as of the poller has a known reason; the poller never stops |
| `pool_cache_events` (violation) | failed or capped ranges lose changes |
| `competition` | one lookup per request; results know what the database knows, unless it could not be read; settlements kept; every queued lookup ends |
| `phase_one` | disjoint matches settle exactly; gas in a price never costs a lone order its limit; only overlapping matches trade an order twice; the answer keeps the reference prices and the ranking |
| `phase_one_limits` (violation) | an answered order may be paid less than its limit |
| `routing` | found paths walk the graph from sale to purchase; where pools are not parallel every simple path is found when fewer than the cap are; splits sell the whole order and no more than rounding adds; the calls of a solution deliver; after the last pass an edge is loose exactly when there is an arbitrage, and the tokens reported are those of one; every search ends |
| `markets` | a pair finds its pools; no round trip gains; no quote exceeds the holdings; what is asked for an amount buys it |
| `aggregators` | each order is done with in a second per provider, so none eats the time of the others; every provider asked gets its request out in its turn; trades apart from the others keep their limits |
| `monitoring` | windows and what is open add up to what was received; a restart forgets only rows not written, replaced or unreadable; silence is reported; alerts are not repeated |

### Bounds, and why they are enough

- `pipeline`: real deadlines in seconds; computations of 0, 5 or 11 s, so that
  each deadline is met, passed between two orders and passed before a phase;
  2 orders (a loop is cut off after none, one or both), scores 0..2 (worse,
  equal, better), one candidate filtered. `SkipAfter` and `SmallAuction` are
  scaled to these sizes so that both branches of the gate occur.
- `route`: two requests, enough for every counter and the tracker to be moved
  between the steps of the other; blocks 11 and 12; solving takes 0 or 20 s and the
  simulation 3 s, so that all ranges of the remaining time occur; one outcome
  of each kind the handler tells apart. `route_stale`: one request and blocks 1
  and 12, more than `BLOCK_AGE_STALE` apart.
- `pool_cache`: one pool, created as V2 or V3 (`Births`), three blocks and ranges of one block: skipping needs a
  gap of two blocks, which a failed start-up refresh leaves; pools do not
  influence each other except through the request they share, and
  `LiquidityProofs` has the invariants for any number. `pool_cache_events` has
  four blocks, so that a range can also be lost after a successful poll.
- `competition`: two auctions and two requests in all, which may be copies of one
  auction; caps of zero (the code lets one more in), so that eviction, trimming
  and the history limit all happen; two crashes, after each of which the database
  may not be readable. No symmetry, because a
  liveness property is checked.
- `phase_one`: one to three orders out of ten templates over three tokens, in
  every order, and four out of six templates over four tokens; two pool lists
  with product, weighted and concentrated pools; three price maps, one of them
  without a price for one token. Reserves, amounts and gas are scaled down together (`Unit` is 1, the fee base 100), so
  that price impact, fees and gas decide; `MaxAmount` is just below what the
  largest order needs in the larger pool. All of these occur: partial fills,
  overflow, more routes than solutions, matches that share a token, an order in
  two matches, a match that a pool beats, combined candidates, rejections by
  the reference price, and price maps that depend on the order of the loop.
- `routing`: fifteen auctions of one or two orders and up to six
  pools over four tokens: in balance, with rates far from one
  (negative weights), two pools of one pair at different rates (alone, and behind
  another pool), parallel, all
  direct, with shares that float rounding oversells (a significand of 16 values, so
  that amounts of two digits round), with a pool of three tokens, in a line and too shallow to be an edge.
  Paths of up to four hops, at most ten, as in the code. Every stage, cut and
  fallback occurs.
- `markets`: one pool of each kind over three tokens, discovered, loaded and
  refreshed twice while up to two blocks arrive and one call goes wrong, quoted
  with six amounts from one atom to more than most reserves. Reserves are tens
  of atoms and the word sizes scaled with them, so that rounding decides. The
  iteration of Balancer has 16 rounds (256 in the code).
- `aggregators`: auctions of three orders, two providers with keys or the five
  that need none; a tick is 250 ms, a turn four ticks; 12, 14 or 60 ticks are
  left, so that phases are dropped early, late and never; answers take 0 or
  2 ticks, a budget of one request an hour; the largest amount is such that
  `mul_div` falls back in some trades.
- `monitoring`: two handlers (symmetric), two requests, seven minutes with all
  periods at two minutes, so that windows close under a handler, alerts are
  muted and free again, and two crashes fall between any two steps.

### Fairness

- `SolvePipeline`: computations end and timers fire. The aggregators' answer
  is not fair: the code relies on its timeouts, and so does `Answered`.
- `SolveRoute`: the runtime does not idle while a request can go on. The
  failure of a simulation is fair (its client has a timeout of 3 s), the
  node's answer is not.
- `PoolCache`: the indexer's task keeps running and its requests end. Mining,
  the WebSocket, the subgraph, discovery and the seeders are not fair.
- `Routing`: the search takes its next step (`WF(Step)`): a computation.
- `CompetitionTracker`: time passes, spawned queueing tasks run, the poll task
  keeps running (its client has a timeout). The API need not settle anything.

Deadlock is checked in `pipeline`, where `Done` is the only final step, and in
the cache and tracker, which always can go on. `SolveRoute` stops when all
requests are answered and the chain has reached its bound; `PhaseOne` and
`Routing` stop with their answer, `Registry` and `Aggregators` with the last
operation and auction, `Monitoring` at its bound of time. `PhaseOne`,
`Registry`, `Aggregators` and `Monitoring` have no fairness and no liveness
property: the first two are sequences of operations, and the promises of the
other two are bounds on time, which are safety properties.

## 4. Theorems

All theorems hold for every value of the constants that satisfies the named
assumptions (`PipelineAssumption`, `OutcomeAssumption`, `RouteAssumption`,
`CacheAssumption`, `TrackerAssumption`, `RoutingAssumption`, `CowAssumption`,
`AssemblerAssumption`, `GasAssumption`, `PhaseOneAssumption`,
`AuctionsAssumption`, `GraphSearchAssumption`, `TokenGraphAssumption`,
`SplitAssumption`, `FloatAssumption`, `TwoHopAssumption`, `LimitsAssumption`, `AggregatorsAssumption`,
`OrdersAssumption`, `MonitoringAssumption`); none limits sizes beyond finiteness
of the requests and the handlers. Two say more than the type of a constant:
`GasAssumption` compares the two tables of gas estimates in `assembler.rs` and
`gas/mod.rs`, whose values satisfy it today, and `AuctionsAssumption` says that
an auction is one (`IsAuction`): in `PhaseOne` what the driver sends, in `Routing`
that pools and orders are lists, an order sells one token for another, a pool has
a key and a reserve per token, amounts, prices and gas are unsigned, a pool with ticks
answers a number for the orders that it can fill, and the set from which TLC draws
edges holds those of the pools. `TwoHopAssumption` says that a bridge is a token. Each proof module states the type
invariant of its machine as `TypeOK` and proves it; the runs check what is
deeper.

- **SolvePipelineProofs.** The properties of `pipeline` are not inductive:
  `IInv` adds what a location knows of the clock (`ClockInv`: after a check the
  cutoff has not passed, and the sub-timeout ends before it), which phases are
  logged and which candidates wait to be (`LoggedInv`), and what an entry of
  `phase_scores` means (`ScoresInv`). A step logs one phase or is quiet
  (`StepLogs`), which splits the preservation of each part in two cases.
  Proved: type correctness, `PreservedWhenEnvSet`, `OverrunBounded`,
  `BestSoFar`, `BestReturned`, `FallbackAlone`, `ImprovedAfterPredecessor`, and
  `Refinement`: initial states map to initial states of `AnytimeSolver`, and a
  step to `Improve`, `Answer` or a stutter. The bound on an answer's score in
  `Answer` is where `BestSoFar` and `FallbackAlone` are needed.
- **SolveRouteProofs.** `IInv` adds, per request, what its program counter says
  of the rest (`Shape`), that the tracker is never behind an auction that
  arrived (`Tracked`), and for each counter the set of requests it has counted
  (`Counters`). Nested sets give `Funnel`. `Tracked` bounds the
  block age that the score is told by one: `StalenessUnseen`, for every threshold, is why
  `route_stale` fails. Also proved: type correctness and
  `ServedAndRecorded`.
- **LiquidityProofs**, the pool cache: `IInv` is the types, the order of a poll's
  block numbers (`PollOrder`) and `LagExplained`. Each write either makes a
  pool right as of the poller's progress, or leaves a reason in `missed` (`VerdictType`,
  `SettleIs`), or, from the WebSocket, leaves later events to be delivered (`LagStep`).
- **LiquidityProofs**, the registry: `RegistryInv` is inductive. Every pool lists
  its tokens once (`Stocked`), the index has each pool under the pairs of its
  tokens and under nothing else (`Indexed`), and the jobs that are left may be
  asked for and name pools that exist (`Busy`). It needs what a call can be
  answered with: `ReplyReads` says that a call made once is read as the value of
  some block, an error or an answer that does not decode, so two tokens of a
  contract that both decode differ (`ReadApart`). `IndexAnswers` follows
  (`KeysOrdered`: a pair is a key of a pool in one order only). `AllCounted`, that
  the reserves and fees of a pool are natural numbers after any mixture of
  blocks and failures, is preserved on top of it, and then the arithmetic is per
  kind, for all numbers: `ProductPays`, `ProductLoses` and `ProductBuys` for a
  product of two reserves with its fee and roundings, `BinLoses` and `BinBuys` for a
  Trader Joe bin, `MarketBuys` for a GMX market. `DemandBuys` is proved as it is
  run. `ReservesHold` is `PaysFromReserves` and `RoundTripLoses` for the kinds of
  two reserves, for every amount.
  The assumption on the constants (`RegistryAssumption`, evaluated by TLC) is what
  contracts and configurations are: token addresses of a contract differ and do
  not change from block to block, reserves and fees are unsigned, the price of a
  bin is a fraction of positive numbers, a configured list names a token once,
  and the GMX fee is below 100 %.
- **CompetitionProofs.** `OneLookup` counts a request in the queue, the batch and
  the spawned tasks, so the proofs begin with what appending, dropping, splitting
  and filtering do to the number of times an entry occurs in a sequence
  (`Times`). `ReplayInResults` is carried through the two writes, the trimming of
  the results and the restart: a reload, whose order is a bijection of
  ranks, or a failed read. `Decided`, that an auction has one row and a row with a winner belongs to
  an auction that was settled, gives the action property `SettlementKept`. Also
  proved: type
  correctness.
- **PhaseOneProofs.** First the operators. `InOrder` is sorted and loses nothing
  for any strict total order (ranks are a bijection), `Keeping` and `Filled` keep
  order, `Total` is additive: inductions over a length, done by the least
  counterexample (`LeastNat`). Then the strategies: a route passed the limit and
  the profit filter (`SolveOrderFacts`, `ChosenList`), the double rounding of
  `try_match` cancels so that a match executes both orders in full
  (`MatchedInFull`, `MatchedAtLimit`), and gas that a price embeds is bounded by
  what the filter asked for (`GasNeverBreaksLimit`). `PhaseInv` is inductive: an
  auction is one, the matches are matches of it, each candidate is `Sound` (built
  of matches, of routes, or of both with disjoint orders), and the answer is the
  ranking of the candidates. `CowsSettle`, `LoneTradesAtLimit`,
  `TwiceOnlyByMatches` and `EbboHolds` follow from `Sound`. For `BestAnswered`
  the comparison of solutions, by score and then by the text of their key, is
  shown to be a strict weak order (`KeyOrder`, `RankOrder`).
- **RoutingProofs.** `SearchInv` says what the heap holds: chains of edges from the
  spur that come to no token twice, to none of the root and to the destination
  only at their end; so root and deviation together are a walk, which is
  `PathsWalk`, of one search and inside `Routing`, where one follows another.
  `PlainPathsFound` needs two more invariants. `Followed`: whatever order the
  heap is popped in and whatever `best_dist` prunes, a shortest open way to the
  destination is followed hop by hop, so that a heap that ran empty leaves no way
  within the limit (`EmptyHeap`); weights may be negative. `Explored`: every hop
  of every path found was deviated at, and then another path or a candidate
  leaves it there, or nothing did (`Deviated`). A simple path that was not found
  would leave the found ones at a last hop (`SomewhereLeft`), and its rest would
  be such a way (`RestIsDetour`); that step is where parallel pools are excluded,
  as paths are compared by their tokens there.
  The passes of the arbitrage detection start at distance 0 everywhere and relax
  the edges in the order of a list. After k passes a token is no further than any way of k edges weighs (`Within`),
  and every distance is the weight of some way that ends there (`AllReached`). A
  way of more edges than there are tokens meets one twice; without an arbitrage
  cutting the round out does not make it longer (`Shortened`, `ShortWay`, by the
  pigeonhole principle), so the last pass leaves no edge loose. With one, the
  differences along the round would add up to zero and to less (`TelescopedBelow`).
  That is the first half of `CyclesDetected`, in both directions. For the second,
  that what is reported is an arbitrage, `Traced`
  says of every pass that the edge a token was last reached by ends there, that
  the token is at least as far as the start of that edge and the edge together,
  and that a circle of such edges weighs less than nothing, since the relaxation
  that closed it took a loose edge; the way back is periodic (`Circling`), so a
  token met twice lies on such a circle.
  Both are carried into the machine by `GraphBuilt`.
  `SplitsFill` and `CallsDeliver` follow from one invariant, `RoutingInv`: only the
  stages that search have orders waiting (`QueueInv`), what a stage has routed are
  splits that fill or routes along paths of the graph (`RoutedInv`), and every
  call of a route or a solution was `Quoted`: its pool pays for it, in the
  state the auction shows, at least what it was quoted. That is shown source by
  source: hop by hop along a path that a search found (`PathQuoted`; here
  `SearchInv` is needed), for the legs of a split (`SplitGood`), over a bridge
  (`QuoteFair`; a pool of two tokens pays out the other one, `OtherIs`) and for the
  fallback's direct routes (`DirectQuoted`; a buy order asks for less than its input
  would buy). A sort, a filter or a concatenation adds no call
  (`FallingAmong`, `KeptAmong`, `ConcatAmong`). Then `Delivers`: of calls that take
  no direction through a pool twice, at most one came before another in its pool,
  the other way; it left less of what the other brings in and more of what it
  takes out (`PaysBack`), and a product of two reserves pays no less for that
  (`PaysMore`). For the sums: a float is within half its
  spacing of the number (`FloatNear`), so five roundings leave a share at most so
  much too large (`PartBelow`, `ScaleBelow`) and all of them together 6/`Mantissa` of the
  order (`ScaledTotal`); the last share makes up for what is missing; dust is moved and not lost (`DustedTotal`),
  legs kept and shares left out are the whole (`KeptTotal`), and golden section
  stays between nothing and everything (`GoldenShare`).
- **AggregatorsProofs.** `TurnsReach` holds because a limiter's mark is never ahead
  of the clock, not even after a wait that a turn cut short, and no plan allows
  less than one request in a turn. `QuotingBounded` needs `Punctual`: the turn of provider k began
  within k - 1 timeouts of the order's, and the clock is within one timeout of
  the turn's beginning, whatever the limiter, a refusal, a second endpoint or a
  second request take. `RatesApart` follows from its own preservation
  (`PricedApart`) once amounts are typed: adding a trade writes the prices of its two
  tokens only, which are not those of a trade apart from it.
- **MonitoringProofs.** The inductive invariant of the counters says, of each
  place a handler and the task can be at, which counters have the request and
  which do not (`CountInv`, `Fresh`, `TakenOnce`, `RowsAddUp`, rows replaced or unreadable included);
  `WindowsAddUp` and `RestartKeepsCounts` follow. Alerts need that a key is
  muted from the minute it last fired (`MutedSince`), that the task wakes every
  minute (`Punctual`), and that a check of a silent minute leaves an alert spawned,
  sent or muted (`Watched`), which gives `SilenceReported`.

Only model-checked:

- Liveness (`Answered`, `Responds`, `PollsOn`, `LookupsEnd`, `SearchesEnd`): the
  prover has no rules for fairness or `ENABLED`.
- `RoundTripLoses` and `PaysFromReserves` of `MCRegistry` for the other kinds: what
  a walk over ticks, a sum over balances or a root of an invariant (Uniswap V3,
  Curve, Balancer, Wombat) computes needs induction over data.

## 5. Findings

1. The event poll counts failed and capped ranges as polled (`pool_cache_events`).
2. Limits are checked before a solution has its prices: combining a match with
   routed trades replaces the match's prices, matches that share a token keep
   the first one's price, and orders of one pair are paid its average, so an
   answered order can be paid less than its limit (`phase_one_limits`).
3. The freshness of a solution is judged by the block tracker, which the handler
   has just set to the auction's block, in place of the block the pools were
   refreshed at (`routes/solve.rs:279`): pools eleven blocks old are scored fresh
   (`route_stale`).

Statements of the code that TLC refutes and that have no run of their own. The
definitions are in the modules; they fail in place of the properties of the
configuration named (an INVARIANT unless marked).

| Definition | Where | What fails |
|---|---|---|
| `SolutionsPreserved` | `MCSolvePipeline.cfg` | with `MAX_SOLVE_TIME_MS` unset the route's default of 20 s cuts off a solver that plans for 25 s and drops the solutions of phases 1-4 |
| `TimeoutIsNoRevert` | `MCSolveRoute.cfg` | a simulation that times out is held as "simulation_reverted", while the comments promise `simulated: false` |
| `PricesPayOutput` | `MCRouting.cfg` | the routers write prices the other way round than `pricing.rs:8-12` explains them: `prices[sell]` is the amount sold (`router.rs:341-344`, `split.rs:693-696` and the graph solution), so a trade is not paid its output at its own prices |
| `SplitsExact` | `MCRouting.cfg` | "Normalize allocations to sum to total_amount exactly" (`split.rs:368`): scaled as floats, the shares but the last may exceed the order. With doubles an order of 24089154938208861744 whose volumes are 2175216119781798973, 21913938818427658624 and 0 sells 1232 atoms more |
| `AskedAtOnce` | `MCAggregators.cfg` | providers are asked "in parallel" (`aggregator/mod.rs:343`, `agg_solver.rs:32`): they are asked one after another, a second each (363-367) |
| `WithinBudget` | `MCAggregators.cfg` | 5 s each, "worst case is 10s — within our budget" (`aggregator/mod.rs:345`, 353-355): three orders take three times a second per provider, the sub-timeout of phase 5 fires and drops the quotes already found |
| `SecondsApart` | `MCAggregators.cfg` | "at most one request per `interval`" (`aggregator/mod.rs:235`): the second request of a client (`odos.rs`, ParaSwap, KyberSwap) does not wait for the limiter |
| `SeedKeepsReserves` (a PROPERTY) | `MCPoolCache.cfg`, two seeders, no V3 pool | a second seeding overwrites the reserves it checked for |
| `TicksComplete` | `MCRegistry.cfg` | a negative net liquidity is a word of 256 bits that does not parse as 128 (`uniswap_v3.rs:203`): ticks where liquidity ends are dropped |
| `RatesKept` | `MCAggregators.cfg` | a later order overwrites the price of a shared token (`agg_solver.rs:187`) |
| `ArbitrageReported` | `MCRouting.cfg` | the way back from a loose edge gives up at a token that no predecessor leads to (`graph.rs:572`): the arbitrage of two pools of one pair at different rates may not be reported, although the comment calls a negative cycle one (`graph.rs:485-490`); what is reported is one. Only a test calls the function |

Seen while modelling, without a definition:

- Paths may pass through the source again (`graph.rs:753-760`), are not sorted
  when weights are negative although `graph.rs:271` says so, and parallel pools
  make the search miss paths (`graph.rs:743-751`): `PlainPathsFound` is stated, and
  proved, for graphs without parallel edges. Routes are simulated on the same reserves, so
  the promise of `CallsDeliver` excludes calls that meet in one pool.
- A product pool of three tokens pays out the other token that its `HashMap`
  yields first (`router.rs:63`). Weighted and stable pools are priced as constant
  products, because nothing registers Curve or Balancer pools
  (`direct.rs:21-27`). Splits weigh their surplus in the output token of the
  first leg. Net surplus mixes token atoms and wei.
- The input a buy order needs is never compared with what it is willing to sell
  (`direct.rs:268`).
- `PhaseDecision.improved` compares with 0 after a skipped phase;
  `winning_strategy` is not recomputed after the EBBO filter (`mod.rs:1083`); the
  sub-timeout of phase 5 drops the trades already found (`mod.rs:661`).
- A quote of a price only makes a trade without an interaction
  (`agg_solver.rs:207`). The 20 s budget of `agg_solver.rs` is out of reach under the cap
  of 10 s; limiters are rebuilt with the
  clients for every auction, so a daily budget never fills (`odos.rs:88`).
- The input that a Trader Joe bin asks for (`trader_joe.rs:402-404`) may buy less
  than what was wanted, by the quote's fee being taken off in whole atoms:
  `DemandBuys` adds two atoms to it, with which it suffices wherever the fee is at most half. No
  other kind needs them.
- DODO's two quotes each take the pool as balanced, so a round trip can gain; it
  is left out of `RoundTripLoses`.
- A quiet pool leaves the liquidity ten minutes after its last event
  (`pool_indexer.rs:98`), hot pools are marked and never taken (160), and the layout
  of a Mint event in a comment (878-879) is not the one parsed (884-889).
- A discovery whose factories all fail overwrites the pool file with an empty one
  (`pool_discovery.rs:230-255`); every V3 pool found has fee tier 3000 (92).
- Retries of a lookup are pushed past the cap of the queue and keep the time of
  their round (`competition.rs:401`), so they may follow at once.
- `checked_mul` drops matches whose products exceed 128 bits
  (`cow_matching.rs:113`); orders whose limit prices overlap but whose sizes
  differ are never matched (`MatchedInFull`), although the comments of
  `try_match` speak of partial fills.
- Internalisation compares each call with the whole buffer, so two calls may be
  marked against the same balance (`internalization.rs:49-67`).
- `PolicyRejected` is never recorded; attribution does not know the strategy
  "aggregator".

## 6. Not modelled

- *Not on the live path*: the parallel solver, JIT orders and RFQ, the graph
  cache, the Bebop price book (filled, never read), `find_cow_pairs`,
  `compute_cow_score`, `record_win` of the revenue tracker, `record_realized` and
  `record_adjustment` of accounting: nothing calls them. The gas oracle replaces a price
  that nothing reads.
- *No state*: ABI encoding of settlements and interactions, the data models,
  configuration, HTTP routes and the dashboard, the RPC client, the tools and
  benchmarks.
- *Tick data of the indexer*: every Mint and Burn event changes the table, but how
  its words are laid out is described twice and differently; the registry's
  own ticks are in `ConcentratedPools`. That these events do not change a pool's
  liquidity is modelled.
- *Ages of snapshots and hot pools*: stale snapshots are filtered when read; the
  set of hot pools is never read.
- *Statistics and views*: durations, scores, phase counters, reports, spot
  prices, the expected value and the submission mode: stored, logged or shown.
- *Floating point*: scores that are only logged are left out; rates, shares and
  weights that decide are integers at a scale, so properties about their last
  digit are not claimed.
