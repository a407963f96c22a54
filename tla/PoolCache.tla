----------------------------- MODULE PoolCache -----------------------------
(***************************************************************************)
(* The pool cache of pool_indexer.rs and the tasks that write it without   *)
(* coordinating: the event poller, the start-up refresh, the WebSocket     *)
(* monitor, the subgraph updater, the handlers that seed it, and discovery. *)
(*                                                                         *)
(* The state of a pool is named by the block of its last on-chain change,  *)
(* so two states compare by age; a cached entry is a state and how much of *)
(* it was read.  Every pool exists from block 1 on, whose event says of    *)
(* which kind it is.  The age of an entry, its block label and the tick    *)
(* table of the subgraph store are left out.                               *)
(***************************************************************************)
EXTENDS Integers, Sequences

CONSTANTS
    Pools,       \* pool addresses
    Births,      \* events that may create a pool: a Sync or a trade
    Seeders,     \* /solve requests that seed the cache
    MaxRange,    \* longest range of one eth_getLogs (50 blocks)
    MaxBlock     \* bound: length of the chain

ASSUME CacheAssumption ==
    /\ Births \subseteq {"sync", "swap", "below", "wide"}
    /\ MaxRange \in Nat \ {0}
    /\ MaxBlock \in Nat \ {0}

VARIABLES
    chain,       \* the chain: what each block did to each pool
    cache,       \* POOL_CACHE
    startup,     \* how far the start-up and background refreshes have come
    refreshing,  \* pools of the current list they still have to ask
    reply,       \* the answered request: at most one [pool, snap]
    lastPolled,  \* last_polled_block
    poll,        \* the eth_getLogs request in flight or being applied
    socket,      \* next block the WebSocket delivers, 0 while it is down
    checked,     \* what each seeder has found missing and will insert
    loading,     \* a discovered pool found missing that will be inserted
    missed       \* history: why a pool handed to the solver is not up to date

vars == <<chain, cache, startup, refreshing, reply, lastPolled, poll, socket,
          checked, loading, missed>>

-----------------------------------------------------------------------------
\* The event of a V2 pool is a Sync.  A V3 pool has Swaps, of which "below" ends
\* at a negative tick and "wide" at a sqrt price of 2^128 or more, and Mints and
\* Burns around the price, which change its liquidity.
Trades == {"swap", "below", "wide"}
Events == {"quiet", "sync", "position"} \cup Trades
V3Pools == {p \in Pools : chain[1][p] # "sync"}
EventsOf(p) == IF p \in V3Pools THEN Trades \cup {"quiet", "position"}
                                ELSE {"quiet", "sync"}

\* What is read of a state: all of it, some of it, or no reserves or price.
Snapshots == [state : 0..MaxBlock, seen : {"all", "part", "none"}]
Empty == [state |-> 0, seen |-> "none"]
Blocks == 1..MaxBlock
head == Len(chain)

\* The blocks of lo..hi that changed p, and p's state as of block b.
ChangesOf(p, lo, hi) ==
    {k \in Blocks : lo <= k /\ k <= hi /\ chain[k][p] # "quiet"}
IsState(v, p, b) ==
    /\ v \in ChangesOf(p, 1, b)
    /\ \A k \in ChangesOf(p, 1, b) : k <= v

\* The trade that set p's price as of block b.
PriceOf(p, b) ==
    LET v == CHOOSE k \in ChangesOf(p, 1, b) :
                 /\ chain[k][p] # "position"
                 /\ \A j \in k + 1 .. b : chain[j][p] \in {"quiet", "position"}
    IN  chain[v][p]

Cached == DOMAIN cache

\* The cache after the pools of ps are inserted without reserves.
Seeded(ps) ==
    [p \in Cached \cup ps |-> IF p \in ps THEN Empty ELSE cache[p]]

\* What a log of block b makes of an entry.  A tick below 0 does not parse and
\* is read as 0; a sqrt price of 2^128 does not either, and the log is dropped;
\* a Mint or Burn changes no liquidity.
Heard(old, e, b) ==
    CASE e \in {"sync", "swap"} -> [state |-> b, seen |-> "all"]
      [] e = "below"            -> [state |-> b, seen |-> "part"]
      [] OTHER                  -> old

\* The cache after the logs of block b are applied to the pools of ps.
Heeded(ps, b) ==
    [p \in Cached |-> IF p \in ps THEN Heard(cache[p], chain[b][p], b)
                                 ELSE cache[p]]

NoPoll == [pc |-> "sleep", next |-> 0, to |-> 0, known |-> {}]

\* The pool is handed to the solver.
Holding(p) == p \in Cached /\ cache[p].seen # "none"

\* The last block the poller has dealt with, rightly or wrongly.
Progress == IF poll.pc = "sleep" THEN lastPolled ELSE poll.next - 1

\* A snapshot of p is right if it has all of p's state as of block b.
Right(snap, p, b) == snap.seen = "all" /\ ChangesOf(p, snap.state + 1, b) = {}

\* What can leave a pool behind; the latest reason is kept.  Updates up to block
\* b have passed the pools of ps by, unless their entries have them already.
Causes == {"started", "unpolled", "dropped", "late", "misread", "position"}
Blame(ps, b, cause) ==
    missed' = [p \in Pools |->
                 IF p \in ps /\ Holding(p) /\ ~Right(cache[p], p, b)
                 THEN {cause} ELSE missed[p]]

\* p was written or left as it is: what it missed before is made good if it is
\* right as of block b, and cause is to blame if not.
Verdict(p, b, cause) ==
    IF Holding(p)' /\ ~Right(cache'[p], p, b) THEN {cause} ELSE {}
Settle(ps, cause) ==
    missed' = [p \in Pools |-> IF p \in ps THEN Verdict(p, Progress, cause)
                                           ELSE missed[p]]

\* Events of p the open connection has not delivered yet.
Undelivered(p) == socket # 0 /\ ChangesOf(p, socket, head) # {}

\* Why a log leaves an entry wrong.
Fault(e) == IF e = "position" THEN "position" ELSE "misread"

Init ==
    /\ \E born \in [Pools -> Births] : chain = <<born>>
    /\ \E known \in SUBSET Pools : cache = [p \in known |-> Empty]
    /\ startup = "start"
    /\ refreshing = {}
    /\ reply = {}
    /\ lastPolled = 0
    /\ poll = NoPoll
    /\ socket = 0
    /\ checked = [s \in Seeders |-> {}]
    /\ loading = {}
    /\ missed = [p \in Pools |-> {}]

-----------------------------------------------------------------------------
\* The chain grows by a block.
Mine ==
    /\ head < MaxBlock
    /\ \E block \in [Pools -> Events] :
          /\ \A p \in Pools : block[p] \in EventsOf(p)
          /\ chain' = Append(chain, block)
    /\ UNCHANGED <<cache, startup, refreshing, reply, lastPolled, poll, socket,
                   checked, missed, loading>>

\* run(): with the first block number comes a quick refresh of the first V2
\* pools of the map; without it the loop starts from block 0.
BootBlock ==
    /\ startup = "start"
    /\ \/ /\ startup' = "quickV2"
          /\ lastPolled' = head
          /\ \E first \in SUBSET (Cached \ V3Pools) : refreshing' = first
          /\ Blame(Cached, head, "started")
       \/ /\ startup' = "looping"
          /\ UNCHANGED <<lastPolled, refreshing, missed>>
    /\ UNCHANGED <<chain, cache, reply, poll, socket, checked, loading>>

\* The list of one stage is done; that of the next is made.
Stage(this, next, pools) ==
    /\ startup = this /\ refreshing = {} /\ reply = {}
    /\ startup' = next
    /\ refreshing' \in pools
    /\ UNCHANGED <<chain, cache, reply, lastPolled, poll, socket,
                   checked, missed, loading>>

\* The first V3 pools follow.  Then the loop starts, and beside it a task that
\* asks for the V2 pools still empty and, after these, for the V3 pools.
Looping == {"looping", "restV2", "restV3"}
Unread(ps) == {p \in ps : cache[p] = Empty}
QuickV3 == Stage("quickV2", "quickV3", SUBSET (Cached \cap V3Pools))
Spawn == Stage("quickV3", "looping", {{}})
RestV2 == Stage("looping", "restV2", {Unread(Cached \ V3Pools)})
RestV3 == Stage("restV2", "restV3", {Unread(Cached \cap V3Pools)})

\* refresh_pools, refresh_v3_pools: a node reads the pool's latest state, or the
\* request fails and the pool is left as it is.  A V3 price or tick may not
\* parse, and the liquidity is a call of its own, 0 if it fails.
Readings(p) ==
    CASE p \notin V3Pools -> {"all"}
      [] PriceOf(p, head) = "wide" -> {"none"}
      [] PriceOf(p, head) = "below" -> {"part"}
      [] OTHER -> {"all", "part"}

RefreshRead ==
    /\ reply = {}
    /\ \E p \in refreshing :
          /\ refreshing' = refreshing \ {p}
          /\ \/ reply' = {}
             \/ \E v \in Blocks, r \in Readings(p) :
                  /\ IsState(v, p, head)
                  /\ reply' = {[pool |-> p, snap |-> [state |-> v, seen |-> r]]}
    /\ UNCHANGED <<chain, cache, startup, lastPolled, poll, socket,
                   checked, missed, loading>>

RefreshApply ==
    /\ \E r \in reply :
          /\ cache' = [cache EXCEPT ![r.pool] = r.snap]
          /\ Settle({r.pool}, IF r.snap.seen = "all" THEN "late" ELSE "misread")
    /\ reply' = {}
    /\ UNCHANGED <<chain, startup, refreshing, lastPolled, poll, socket,
                   checked, loading>>

-----------------------------------------------------------------------------
FromPastNext(b) ==  \* mutant: the range starts one block late
    IF b - lastPolled > MaxRange THEN b - MaxRange ELSE lastPolled + 2

\* The first block of the range to query: older ones than MaxRange are skipped.
From(b) ==
    IF b - lastPolled > MaxRange THEN b - MaxRange ELSE lastPolled + 1

\* One round of the loop, with the pools it will look for.  A failed or old
\* block number starts no round.
PollStart ==
    /\ startup \in Looping
    /\ poll.pc = "sleep"
    /\ \E b \in lastPolled + 1 .. head :
          /\ poll' = [pc |-> "asked", next |-> From(b), to |-> b,
                      known |-> Cached]
          /\ Blame({p \in Pools :
                      ChangesOf(p, lastPolled + 1, b - MaxRange - 1) # {}},
                   b - MaxRange - 1, "unpolled")
    /\ UNCHANGED <<chain, cache, startup, refreshing, reply, lastPolled, socket,
                   checked, loading>>

\* Mutant: an error leaves the task for good.
PollFailStops ==
    /\ poll.pc = "asked"
    /\ poll' = [poll EXCEPT !.pc = "stopped"]
    /\ UNCHANGED <<chain, cache, startup, refreshing, reply, lastPolled, socket,
                   checked, missed, loading>>

\* fetch_sync_events fails: no pool is updated, and the range counts as polled.
PollFail ==
    /\ poll.pc = "asked"
    /\ poll' = NoPoll
    /\ lastPolled' = poll.to
    /\ Blame({p \in Pools : ChangesOf(p, poll.next, poll.to) # {}}, poll.to,
             "unpolled")
    /\ UNCHANGED <<chain, cache, startup, refreshing, reply, socket,
                   checked, loading>>

PollAnswer ==
    /\ poll.pc = "asked"
    /\ poll' = [poll EXCEPT !.pc = "apply"]
    /\ UNCHANGED <<chain, cache, startup, refreshing, reply, lastPolled, socket,
                   checked, missed, loading>>

\* The logs of the next block are applied to the pools known when they were
\* asked for.
PollApply ==
    /\ poll.pc = "apply"
    /\ poll.next <= poll.to
    /\ cache' = Heeded(poll.known, poll.next)
    /\ missed' = [p \in Pools |->
          LET e == chain[poll.next][p]
          IN  IF e = "quiet" THEN missed[p]
              ELSE Verdict(p, poll.next,
                           IF p \in poll.known THEN Fault(e) ELSE "unpolled")]
    /\ poll' = [poll EXCEPT !.next = poll.next + 1]
    /\ UNCHANGED <<chain, startup, refreshing, reply, lastPolled, socket,
                   checked, loading>>

PollEnd ==
    /\ poll.pc = "apply"
    /\ poll.next > poll.to
    /\ poll' = NoPoll
    /\ lastPolled' = poll.to
    /\ UNCHANGED <<chain, cache, startup, refreshing, reply, socket,
                   checked, missed, loading>>

-----------------------------------------------------------------------------
\* run_ws_connection: from now on, events of new blocks arrive in order.
Connect ==
    /\ socket = 0
    /\ socket' = head + 1
    /\ UNCHANGED <<chain, cache, startup, refreshing, reply, lastPolled, poll,
                   checked, missed, loading>>

\* process_log_event, for the events of one block.  A pool set back by it has
\* its later events to come, unless these leave the entry as it is.
Deliver ==
    /\ socket # 0
    /\ socket <= head
    /\ socket' = socket + 1
    /\ cache' = Heeded(Cached, socket)
    /\ missed' = [p \in Pools |->
          LET e == chain[socket][p]
          IN  IF e = "quiet" \/ ChangesOf(p, socket + 1, head) # {}
              THEN missed[p] ELSE Verdict(p, Progress, Fault(e))]
    /\ UNCHANGED <<chain, startup, refreshing, reply, lastPolled, poll,
                   checked, loading>>

\* The connection breaks, and with it what was on its way.
Disconnect ==
    /\ socket # 0
    /\ socket' = 0
    /\ Blame({p \in Pools : ChangesOf(p, socket, head) # {}}, Progress,
             "dropped")
    /\ UNCHANGED <<chain, cache, startup, refreshing, reply, lastPolled, poll,
                   checked, loading>>

\* fetch_top_pools, update_pool_cache: an answer of the subgraph describes the
\* chain as of the block it has indexed, which may lag.  It overwrites the pools
\* it lists, none with a price that does not parse, whatever the cache has.
SubgraphApply ==
    /\ \E b \in 1..head :
       \E top \in SUBSET {p \in V3Pools : PriceOf(p, b) # "wide"} :
          /\ top # {}
          /\ cache' \in [Cached \cup top -> Snapshots]
          /\ \A p \in Cached \cup top :
                IF p \in top
                THEN cache'[p].seen = "all" /\ IsState(cache'[p].state, p, b)
                ELSE cache'[p] = cache[p]
          /\ Settle(top, "late")
    /\ UNCHANGED <<chain, startup, refreshing, reply, lastPolled, poll, socket,
                   checked, loading>>

\* seed_from_auction: look a V2 pool up ...
SeedCheck(s) ==
    /\ checked[s] = {}
    /\ \E p \in Pools \ (V3Pools \cup Cached) :
          checked' = [checked EXCEPT ![s] = {p}]
    /\ UNCHANGED <<chain, cache, startup, refreshing, reply, lastPolled, poll,
                   socket, missed, loading>>

\* ... and insert it without reserves, another map access.
SeedInsert(s) ==
    /\ checked[s] # {}
    /\ cache' = Seeded(checked[s])
    /\ checked' = [checked EXCEPT ![s] = {}]
    /\ UNCHANGED <<chain, startup, refreshing, reply, lastPolled, poll, socket,
                   missed, loading>>

-----------------------------------------------------------------------------
(* Discovery, started by main or from the dashboard.                       *)

\* What a run finds, one at a time, and writes to the file it then reads: what
\* the factories list.  A failed batch loses all that its factory has, an entry
\* without an address only itself, and a file not written everything.
Listings == SUBSET Pools

\* load_from_file: a listed pool that the cache lacks ...
LoadCheck ==
    /\ loading = {}
    /\ \E found \in Listings : \E p \in found \ Cached : loading' = {p}
    /\ UNCHANGED <<chain, cache, startup, refreshing, reply, lastPolled, poll,
                   socket, checked, missed>>

\* ... is inserted without reserves, another map access.
LoadInsert ==
    /\ loading # {}
    /\ cache' = Seeded(loading)
    /\ loading' = {}
    /\ UNCHANGED <<chain, startup, refreshing, reply, lastPolled, poll, socket,
                   checked, missed>>

Poller == PollStart \/ PollFail \/ PollAnswer \/ PollApply \/ PollEnd
Startup == BootBlock \/ QuickV3 \/ Spawn \/ RestV2 \/ RestV3
Refresh == Startup \/ RefreshRead \/ RefreshApply
WebSocket == Connect \/ Deliver \/ Disconnect
Seed == \E s \in Seeders : SeedCheck(s) \/ SeedInsert(s)
Discovery == LoadCheck \/ LoadInsert

Next == \/ Mine \/ Poller \/ Refresh \/ WebSocket \/ SubgraphApply \/ Seed
        \/ Discovery

\* The indexer's own task keeps running, and every request of it ends.
Fairness == WF_vars(Poller) /\ WF_vars(Refresh)

Spec == Init /\ [][Next]_vars /\ Fairness
-----------------------------------------------------------------------------
TypeOK ==
    /\ chain \in Seq([Pools -> Events])
    /\ Len(chain) \in Blocks
    /\ Cached \subseteq Pools
    /\ cache \in [Cached -> Snapshots]
    /\ startup \in {"start", "quickV2", "quickV3"} \cup Looping
    /\ refreshing \in SUBSET Cached
    /\ reply \in SUBSET [pool : Cached, snap : Snapshots]
    /\ lastPolled \in 0..head
    /\ poll \in [pc : {"sleep", "asked", "apply"}, next : Nat, to : 0..head,
                 known : SUBSET Cached]
    /\ socket \in 0..head + 1
    /\ checked \in [Seeders -> SUBSET Pools]
    /\ loading \in SUBSET Pools
    /\ missed \in [Pools -> SUBSET Causes]

\* The poller accounts for every block: a pool handed to the solver shows its
\* whole state as of the last polled block, unless an update passed it by or was
\* misread for one of the Causes since, or older events are still to come.
LagExplained ==
    \A p \in Pools :
        Holding(p) /\ ~Right(cache[p], p, Progress)
            => missed[p] # {} \/ Undelivered(p)

\* The comment on the poll loop: it "fetches ALL state changes for ALL V2 and
\* V3 pools since last poll".
AllChangesFetched ==
    \A p \in Pools : "unpolled" \notin missed[p]

\* The comment on the seeding check: "Only seed if not already cached (avoid
\* overwriting fresher data)".
SeedKeepsReserves ==
    [][\A p \in Pools : Holding(p) => Holding(p)']_vars

\* The indexer never stops: once no block is mined any more, the last one is
\* polled for in the end, even after failed requests.
PollsOn == head = MaxBlock ~> lastPolled = MaxBlock
=============================================================================
