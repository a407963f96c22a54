------------------------------ MODULE Registry -------------------------------
(***************************************************************************)
(* The pool registry (liquidity/registry.rs): it discovers pools, indexes  *)
(* them by pair and refreshes them from the chain, one contract call after *)
(* another while blocks arrive and calls fail.                             *)
(*                                                                         *)
(* discover_pools, the loaders and sync_all take &mut self, so their       *)
(* caller runs them one at a time: operations of a list in Scripts.        *)
(* A step of this machine reads one pool: late of its calls see the next   *)
(* block, and at most MaxFaults calls of a behaviour go wrong.             *)
(***************************************************************************)
EXTENDS ProductPools, ConcentratedPools, StablePools, PricedPools

CONSTANTS
    Scripts,        \* what a caller may ask for, in order
    Pairs,          \* address of the pool of a kind and a pair, or Zero
    World,          \* what each contract answers in each block
    Steps,          \* the fee tiers of V3 and the bin steps of Trader Joe, by kind
    FeeOf,          \* the fixed fee of a kind, and the fee a missing answer stands for
    MaxFaults,
    Amounts         \* what quotes are asked for

VARIABLES
    pools,          \* PoolRegistry.pools
    index,          \* PoolRegistry.index: pair -> indices
    script,         \* operations still to run
    todo,           \* what is left of the one that runs
    block,          \* the head of the chain
    faults          \* calls that may still go wrong

registryVars == <<pools, index, script, todo, block, faults>>

-----------------------------------------------------------------------------
(* Pools and pairs.                                                        *)

\* Mutant: only the neighbours of a pool's tokens are indexed.
KeysAdjacent(p) == {<<p.tokens[i], p.tokens[i + 1]>> : i \in 1..Len(p.tokens) - 1}

\* Every pair of a pool's tokens, in their order.
Keys(p) == {<<p.tokens[ij[1]], p.tokens[ij[2]]>> :
               ij \in {q \in (1..Len(p.tokens)) \X (1..Len(p.tokens)) : q[1] < q[2]}}

IndexWith(p, at) ==
    [key \in DOMAIN index \union Keys(p) |->
        (IF key \in DOMAIN index THEN index[key] ELSE <<>>) \o (IF key \in Keys(p) THEN <<at>> ELSE <<>>)]

AddPool(p) ==
    /\ pools' = Append(pools, p)
    /\ index' = IndexWith(p, Len(pools) + 1)

Listed(key) == IF key \in DOMAIN index THEN index[key] ELSE <<>>

PoolsForPair(a, b) == Listed(<<a, b>>) \o Listed(<<b, a>>)

-----------------------------------------------------------------------------
(* Reading the chain.                                                      *)

\* The calls that a step makes, in order: a name, and the index of a token
\* where there is one call per token.
Calls(kind, what, n) ==
    LET scalar(names) == [k \in DOMAIN names |-> <<names[k], 0>>]
        each(names) == FlattenSeq([k \in 1..n |-> [m \in DOMAIN names |-> <<names[m], k>>]])
    IN  CASE kind \in {"v2", "sushi"} ->
               scalar(IF what = "sync" THEN <<"reserves">> ELSE <<"token0", "token1", "reserves">>)
          [] kind = "camelot2" ->
               scalar(IF what = "sync" THEN <<"reserves", "fee01", "fee10">>
                      ELSE <<"token0", "token1", "reserves", "fee01", "fee10", "stable">>)
          [] kind = "v3" ->
               scalar(CASE what = "sync" -> <<"slot", "liquidity">>
                        [] what = "ticks" -> <<"words", "ticks">>
                        [] OTHER -> <<"token0", "token1", "slot", "liquidity">>)
          [] kind = "camelot3" ->
               scalar(IF what = "sync" THEN <<"slot", "liquidity">>
                      ELSE <<"token0", "token1", "slot", "liquidity">>)
          [] kind = "joe" ->
               scalar(IF what = "sync" THEN <<"active", "bin">>
                      ELSE <<"token0", "token1", "active", "factor", "bin">>)
          [] kind = "gmx" ->
               scalar(IF what = "sync" THEN <<"longAmount", "shortAmount">>
                      ELSE <<"market", "long", "short", "longAmount", "shortAmount">>)
          [] kind = "dodo" ->
               scalar(IF what = "sync"
                      THEN <<"baseReserve", "quoteReserve", "baseTarget", "quoteTarget", "i">>
                      ELSE <<"base", "quote", "i", "k", "baseReserve", "quoteReserve", "baseTarget",
                             "quoteTarget", "fee", "baseDecimals", "quoteDecimals">>)
          [] kind = "curve" -> each(<<"balances">>)
          [] kind = "wombat" ->
               IF what = "sync" THEN each(<<"assets", "cash", "liability">>)
               ELSE scalar(<<"amp", "haircut">>) \o each(<<"assets", "cash", "liability", "decimals">>)

\* Which calls see the next block, and which one goes wrong.
Turns(calls) == {Len(calls)} \union (IF block < Len(World) THEN 0..Len(calls) - 1 ELSE {})

Faults(calls) ==
    {[at |-> 0, answer |-> Err]}
    \union (IF faults = 0 THEN {} ELSE [at : 1..Len(calls), answer : {Err, Bad}])

Answer(address, call, late) ==
    LET held == World[IF late THEN block + 1 ELSE block][address][call[1]]
    IN  IF call[2] = 0 THEN held ELSE held[call[2]]

Answers(address, calls, turn, fault) ==
    [c \in DOMAIN calls |-> IF c = fault.at THEN fault.answer ELSE Answer(address, calls[c], c > turn)]

\* The answers by name, those of the tokens as a sequence.
Reply(calls, answers) ==
    [name \in {calls[c][1] : c \in DOMAIN calls} |->
        LET own == {c \in DOMAIN calls : calls[c][1] = name}
            to(k) == answers[CHOOSE c \in own : calls[c][2] = k]
        IN  IF \E c \in own : calls[c][2] = 0 THEN to(0) ELSE [k \in 1..Cardinality(own) |-> to(k)]]

Spend(calls, turn, fault) ==
    /\ block' = IF turn = Len(calls) THEN block ELSE block + 1
    /\ faults' = IF fault.at = 0 THEN faults ELSE faults - 1

-----------------------------------------------------------------------------
(* Discovery.                                                              *)

Fetched(job, pair, r) ==
    LET reply == [name \in {"pair"} \union DOMAIN r |-> IF name = "pair" THEN pair ELSE r[name]]
    IN  CASE job.kind = "v2"       -> FetchV2(reply, "v2", FeeOf["v2"])
          [] job.kind = "sushi"    -> FetchSushi(reply, FeeOf["sushi"])
          [] job.kind = "v3"       -> FetchV3(reply, job.step)
          [] job.kind = "camelot2" -> FetchCamelot(reply, FeeOf["camelot2"])
          [] job.kind = "camelot3" -> FetchCamelotV3(reply)
          [] job.kind = "joe"      -> FetchBin(reply, job.step, FeeOf["joe"])
          [] job.kind = "gmx"      -> FetchGmx(pair, r, FeeOf["gmx"])
          [] job.kind = "dodo"     -> FetchDodo(pair, r)
          [] job.kind = "wombat"   -> FetchWombat(pair, job.tokens, r)

\* An error is logged and the next source is asked.  No loader asks for a
\* market (the one at registry.rs:408 stands in a comment): it is read by
\* fetch_pool and added by a caller of add_pool.
Keep(result) == IF result.pool = Absent THEN UNCHANGED <<pools, index>> ELSE AddPool(result.pool)

Tokens(job) == IF job.kind = "wombat" THEN Len(job.tokens) ELSE 0

\* The contract the factory, or the configuration, names.
Address(job) == IF job.pair = <<>> THEN job.address ELSE Pairs[job.kind, job.pair, job.step]

\* A factory that knows no pair, or fails, ends the fetch.
Miss ==
    /\ todo # <<>> /\ Head(todo).do = "fetch"
    /\ LET job == Head(todo)
       IN  /\ job.pair # <<>>
           /\ \E pair \in {Zero, Err} :
                /\ pair = Err \/ Address(job) = Zero
                /\ pair = Err => faults > 0
                /\ faults' = IF pair = Err THEN faults - 1 ELSE faults
                /\ Keep(Fetched(job, pair, [none |-> Zero]))
    /\ todo' = Tail(todo)
    /\ UNCHANGED <<script, block>>

Fetch ==
    /\ todo # <<>> /\ Head(todo).do = "fetch"
    /\ LET job == Head(todo)
           calls == Calls(job.kind, "fetch", Tokens(job))
       IN  /\ Address(job) # Zero
           /\ \E turn \in Turns(calls), fault \in Faults(calls) :
                /\ Spend(calls, turn, fault)
                /\ Keep(Fetched(job, Address(job), Reply(calls, Answers(Address(job), calls, turn, fault))))
    /\ todo' = Tail(todo)
    /\ UNCHANGED script

\* load_curve_pools_*, load_balancer_pools_from_config.
Load ==
    /\ todo # <<>> /\ Head(todo).do = "load"
    /\ AddPool(IF Head(todo).kind = "curve" THEN CurveFromConfig(Head(todo).config)
               ELSE BalancerFromConfig(Head(todo).config))
    /\ todo' = Tail(todo)
    /\ UNCHANGED <<script, block, faults>>

-----------------------------------------------------------------------------
(* Refresh.                                                                *)

SyncedPool(p, r) ==
    CASE p.kind \in {"v2", "sushi"} -> SyncV2(p, r)
      [] p.kind = "v3"       -> SyncV3(p, r)
      [] p.kind = "curve"    -> SyncCurve(p, r)
      [] p.kind = "camelot2" -> SyncCamelot(p, r)
      [] p.kind = "camelot3" -> SyncCamelotV3(p, r)
      [] p.kind = "gmx"      -> SyncGmx(p, r)
      [] p.kind = "joe"      -> SyncBin(p, r)
      [] p.kind = "dodo"     -> SyncDodo(p, r)
      [] p.kind = "wombat"   -> SyncWombat(p, r)

\* Nothing refreshes a Balancer pool, and only a V3 pool has ticks.
Skipped(p, what) ==
    \/ p.kind \in {"balancerWeighted", "balancerStable"}
    \/ what = "ticks" /\ p.kind # "v3"

\* An error is counted, the pool keeps what was written, the next one follows.
Sync ==
    /\ todo # <<>> /\ Head(todo).do \in {"sync", "ticks"}
    /\ LET at == Head(todo).at
           p == pools[at]
           calls == Calls(p.kind, Head(todo).do, Len(p.tokens))
       IN  IF Skipped(p, Head(todo).do) THEN UNCHANGED <<pools, block, faults>>
           ELSE \E turn \in Turns(calls), fault \in Faults(calls) :
                  LET r == Reply(calls, Answers(p.address, calls, turn, fault))
                  IN  /\ Spend(calls, turn, fault)
                      /\ pools' = [pools EXCEPT ![at] = IF Head(todo).do = "ticks" THEN PopulateTicks(p, r).pool
                                                        ELSE SyncedPool(p, r).pool]
    /\ todo' = Tail(todo)
    /\ UNCHANGED <<index, script>>

-----------------------------------------------------------------------------
(* The caller.                                                             *)

Of(kind, pair, step) == [do |-> "fetch", kind |-> kind, pair |-> pair, step |-> step]

\* discover_pools asks the sources in this order, pair by pair: an operation each.
DiscoverPair(pair) ==
    <<Of("v2", pair, 0), Of("sushi", pair, 0)>>
        \o [k \in DOMAIN Steps["v3"] |-> Of("v3", pair, Steps["v3"][k])]
        \o <<Of("camelot2", pair, 0), Of("camelot3", pair, 0)>>
        \o [k \in DOMAIN Steps["joe"] |-> Of("joe", pair, Steps["joe"][k])]

Jobs(op) ==
    CASE op.op = "discover" -> DiscoverPair(op.pair)
      [] op.op = "jobs" -> op.jobs
      [] op.op \in {"sync", "ticks"} -> [i \in DOMAIN pools |-> [do |-> op.op, at |-> i]]

-----------------------------------------------------------------------------
(* What may be asked for: contracts trade two tokens that differ and never  *)
(* change, and configurations list tokens once.                             *)

Kinds == {"v2", "sushi", "v3", "camelot2", "camelot3", "joe", "gmx", "dodo", "wombat"}

IsList(s) == s \in Seq(ToSet(s))

TokensApart(contract, s, t) ==
    \A b, c \in DOMAIN World : World[b][contract][s] # World[c][contract][t]

\* A contract answers amounts of its tokens, in any block.
HoldsAmounts(kind, contract) ==
    \A b, c \in DOMAIN World :
        LET held == World[b][contract]
        IN  /\ kind \in {"v2", "sushi", "camelot2"} => held.reserves \in Nat \X Nat
            /\ kind = "camelot2" => held.fee01 \in Nat /\ held.fee10 \in Nat
            /\ kind = "gmx" => held.longAmount \in Nat /\ held.shortAmount \in Nat
            /\ kind = "joe" => /\ held.factor \in Nat
                               /\ held.bin[World[c][contract].active] \in Nat \X Nat
                               /\ BinPrice(held.active) \in (Nat \ {0}) \X (Nat \ {0})

IsLoad(job) == job.do = "load" /\ IsList(job.config.tokens) /\ IsInjective(job.config.tokens)

IsFetch(job) ==
    /\ job.do = "fetch" /\ job.kind \in Kinds
    /\ job.kind \in {"gmx", "dodo", "wombat"} <=> job.pair = <<>>
    /\ CASE job.kind = "wombat" -> IsList(job.tokens) /\ IsInjective(job.tokens)
         [] job.kind = "gmx"    -> TokensApart(job.address, "long", "short") /\ HoldsAmounts("gmx", job.address)
         [] job.kind = "dodo"   -> TokensApart(job.address, "base", "quote")
         [] OTHER -> /\ job.kind = "joe" => job.step \in Nat
                     /\ \/ Address(job) = Zero
                        \/ /\ TokensApart(Address(job), "token0", "token1")
                           /\ HoldsAmounts(job.kind, Address(job))

IsOperation(op) ==
    \/ op.op \in {"sync", "ticks"}
    \/ /\ op.op \in {"discover", "jobs"}
       /\ LET jobs == IF op.op = "jobs" THEN op.jobs ELSE DiscoverPair(op.pair)
          IN  IsList(jobs) /\ \A k \in DOMAIN jobs : IsLoad(jobs[k]) \/ IsFetch(jobs[k])

ASSUME RegistryAssumption ==
    /\ MaxFaults \in Nat /\ Amounts \subseteq Nat
    /\ \A kind \in {"v2", "sushi", "camelot2", "joe"} : FeeOf[kind] \in Nat
    /\ FeeOf["gmx"] \in 0..Bps - 1
    /\ IsList(World) /\ World # <<>>
    /\ \A s \in Scripts : IsList(s) /\ \A n \in DOMAIN s : IsOperation(s[n])

-----------------------------------------------------------------------------
Ask ==
    /\ todo = <<>> /\ script # <<>>
    /\ todo' = Jobs(Head(script))
    /\ script' = Tail(script)
    /\ UNCHANGED <<pools, index, block, faults>>

RegistryInit ==
    /\ pools = <<>> /\ index = << >>
    /\ script \in Scripts /\ todo = <<>>
    /\ block = 1 /\ faults = MaxFaults

RegistryNext == Ask \/ Miss \/ Fetch \/ Load \/ Sync

RegistrySpec == RegistryInit /\ [][RegistryNext]_registryVars

-----------------------------------------------------------------------------
Traded == UNION {ToSet(pools[i].tokens) : i \in DOMAIN pools}

\* The pools listed for a pair are those that trade it, each once, in either
\* order of the tokens (add_pool, pools_for_pair).
IndexAnswers ==
    \A a, b \in Traded : a # b =>
        LET listed == PoolsForPair(a, b)
        IN  /\ IsInjective(listed)
            /\ ToSet(listed) = {i \in DOMAIN pools : {a, b} \subseteq ToSet(pools[i].tokens)}

-----------------------------------------------------------------------------
(* Quotes of any kind.                                                     *)

Quote(p, i, j, amount) ==
    CASE p.kind = "v2"       -> V2Out(p, amount, i < j)
      [] p.kind = "sushi"    -> SushiOut(p, amount, i < j)
      [] p.kind = "camelot2" -> CamelotOut(p, amount, i < j)
      [] p.kind = "v3"       -> V3Out(p, amount, i < j)
      [] p.kind = "camelot3" -> FlatOut(p, amount, i < j)
      [] p.kind = "joe"      -> BinOut(p, amount, i < j)
      [] p.kind = "curve"    -> QuoteCurve(p, p.tokens[i], p.tokens[j], amount)
      [] p.kind = "wombat"   -> WombatOutByTokens(p, p.tokens[i], p.tokens[j], amount)
      [] p.kind = "gmx"      -> GmxOut(p, amount, i < j)
      [] p.kind = "dodo"     -> DodoOut(p, amount, i < j)
      [] p.kind = "balancerWeighted" -> WeightedOut(p, p.tokens[i], p.tokens[j], amount)
      [] p.kind = "balancerStable"   -> StableSwapOut(p, p.tokens[i], p.tokens[j], amount)

\* What the pool must be fed for an amount.
Demand(p, i, j, amount) ==
    CASE p.kind = "v2"       -> V2In(p, amount, i < j)
      [] p.kind = "sushi"    -> SushiIn(p, amount, i < j)
      [] p.kind = "camelot2" -> CamelotIn(p, amount, i < j)
      [] p.kind = "joe"      -> BinIn(p, amount, i < j)
      [] p.kind = "gmx"      -> GmxIn(p, amount, i < j)
      [] OTHER               -> None

Ways(p) == {q \in (DOMAIN p.tokens) \X (DOMAIN p.tokens) : q[1] # q[2]}

Known == ToSet(pools)

Buys(p, slack) ==
    \A way \in Ways(p), amount \in Amounts :
        LET in == Demand(p, way[1], way[2], amount)
        IN  in # None => LET out == Quote(p, way[1], way[2], in + slack) IN out # None => out >= amount

\* A market once somebody prices it, which no call of the registry does.
Priced(p, long, short, bonus) ==
    [p EXCEPT !.longPrice = long, !.shortPrice = short, !.bonus = bonus]

\* Feeding a pool what get_amount_in asks for an amount buys that amount.  A
\* Trader Joe bin takes its fee off in whole atoms: where that is at most half,
\* two atoms more will do.  A market allows for its fee and a bonus.
DemandBuys ==
    \A p \in Known :
        CASE p.kind = "joe" -> 2 * p.fee <= Bps => Buys(p, 2)
          [] p.kind = "gmx" -> \A long, short, bonus \in Amounts : Buys(Priced(p, long, short, bonus), 0)
          [] OTHER          -> Buys(p, 0)
==============================================================================
