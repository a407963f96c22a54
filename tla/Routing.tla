------------------------------- MODULE Routing -------------------------------
(***************************************************************************)
(* Phases 2 to 4 of a solve (solver/mod.rs): two-hop routes, splits over   *)
(* graph paths, the best graph path of every order, and the solutions made *)
(* of them.  A phase that needs paths runs one search per order            *)
(* (GraphSearch), and may stop at its deadline before any order.  When     *)
(* nothing was found the fallback strategy prices direct routes.           *)
(*                                                                         *)
(* The gate that skips phases 3 and 4 is part of SolvePipeline.            *)
(***************************************************************************)
EXTENDS GraphSearch, SplitRouting, TwoHop, Pricing

CONSTANTS
    Auctions,         \* [orders, pools, price, gas]
    MaxSplitOrders,   \* MAX_SPLIT_ORDERS
    MaxGraphTrades    \* MAX_GRAPH_TRADES

\* What the driver sends: an order sells one token for another, the tokens of a
\* pool are the keys of its map, and the graph is one that can be searched.
IsOrder(o) ==
    /\ {o.sellToken, o.buyToken} \subseteq Tokens /\ o.sellToken # o.buyToken
    /\ {o.sell, o.buy} \subseteq Nat

IsPool(p) ==
    /\ Len(p.keys) \in Nat /\ DOMAIN p.keys = 1..Len(p.keys)
    /\ \A k, l \in DOMAIN p.keys : k # l => p.keys[k] # p.keys[l]
    /\ p.tokens = {p.keys[k] : k \in DOMAIN p.keys} /\ p.tokens \subseteq Tokens
    /\ p.reserve \in [Tokens -> Nat]

IsAuction(A) ==
    /\ Len(A.pools) \in Nat /\ DOMAIN A.pools = 1..Len(A.pools)
    /\ \A i \in DOMAIN A.pools : IsPool(A.pools[i])
    /\ A.orders \in Seq(ToSet(A.orders)) /\ \A i \in DOMAIN A.orders : IsOrder(A.orders[i])
    /\ A.price \in [Tokens -> Nat] /\ A.gas \in Nat
    /\ \A o \in ToSet(A.orders), i \in DOMAIN A.pools :
         Trades(A.pools[i], o) => ConcentratedOut(A.pools[i], o.sellToken, o.sell) \in Nat
    /\ EdgesOf(A.pools, A.gas) \subseteq AllEdges

ASSUME AuctionsAssumption == \A A \in Auctions : IsAuction(A)

ASSUME LimitsAssumption == {MaxSplitOrders, MaxGraphTrades} \subseteq Nat

VARIABLES
    auction,
    stage,       \* "hops", "split", "graph", "again", "last" or "done"
    queue,       \* orders of the stage that are still to be routed
    routed,      \* routes or splits of the stage
    solutions    \* what the stages pushed, with their stage

search == <<graph, ends, paths, candidates, spur, heap, best, phase>>
all == <<search, auction, stage, queue, routed, solutions>>

-----------------------------------------------------------------------------
\* The first token a sequence of calls takes and the last one it gives.
FirstIn(r) == r.calls[1].from
LastOut(r) == r.calls[Len(r.calls)].to

\* A token's price is set once: the amount sold for the token sold, the
\* amount received for the token bought.
SetOnce(prices, t, x) == IF prices[t] > 0 THEN prices ELSE [prices EXCEPT ![t] = x]

PriceRoute(prices, r) ==
    SetOnce(SetOnce(prices, FirstIn(r), r.executed), LastOut(r), r.output)

RoutePrices(routes) == FoldLeft(PriceRoute, [t \in Tokens |-> 0], routes)

\* build_routed_solution, build_split_solution and the graph solution differ
\* in the token whose price weighs the surplus: a split takes the first.
WeighedIn(kind, r) == IF kind \in {"split", "again"} THEN r.calls[1].to ELSE LastOut(r)

Contribution(kind, r) == Normalized(r.surplus, auction.price[WeighedIn(kind, r)])

Score(kind, routes) ==
    Monus(FoldLeft(LAMBDA s, r : Capped(s + Contribution(kind, r)), 0, routes),
          FoldLeft(LAMBDA s, r : Capped(s + r.cost), 0, routes))

Solution(kind, routes) ==
    [stage  |-> kind,
     trades |-> [i \in DOMAIN routes |-> [order |-> routes[i].order,
                                          executed |-> routes[i].executed,
                                          output |-> routes[i].output]],
     prices |-> RoutePrices(routes),
     calls  |-> Concat([i \in DOMAIN routes |-> routes[i].calls]),
     score  |-> Score(kind, routes)]

Solved(kind, routes) == IF routes = <<>> THEN <<>> ELSE <<Solution(kind, routes)>>

\* Graph solutions fill a few orders: those that contribute most.
Truncated(s, n) == SubSeq(s, 1, Lesser(n, Len(s)))

MostValuable ==
    LET value(o) == o.sell * auction.price[o.sellToken]
    IN  Truncated(Falling(auction.orders, [i \in DOMAIN auction.orders |-> value(auction.orders[i])]),
                  MaxSplitOrders)

Routable ==
    Keeping(auction.orders, {i \in DOMAIN auction.orders :
                               {auction.orders[i].sellToken, auction.orders[i].buyToken}
                                 \subseteq Nodes(graph)})

-----------------------------------------------------------------------------
\* Phase 2: the orders phase 1 left, and all of them if that scores more.
Hop ==
    /\ stage = "hops"
    /\ \E left \in SUBSET DOMAIN auction.orders, better \in BOOLEAN :
          solutions' = Solved("hops", SolveRouted(Keeping(auction.orders, left), auction.pools))
                         \o IF better THEN Solved("hops", SolveRouted(auction.orders, auction.pools))
                                      ELSE <<>>
    /\ stage' = "split"
    /\ queue' = IF graph = {} THEN <<>> ELSE MostValuable
    /\ UNCHANGED <<search, auction, routed>>

\* The search for the next order's paths begins; a token without edges ends it.
Search ==
    /\ phase = "done" /\ ends = [src |-> None, dst |-> None]
    /\ queue # <<>>
    /\ LET o == Head(queue)
       IN  /\ ends' = [src |-> o.sellToken, dst |-> o.buyToken]
           /\ phase' = IF /\ {o.sellToken, o.buyToken} \subseteq Nodes(graph)
                          /\ o.sellToken # o.buyToken
                       THEN "first" ELSE "done"
    /\ paths' = <<>> /\ candidates' = <<>> /\ spur' = 1
    /\ heap' = {NoPath} /\ best' = {}
    /\ UNCHANGED <<graph, auction, stage, queue, routed, solutions>>

Step == SearchNext /\ UNCHANGED <<auction, stage, queue, routed, solutions>>

\* The paths become a split or a route of the order.
Settle ==
    /\ phase = "done" /\ ends.src # None
    /\ LET o == Head(queue)
           A == auction
       IN  routed' = routed \o
             IF stage = "graph" THEN BestRoute(o, paths, A.pools, A.gas)
             ELSE SplitAcross(o, TopRoutes(o, paths, A.pools, A.gas, MaxSplitRoutes),
                              A.pools, A.gas)
    /\ queue' = Tail(queue)
    /\ ends' = [src |-> None, dst |-> None]
    /\ UNCHANGED <<graph, paths, candidates, spur, heap, best, phase, auction, stage, solutions>>

\* The deadline of a phase is looked at before every order.
OutOfTime ==
    /\ queue # <<>> /\ ends.src = None
    /\ stage \in {"split", "graph", "again"}
    /\ queue' = <<>>
    /\ UNCHANGED <<search, auction, stage, routed, solutions>>

NextStage == CASE stage = "split" -> "graph" [] stage = "graph" -> "again"
                                             [] OTHER -> "last"

Kept == IF stage = "graph"
        THEN Truncated(Falling(routed, [i \in DOMAIN routed |-> Contribution(stage, routed[i])]),
                       MaxGraphTrades)
        ELSE routed

Publish ==
    /\ stage \in {"split", "graph", "again"}
    /\ queue = <<>> /\ ends.src = None
    /\ solutions' = solutions \o Solved(stage, Kept)
    /\ stage' = NextStage
    /\ queue' = IF graph = {} \/ NextStage = "last" THEN <<>>
                ELSE IF NextStage = "graph" THEN Routable ELSE auction.orders
    /\ routed' = <<>>
    /\ UNCHANGED <<search, auction>>

\* The fallback, unless something was found; what phases 1 and 5 found is not
\* known here.
Fallback ==
    /\ stage = "last"
    /\ \/ solutions' = solutions
       \/ /\ solutions = <<>>
          /\ \E s \in Fallbacks(auction.orders, auction.pools) : solutions' = <<s>>
    /\ stage' = "done"
    /\ UNCHANGED <<search, auction, queue, routed>>

-----------------------------------------------------------------------------
Init ==
    /\ auction \in Auctions
    /\ graph = EdgesOf(auction.pools, auction.gas)
    /\ ends = [src |-> None, dst |-> None]
    /\ paths = <<>> /\ candidates = <<>> /\ spur = 1
    /\ heap = {} /\ best = {} /\ phase = "done"
    /\ stage = "hops" /\ queue = <<>> /\ routed = <<>> /\ solutions = <<>>

Next == Hop \/ Search \/ Step \/ Settle \/ OutOfTime \/ Publish \/ Fallback

\* The loops of a search run on, without waiting for anything.
Spec == Init /\ [][Next]_all /\ WF_all(Step)

-----------------------------------------------------------------------------
\* Every way from s to t that passes no token twice.
Simple(s, p) == /\ p[1].from = s
                /\ \A i \in 1..(Len(p) - 1) : p[i + 1].from = p[i].to
                /\ Cardinality(Passed(s, p)) = Len(p) + 1

SimplePaths(s, t) ==
    LET upTo[n \in 0..MaxHops] ==
            IF n = 0 THEN {<<>>}
            ELSE upTo[n - 1]
                   \cup {p \in {Append(q, e) : q \in upTo[n - 1], e \in graph} : Simple(s, p)}
    IN  {p \in upTo[MaxHops] : p # <<>> /\ At(s, p) = t}

\* A search that ran out of candidates has found every simple path within the
\* hop limit, as long as one pool at most joins two tokens.  (Paths through
\* parallel pools block each other: yen_k_shortest compares their tokens.)
PlainPathsFound ==
    /\ phase = "done" /\ ends.src # None /\ Len(paths) < TopK
    /\ \A e, f \in graph : e.from = f.from /\ e.to = f.to => e = f
    => SimplePaths(ends.src, ends.dst) \subseteq {paths[i].hops : i \in DOMAIN paths}

\* The whole, and at most what the five roundings of a share add to it: together
\* less than six parts in Mantissa.
Covers(sold, sell) == sold >= sell /\ (sold - sell) * Mantissa <= 6 * sell

\* A split sells the whole order, but for the shares that would yield nothing,
\* and no more than rounding can add; its legs carry what it claims.
\* (optimize_split scales, saturates, moves dust and skips failed legs;
\* find_split shares between two pools.)
SplitFills(s) ==
    /\ Covers(s.executed + s.unsold, s.order.sell)
    /\ Total([j \in DOMAIN s.legs |-> s.legs[j].in]) = s.executed
    /\ Total([j \in DOMAIN s.legs |-> s.legs[j].out]) = s.output
    /\ s.output >= s.order.buy
    /\ Len(s.legs) >= 2

SplitsFill ==
    /\ stage \in {"split", "again"} => \A i \in DOMAIN routed : SplitFills(routed[i])
    /\ stage = "done" =>
         \A i \in DOMAIN auction.orders :
            LET found == FindSplit(auction.orders[i], auction.pools)
            IN  found # <<>> => SplitFills(found[1])

\* The comment on the scaling: "Normalize allocations to sum to total_amount
\* exactly".  (Shares rounded up by floats may sum above it.)
SplitsExact ==
    stage \in {"split", "again"} =>
        \A i \in DOMAIN routed :
            routed[i].executed + routed[i].unsold = routed[i].order.sell

\* What a pool of two reserves pays on chain, where amounts do not overflow.
Pays(reserve, c) ==
    IF reserve[c.from] > 0 /\ reserve[c.to] > 0
    THEN ProductOut(c.in, reserve[c.from], reserve[c.to]) ELSE 0

\* The reserves of a pool after a call of it.
Drained(reserve, c) ==
    [reserve EXCEPT ![c.from] = @ + c.in, ![c.to] = @ - Pays(reserve, c)]

After(reserves, c) == [reserves EXCEPT ![c.pool] = Drained(@, c)]

ReservesAt(calls, pools) ==
    LET at[n \in 0..Len(calls)] ==
            IF n = 0 THEN [i \in DOMAIN pools |-> pools[i].reserve]
            ELSE After(at[n - 1], calls[n])
    IN  at

\* Executed one after another, the calls of a solution yield at least what
\* they were quoted, unless two of them take the same direction through one
\* pool or a product pool holds a third token.  (Every route is simulated on
\* the pools of the auction, whatever other routes and legs do to them.)
CallsDeliver ==
    \A n \in DOMAIN solutions :
        LET calls == solutions[n].calls
            at == ReservesAt(calls, auction.pools)
        IN  (\A i, j \in DOMAIN calls :
                i # j /\ calls[i].pool = calls[j].pool => calls[i].from = calls[j].to)
            => \A i \in DOMAIN calls :
                 \/ auction.pools[calls[i].pool].kind = "concentrated"
                 \/ Cardinality(auction.pools[calls[i].pool].tokens) > 2
                 \/ Pays(at[i - 1][calls[i].pool], calls[i]) >= calls[i].out

\* A trade is paid its output at the prices of its solution: prices[sell] is
\* the total bought and prices[buy] the total sold, as solver/pricing.rs says.
\* (The routers set them the other way round.)
PricesPayOutput ==
    \A n \in DOMAIN solutions :
        LET s == solutions[n]
            t == s.trades[1]
        IN  Len(s.trades) = 1
            => t.executed * s.prices[t.order.sellToken] >= t.output * s.prices[t.order.buyToken]

\* Edges that follow one another and end where they began, no more of them
\* than there are tokens: any longer way around holds one of these.
Rounds(edges) ==
    {p \in UNION {[1..n -> edges] : n \in 1..Cardinality(Nodes(edges))} :
        /\ \A i \in 1..(Len(p) - 1) : p[i + 1].from = p[i].to
        /\ p[1].from = p[Len(p)].to}

Weight(p) == Total([i \in DOMAIN p |-> p[i].weight])

\* Rounds that yield more than they take.
Arbitrage(edges) == {p \in Rounds(edges) : Weight(p) < 0}

\* After the last pass an edge is still loose exactly when there is an
\* arbitrage, and the tokens that are reported are those of one.
\* (detect_negative_cycles: one pass fewer than tokens is enough, whatever the
\* order of the edges.)
CyclesDetected ==
    stage = "hops" =>
        LET list == EdgeList(graph, auction.pools)
            end == Relaxed(list, Nodes(graph))
            met == DetectCycle(list, Nodes(graph))
        IN  /\ (\E i \in DOMAIN list : Loose(end, list[i])) <=> Arbitrage(graph) # {}
            /\ met # {} => \E p \in Arbitrage(graph) : met = {p[i].to : i \in DOMAIN p}

\* An arbitrage is reported, as the comment on detect_negative_cycles says.
\* (The way back from a loose edge may end at a token that was never reached,
\* which is dropped as too short to be a cycle.)
ArbitrageReported ==
    stage = "hops" /\ Arbitrage(graph) # {}
        => DetectCycle(EdgeList(graph, auction.pools), Nodes(graph)) # {}

\* Every search ends, whatever the graph: each partial path is extended once,
\* and every deviation is taken from a path not seen before.
SearchesEnd == phase # "done" ~> phase = "done"
=============================================================================
