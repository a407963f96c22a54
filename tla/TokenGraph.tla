------------------------------ MODULE TokenGraph ------------------------------
(***************************************************************************)
(* The graph of tokens built from the liquidity of an auction and what its *)
(* paths yield: the operators of solver/graph.rs and the gas estimate of   *)
(* gas/mod.rs they use.  GraphSearch is the search for paths.              *)
(*                                                                         *)
(* A weight is the negative logarithm of a rate, a float: NegLog(o, i)     *)
(* stands for -ln(o / i) as an integer, and an infinite penalty is the     *)
(* large number Infinite.  A pool is known by its place in the liquidity   *)
(* and an edge is [pool, from, to, weight].                                *)
(***************************************************************************)
EXTENDS DirectRouting, FiniteSets

CONSTANTS
    Reference,            \* REFERENCE_AMOUNT
    MinPools,             \* MIN_POOLS_FOR_INTERMEDIARY
    NegLog(_, _),         \* f64::ln, of an output and an input
    Infinite,             \* f64::INFINITY
    ApproxOut(_, _, _),   \* get_amount_out_approx: output of a tick pool
    HopGas,               \* gas of a swap: a product pool or one with ticks
    HopValue,             \* what the penalty of a hop compares its gas with
    SettlementGas,        \* GAS_SETTLEMENT_OVERHEAD
    OrderGas,             \* GAS_PER_ORDER
    DataFixed,            \* ARB_L1_SURCHARGE_OVERHEAD_WEI, 0 elsewhere
    DataPerSwap           \* ARB_L1_SURCHARGE_*_SWAP_WEI, per kind of pool

ASSUME TokenGraphAssumption ==
    /\ {Reference, HopValue} \subseteq Nat \ {0}
    /\ {MinPools, SettlementGas, OrderGas, DataFixed} \subseteq Nat
    /\ Infinite \in Nat
    /\ {HopGas, DataPerSwap} \subseteq [{"product", "concentrated"} -> Nat]

None == "none"

\* The cost of a solution of n swaps.
EstimateCost(n, kind, gasPrice) ==
    gasPrice * (SettlementGas + n * (HopGas[kind] + OrderGas))
      + DataFixed + n * DataPerSwap[kind]

-----------------------------------------------------------------------------
\* A number as a u128.
Cast(x) == IF x \in Nat THEN Capped(x) ELSE 0

\* Swap outputs.  Weighted and stable pools are priced as product pools; 0
\* stands for no output, which every caller treats alike.
SwapOut(p, s, t, amount) ==
    IF p.kind = "concentrated" THEN Cast(ApproxOut(p, s, amount))
    ELSE LET rIn == p.reserve[s]
             rOut == p.reserve[t]
         IN  IF /\ rIn > 0 /\ rOut > 0
                /\ Fits(amount * FeeMultiplier * rOut)
                /\ Fits(rIn * FeeBase + amount * FeeMultiplier)
             THEN ProductOut(amount, rIn, rOut) ELSE 0

\* The penalty grows with the share of the hop's value its gas takes.
GasPenalty(kind, gasPrice) ==
    LET cost == HopGas[kind] * gasPrice
    IN  IF cost = 0 THEN 0
        ELSE IF cost >= HopValue THEN Infinite
        ELSE NegLog(HopValue - cost, HopValue)

\* The amount an edge is weighed with: a tenth of a shallow pool.
Probe(p, s) ==
    IF p.kind = "concentrated" THEN Reference
    ELSE Lesser(Reference, p.reserve[s] \div 10)

EdgesOf(pools, gasPrice) ==
    LET pairs == UNION {{<<i, s, t>> : s \in pools[i].tokens, t \in pools[i].tokens} :
                          i \in DOMAIN pools}
        quote(x) == SwapOut(pools[x[1]], x[2], x[3], Probe(pools[x[1]], x[2]))
    IN  { [pool |-> x[1], from |-> x[2], to |-> x[3],
           weight |-> NegLog(quote(x), Probe(pools[x[1]], x[2]))
                        + GasPenalty(pools[x[1]].kind, gasPrice)] :
            x \in {y \in pairs : /\ y[2] # y[3]
                                 /\ Probe(pools[y[1]], y[2]) > 0
                                 /\ quote(y) > 0} }

Nodes(edges) == {e.from : e \in edges} \cup {e.to : e \in edges}

\* Tokens that enough pools trade to be worth passing through.
Intermediaries(edges) ==
    {n \in Nodes(edges) : Cardinality({e.pool : e \in {x \in edges : x.from = n}}) >= MinPools}

-----------------------------------------------------------------------------
\* Mutant: every hop is simulated with the order's amount.
AmountsFirst(hops, pools, amount) ==
    [n \in 0..Len(hops) |->
       IF n = 0 THEN amount
       ELSE SwapOut(pools[hops[n].pool], hops[n].from, hops[n].to, amount)]

\* What a hop gives for an amount; nothing for nothing.
HopOut(e, pools, amount) ==
    IF amount = 0 THEN 0 ELSE SwapOut(pools[e.pool], e.from, e.to, amount)

\* What an amount becomes along a sequence of edges, hop by hop, each pool
\* as the auction shows it; 0 when a hop yields nothing.
Amounts(hops, pools, amount) ==
    LET got[n \in 0..Len(hops)] ==
            IF n = 0 THEN amount ELSE HopOut(hops[n], pools, got[n - 1])
    IN  got

Yield(hops, pools, amount) == Amounts(hops, pools, amount)[Len(hops)]

\* The interactions of a path: what each hop takes and gives.
Interactions(hops, pools, amount) ==
    LET got == Amounts(hops, pools, amount)
    IN  [i \in DOMAIN hops |-> [pool |-> hops[i].pool, from |-> hops[i].from,
                                to |-> hops[i].to, in |-> got[i - 1], out |-> got[i]]]

PathCost(hops, pools, gasPrice) ==
    LET kind == IF \E i \in DOMAIN hops : pools[hops[i].pool].kind = "concentrated"
                THEN "concentrated" ELSE "product"
    IN  EstimateCost(Len(hops), kind, gasPrice)

\* simulate_path: a path as a route for an order, if it meets the limit.  The
\* surplus counts tokens and the cost counts wei; the net subtracts them.
Simulated(o, p, pools, gasPrice) ==
    LET out == Yield(p.hops, pools, o.sell)
        cost == PathCost(p.hops, pools, gasPrice)
    IN  IF o.sell = 0 \/ out = 0 \/ out < o.buy THEN <<>>
        ELSE << [order |-> o, path |-> p, executed |-> o.sell, output |-> out,
                 surplus |-> out - o.buy, cost |-> cost, net |-> out - o.buy - cost,
                 calls |-> Interactions(p.hops, pools, o.sell)] >>

\* The routes worth more than their gas, in the order of the paths.
Gainful(o, paths, pools, gasPrice) ==
    LET found == Filled([i \in DOMAIN paths |-> Simulated(o, paths[i], pools, gasPrice)])
    IN  Keeping(found, {i \in DOMAIN found : found[i].net > 0})

\* Routes by falling net surplus; of equals, the one found first.
Ranked(routes) == Falling(routes, [i \in DOMAIN routes |-> routes[i].net])

TopRoutes(o, paths, pools, gasPrice, n) ==
    LET ranked == Ranked(Gainful(o, paths, pools, gasPrice))
    IN  SubSeq(ranked, 1, Lesser(n, Len(ranked)))

\* find_best_graph_route: the first of the best.
BestRoute(o, paths, pools, gasPrice) == TopRoutes(o, paths, pools, gasPrice, 1)

-----------------------------------------------------------------------------
\* detect_negative_cycles: Bellman-Ford from every token at distance 0.
\* Edges are relaxed in the order they were added: pool by pool, in the order
\* of its token map.
EdgeList(edges, pools) ==
    LET place(e, t) == CHOOSE k \in DOMAIN pools[e.pool].keys : pools[e.pool].keys[k] = t
        before(e, f) ==
            \/ e.pool < f.pool
            \/ e.pool = f.pool /\ place(e, e.from) < place(f, f.from)
            \/ e.pool = f.pool /\ e.from = f.from /\ place(e, e.to) < place(f, f.to)
    IN  InOrder(edges, Ordering(edges, before))

Loose(state, e) == state.dist[e.from] + e.weight < state.dist[e.to]

\* pred is the edge a token was last reached by, if it was.
Relax(state, e) ==
    IF Loose(state, e)
    THEN [dist |-> [state.dist EXCEPT ![e.to] = state.dist[e.from] + e.weight],
          pred |-> [state.pred EXCEPT ![e.to] = <<e>>]]
    ELSE state

Pass(list, state) ==
    LET after[i \in 0..Len(list)] == IF i = 0 THEN state ELSE Relax(after[i - 1], list[i])
    IN  after[Len(list)]

Unrelaxed(tokens) == [dist |-> [t \in tokens |-> 0], pred |-> [t \in tokens |-> <<>>]]

\* Mutant: a single pass.
RelaxedOnce(list, tokens) == Pass(list, Unrelaxed(tokens))

\* One pass fewer than there are tokens; the code stops at a pass that changes
\* nothing, as the others would.
Relaxed(list, tokens) ==
    LET n == Monus(Cardinality(tokens), 1)
        after[k \in 0..n] == IF k = 0 THEN Unrelaxed(tokens) ELSE Pass(list, after[k - 1])
    IN  after[n]

\* A token followed back, edge by edge, for n steps or until one was not reached.
FollowedBack(pred, end, n) ==
    LET back[k \in 0..n] ==
            IF k = 0 THEN end
            ELSE IF pred[back[k - 1]] = <<>> THEN back[k - 1] ELSE pred[back[k - 1]][1].from
    IN  back

\* Mutant: the tokens that lead to the cycle are reported with it.
CycleTokensAll(pred, tokens, end) ==
    LET n == Cardinality(tokens)  back == FollowedBack(pred, end, n) IN {back[k] : k \in 0..n}

\* As many steps as there are tokens lead to a cycle, or to a token not
\* reached, where no further step leads.
CycleTokens(pred, tokens, end) ==
    LET n == Cardinality(tokens)  back == FollowedBack(pred, end, 2 * n)
    IN  {back[k] : k \in n..(2 * n)}

\* What the first edge that is still loose leads back to, unless that is a
\* single token.
DetectCycle(list, tokens) ==
    LET end == Relaxed(list, tokens)
        met(i) == CycleTokens(end.pred, tokens, list[i].to)
        found == {i \in DOMAIN list : Loose(end, list[i]) /\ Cardinality(met(i)) > 1}
    IN  IF found = {} THEN {} ELSE met(CHOOSE i \in found : \A j \in found : i <= j)
=============================================================================
