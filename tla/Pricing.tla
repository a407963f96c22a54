------------------------------- MODULE Pricing -------------------------------
(***************************************************************************)
(* Uniform directional clearing prices (solver/pricing.rs) and the         *)
(* fallback strategy of solver/mod.rs that is priced with them.            *)
(***************************************************************************)
EXTENDS DirectRouting

\* compute_udcp / enforce_udcp: the price of the token sold is all that is
\* bought, that of the token bought all that is sold.
EnforceUdcp(in, out) ==
    IF 0 \in {Total(in), Total(out)} \/ ~Fits(Total(in)) \/ ~Fits(Total(out)) THEN <<>>
    ELSE << [sell |-> Total(out), buy |-> Total(in)] >>

FallbackRoutes(orders, pools) ==
    Filled([i \in DOMAIN orders |-> SolveOrder(orders[i], pools)])

\* The prices of a pair overwrite those of another that shares a token; a
\* pair without uniform prices leaves those of its last route.
PricedPair(prices, pair, routes) ==
    LET own == SelectSeq(routes, LAMBDA r : <<r.order.sellToken, r.order.buyToken>> = pair)
        in  == [i \in DOMAIN own |-> own[i].executed]
        out == [i \in DOMAIN own |-> own[i].output]
        p   == EnforceUdcp(in, out)
    IN  IF p = <<>> THEN [prices EXCEPT ![pair[1]] = Last(in), ![pair[2]] = Last(out)]
        ELSE [prices EXCEPT ![pair[1]] = p[1].sell, ![pair[2]] = p[1].buy]

\* The pairs are priced in the order of a HashMap, which may be any.
FallbackPrices(routes) ==
    LET pairs == {<<routes[i].order.sellToken, routes[i].order.buyToken>> : i \in DOMAIN routes}
    IN  { FoldLeft(LAMBDA prices, pair : PricedPair(prices, pair, routes),
                   [t \in Tokens |-> 0], listed) : listed \in SetToSeqs(pairs) }

\* The pool a direct route takes: the first that yields it.
CallOf(r, pools) ==
    LET same == {i \in DOMAIN pools : r \in PoolRoutes(r.order, pools[i])}
    IN  [pool |-> CHOOSE i \in same : \A j \in same : i <= j,
         from |-> r.order.sellToken, to |-> r.order.buyToken,
         in |-> r.executed, out |-> r.output]

FallbackScore(routes) == FoldLeft(LAMBDA s, r : Capped(s + r.surplus), 0, routes)

\* strategy_fallback: every order through its best pool, however small the gain.
Fallbacks(orders, pools) ==
    LET routes == FallbackRoutes(orders, pools)
    IN  { [stage  |-> "fallback",
           trades |-> [i \in DOMAIN routes |-> [order |-> routes[i].order,
                                                executed |-> routes[i].executed,
                                                output |-> routes[i].output]],
           prices |-> prices,
           calls  |-> [i \in DOMAIN routes |-> CallOf(routes[i], pools)],
           score  |-> FallbackScore(routes)] :
            prices \in IF routes = <<>> THEN {} ELSE FallbackPrices(routes) }
=============================================================================
