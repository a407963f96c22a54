------------------------------ MODULE Assembler ------------------------------
(***************************************************************************)
(* From routed orders to solutions with clearing prices:                   *)
(* assemble_from_auction in solver/assembler.rs.                           *)
(*                                                                         *)
(* The price loop walks a HashMap of token pairs, whose order changes from *)
(* one call to the next: Assembled is the set of results over all orders.  *)
(* A token without a price has price 0, which the code treats alike.       *)
(* Interactions, approvals and internalisation carry no state of their own *)
(* and are left out, as is the (disabled) protocol fee bonus.              *)
(***************************************************************************)
EXTENDS DirectRouting

CONSTANTS
    MinPartial,      \* MIN_PARTIAL_SELL_WEI
    MaxSurplus,      \* MAX_SURPLUS_WEI
    MaxSolutions,    \* MAX_SOLUTIONS                     (3)
    PointWeight,     \* wei of net surplus a priority point is worth
    GasOverhead,     \* GAS_SETTLEMENT_OVERHEAD
    GasPerOrder,     \* GAS_PER_ORDER
    GasSwap,         \* gas of a swap, per kind of pool
    GasData,         \* cost of a swap's calldata, per kind of pool
    GasDataBase,     \* cost of the settlement's own calldata
    GasEmbedded,     \* gas the main solution's prices charge the user
    GasAlternative   \* gas the alternatives' prices charge the user

ASSUME AssemblerAssumption ==
    /\ {MinPartial, MaxSurplus, PointWeight, GasOverhead, GasPerOrder,
        GasDataBase} \subseteq Nat
    /\ MaxSolutions \in Nat \ {0}

\* The gas that prices charge is less than what the profit filter asks for:
\* assembler.rs embeds 65_000 to 85_000 units and gas/mod.rs counts 210_000.
ASSUME GasAssumption ==
    \A kind \in DOMAIN GasSwap :
        /\ {GasSwap[kind], GasData[kind], GasEmbedded[kind], GasAlternative[kind]} \subseteq Nat
        /\ GasEmbedded[kind] <= GasOverhead + GasPerOrder + GasSwap[kind]
        /\ GasAlternative[kind] <= GasOverhead + GasPerOrder + GasSwap[kind]

-----------------------------------------------------------------------------
Fractions == <<75, 50, 25>>

Portion(o, percent) == [o EXCEPT !.sell = (@ * percent) \div 100,
                                 !.buy  = (@ * percent) \div 100]

\* The largest fraction of an order that the pools fill, kept under the uid
\* of the whole order.
SolvePartially(o, pools) ==
    LET part(k) == Portion(o, Fractions[k])
        filled == {k \in DOMAIN Fractions :
                     /\ part(k).sell >= MinPartial
                     /\ SolveOrder(part(k), pools) # <<>>}
    IN  IF filled = {} THEN <<>>
        ELSE << [SolveOrder(part(Min(filled)), pools)[1] EXCEPT !.order = o] >>

\* Whole orders first, then parts of those no pool fills.
RouteAll(orders, pools) ==
    Filled([i \in DOMAIN orders |-> SolveOrder(orders[i], pools)])
    \o Filled([i \in DOMAIN orders |->
                 IF orders[i].partial /\ SolveOrder(orders[i], pools) = <<>>
                 THEN SolvePartially(orders[i], pools) ELSE <<>>])

\* A route's surplus in the native token.
Worth(r, price) == Normalized(r.surplus, price[r.order.buyToken])

\* What a swap adds to the cost of a solution.
SwapCost(r, gasPrice) == gasPrice * (GasPerOrder + GasSwap[r.kind]) + GasData[r.kind]

SolutionCost(routes, gasPrice) ==
    gasPrice * GasOverhead + GasDataBase
      + Total([i \in DOMAIN routes |-> SwapCost(routes[i], gasPrice)])

\* The same for a route alone.
RouteCost(r, gasPrice) == gasPrice * GasOverhead + GasDataBase + SwapCost(r, gasPrice)

\* Neither suspiciously good nor worth less than its gas.
Plausible(r, A) == Worth(r, A.price) <= MaxSurplus

\* Mutant: any surplus will do.
ProfitableRaw(r, A) == r.surplus > 0

Profitable(r, A) == Worth(r, A.price) >= RouteCost(r, A.gas)

Priority(o) ==
    (IF HighCompetitionPair(o) THEN -100 ELSE 0)
      + (IF o.limit THEN 50 ELSE 0) + (IF o.partial THEN 30 ELSE 0)

Weight(r, A) ==
    Monus(Worth(r, A.price), RouteCost(r, A.gas)) + Priority(r.order) * PointWeight

\* Stable and descending, and only when there are too many.
BestRoutes(routes, A) ==
    LET above(i, j) == \/ Weight(routes[i], A) > Weight(routes[j], A)
                       \/ Weight(routes[i], A) = Weight(routes[j], A) /\ i < j
        ranked == InOrder(DOMAIN routes, Ordering(DOMAIN routes, above))
    IN  IF Len(routes) <= MaxSolutions THEN routes
        ELSE [k \in 1..MaxSolutions |-> routes[ranked[k]]]

Chosen(A, orders) ==
    LET routes == RouteAll(orders, A.pools)
    IN  BestRoutes(Keeping(routes, {i \in DOMAIN routes : /\ Plausible(routes[i], A)
                                                          /\ Profitable(routes[i], A)}), A)

-----------------------------------------------------------------------------
\* A gas cost in units of a token, 0 when the token has no reference price.
GasIn(token, gas, A) == MulDivOr(gas * A.gas, Unit, A.price[token], 0)

\* What the order pays and what it is paid, the gas taken from the buyer's
\* side of a sell order and added to the seller's side of a buy order.
Net(r, A) ==
    IF r.order.kind = "sell"
    THEN [sold   |-> r.executed,
          bought |-> Monus(r.output, GasIn(r.order.buyToken, GasEmbedded[r.kind], A))]
    ELSE [sold   |-> Capped(r.executed + GasIn(r.order.sellToken, GasEmbedded[r.kind], A)),
          bought |-> Lesser(r.output, r.order.buy)]

PairOf(r) == <<r.order.sellToken, r.order.buyToken>>
PairsOf(routes) == {PairOf(routes[i]) : i \in DOMAIN routes}

\* Everything paid and received by the orders of one directed pair.
Totals(pair, routes, A) ==
    LET own(amounts) == [i \in DOMAIN routes |-> IF PairOf(routes[i]) = pair THEN amounts[i] ELSE 0]
    IN  [sold   |-> Total(own([i \in DOMAIN routes |-> Net(routes[i], A).sold])),
         bought |-> Total(own([i \in DOMAIN routes |-> Net(routes[i], A).bought]))]

\* One pair of the loop: scale to a price already set, if it differs.
PricePair(prices, pair, t) ==
    LET s == pair[1]  b == pair[2]
    IN  IF prices[s] > 0 /\ t.bought # prices[s]
        THEN [prices EXCEPT ![b] = MulDivOr(t.sold, prices[s], t.bought, t.sold)]
        ELSE IF prices[b] > 0 /\ t.sold # prices[b]
        THEN [prices EXCEPT ![s] = MulDivOr(t.bought, prices[b], t.sold, t.bought)]
        ELSE [prices EXCEPT ![s] = t.bought, ![b] = t.sold]

\* The prices after the whole loop over the pairs, in this order.
Priced(listed, routes, A) ==
    LET after[n \in 0..Len(listed)] ==
          IF n = 0 THEN [t \in Tokens |-> 0]
          ELSE PricePair(after[n - 1], listed[n], Totals(listed[n], routes, A))
    IN  after[Len(listed)]

PriceMaps(routes, A) == {Priced(listed, routes, A) : listed \in SetToSeqs(PairsOf(routes))}

TradeOf(r) == [order |-> r.order, executed |-> r.executed]

MainSolution(routes, prices, A) ==
    [trades |-> [i \in DOMAIN routes |-> TradeOf(routes[i])],
     prices |-> prices,
     score  |-> Monus(Capped(Total([i \in DOMAIN routes |-> Worth(routes[i], A.price)])),
                      SolutionCost(routes, A.gas))]

\* The second and third route also stand alone, with prices of their own.
\* These charge less gas, and none for a buy order.
Alternative(r, A) ==
    LET bought == IF r.order.kind = "sell"
                  THEN Monus(r.output, GasIn(r.order.buyToken, GasAlternative[r.kind], A))
                  ELSE Lesser(r.output, r.order.buy)
    IN  IF r.executed = 0 \/ bought = 0 THEN <<>>
        ELSE << [trades |-> <<TradeOf(r)>>,
                 prices |-> [t \in Tokens |-> CASE t = r.order.sellToken -> bought
                                                [] t = r.order.buyToken  -> r.executed
                                                [] OTHER -> 0],
                 score  |-> Monus(Worth(r, A.price), RouteCost(r, A.gas))] >>

Alternatives(routes, A) ==
    Filled([i \in 1..Monus(Len(routes), 1) |-> Alternative(routes[i + 1], A)])

\* A pair that sells or pays nothing spoils the whole result.
Assembled(A, orders) ==
    LET routes == Chosen(A, orders)
        spoilt == \E pair \in PairsOf(routes) :
                    LET t == Totals(pair, routes, A) IN 0 \in {t.sold, t.bought}
    IN  IF routes = <<>> \/ spoilt THEN {<<>>}
        ELSE { <<MainSolution(routes, prices, A)>> \o Alternatives(routes, A) :
                 prices \in PriceMaps(routes, A) }
=============================================================================
