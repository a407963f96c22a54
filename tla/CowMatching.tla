----------------------------- MODULE CowMatching -----------------------------
(***************************************************************************)
(* Settling two opposite orders against each other, without a pool:        *)
(* solver/cow_matching.rs.                                                 *)
(***************************************************************************)
EXTENDS DirectRouting

CONSTANT CowScoreCap   \* 1_500_000_000_000_000

ASSUME CowAssumption == CowScoreCap \in Nat

Opposite(a, b) == a.sellToken = b.buyToken /\ a.buyToken = b.sellToken

\* a and b trade at the ratio of what they offer, so both are filled in full:
\* the smaller of sell and the round trip of sell through the other's amount
\* is sell itself.  Orders that overlap only partially do not match.
Executed(a, b) ==
    LET inA == Lesser(a.sell, (b.sell * a.sell) \div b.sell)
    IN  [a |-> inA, b |-> (inA * b.sell) \div a.sell]

Overlap(a, b) ==
    /\ 0 \notin {a.sell, a.buy, b.sell, b.buy}
    /\ Fits(a.sell * b.sell) /\ Fits(b.buy * a.buy)
    /\ a.sell * b.sell >= b.buy * a.buy

\* Mutant: the second order's limit is not checked.
LimitsMetFirst(a, b, x) == x.b >= (a.buy * x.a) \div a.sell

LimitsMet(a, b, x) ==
    /\ Fits(a.buy * x.a) /\ Fits(b.buy * x.b)
    /\ x.b >= (a.buy * x.a) \div a.sell
    /\ x.a >= (b.buy * x.b) \div b.sell

TryMatch(a, b) ==
    IF Overlap(a, b) /\ LimitsMet(a, b, Executed(a, b))
    THEN LET x == Executed(a, b)
         IN  << [a |-> a, b |-> b, inA |-> x.a, inB |-> x.b,
                 surplusA |-> Monus(x.b, a.buy),
                 surplusB |-> Monus(x.a, b.buy)] >>
    ELSE <<>>

\* Every pair of orders is tried, in the order of the auction: an order may
\* end up in several matches.
FindCows(orders) ==
    LET pairs == { p \in (DOMAIN orders) \X (DOMAIN orders) :
                     /\ p[1] < p[2]
                     /\ Opposite(orders[p[1]], orders[p[2]])
                     /\ ~HighCompetitionPair(orders[p[1]])
                     /\ TryMatch(orders[p[1]], orders[p[2]]) # <<>> }
        before(p, q) == p[1] < q[1] \/ (p[1] = q[1] /\ p[2] < q[2])
        listed == InOrder(pairs, Ordering(pairs, before))
    IN  [k \in 1..Cardinality(pairs) |-> TryMatch(orders[listed[k][1]], orders[listed[k][2]])[1]]

\* The surplus the best pool would leave an order, in the native token.
PoolWorth(o, pools, price) ==
    LET r == SolveOrder(o, pools)
    IN  IF r = <<>> THEN 0 ELSE Normalized(r[1].surplus, price[o.buyToken])

BeatsPools(m, pools, price) ==
    /\ Normalized(m.surplusA, price[m.a.buyToken]) >= PoolWorth(m.a, pools, price)
    /\ Normalized(m.surplusB, price[m.b.buyToken]) >= PoolWorth(m.b, pools, price)

FilterByAmmBaseline(matches, pools, price) ==
    Keeping(matches, {i \in DOMAIN matches : BeatsPools(matches[i], pools, price)})

\* The first match that names a token prices it.
CowPrices(matches) ==
    LET naming(t) == {i \in DOMAIN matches :
                        t \in {matches[i].a.sellToken, matches[i].b.sellToken}}
        first(t) == matches[Min(naming(t))]
    IN  [t \in Tokens |->
           IF naming(t) = {} THEN 0
           ELSE IF t = first(t).a.sellToken THEN first(t).inB ELSE first(t).inA]

\* Two trades of each match.
CowTrades(matches) ==
    [k \in 1..2 * Len(matches) |->
        LET m == matches[(k + 1) \div 2]
        IN  IF k % 2 = 1 THEN [order |-> m.a, executed |-> m.inA]
                         ELSE [order |-> m.b, executed |-> m.inB]]

CowWorth(m, price) ==
    Normalized(m.surplusA, price[m.a.buyToken])
      + Normalized(m.surplusB, price[m.b.buyToken])

BuildCowSolution(matches, price) ==
    [trades |-> CowTrades(matches),
     prices |-> CowPrices(matches),
     score  |-> Lesser(Capped(Total([i \in DOMAIN matches |-> CowWorth(matches[i], price)])),
                       CowScoreCap)]
=============================================================================
