------------------------------- MODULE PhaseOne -------------------------------
(***************************************************************************)
(* Phase 1 of solve() with the amounts and prices that SolvePipeline       *)
(* leaves out: match opposite orders, route all orders through pools, put  *)
(* the matches and the routed rest together; then, when the cutoff comes   *)
(* after it, filter the candidates by reference price, rank and answer.    *)
(***************************************************************************)
EXTENDS CowMatching, Assembler

CONSTANTS
    Auctions,       \* [orders, pools, price, gas]
    ToleranceBps    \* EBBO_TOLERANCE_BPS

ASSUME PhaseOneAssumption == ToleranceBps \in 0..10000

\* What the driver sends: an order sells one token for another, and no uid
\* comes twice.
IsOrder(o) ==
    /\ o \in [uid : Int, sellToken : Tokens, buyToken : Tokens, sell : Nat, buy : Nat,
              kind : {"sell", "buy"}, partial : BOOLEAN, limit : BOOLEAN]
    /\ o.sellToken # o.buyToken

IsPool(p) ==
    /\ p.kind \in DOMAIN GasSwap
    /\ \A t \in p.tokens : p.reserve[t] \in Nat

\* The outputs that tick pools may be asked for are amounts.
Answers(A) ==
    \A i \in DOMAIN A.pools, j \in DOMAIN A.orders :
        LET p == A.pools[i]  o == A.orders[j]
        IN  p.kind = "concentrated" /\ Trades(p, o) =>
              \A amount \in {o.sell} \cup {Portion(o, Fractions[k]).sell : k \in DOMAIN Fractions} :
                  ConcentratedOut(p, o.sellToken, amount) \in Nat

IsAuction(A) ==
    /\ A.orders \in Seq(ToSet(A.orders)) /\ A.pools \in Seq(ToSet(A.pools))
    /\ \A i \in DOMAIN A.orders : IsOrder(A.orders[i])
    /\ \A i, j \in DOMAIN A.orders : i # j => A.orders[i].uid # A.orders[j].uid
    /\ \A i \in DOMAIN A.pools : IsPool(A.pools[i])
    /\ \A t \in Tokens : A.price[t] \in Nat
    /\ A.gas \in Nat
    /\ Answers(A)

ASSUME AuctionsAssumption == \A A \in Auctions : IsAuction(A)

VARIABLES
    auction,
    stage,        \* the strategy to run next
    matches,      \* cow_matches
    candidates,   \* all_candidates
    response      \* the solutions returned

vars == <<auction, stage, matches, candidates, response>>

Init ==
    /\ auction \in Auctions
    /\ stage = "cow"
    /\ matches = <<>> /\ candidates = <<>> /\ response = <<>>

Cow ==
    /\ stage = "cow" /\ stage' = "direct"
    /\ matches' = FilterByAmmBaseline(FindCows(auction.orders), auction.pools, auction.price)
    /\ candidates' = IF matches' = <<>> THEN <<>>
                     ELSE <<BuildCowSolution(matches', auction.price)>>
    /\ UNCHANGED <<auction, response>>

Direct ==
    /\ stage = "direct" /\ stage' = "combined"
    /\ \E solutions \in Assembled(auction, auction.orders) :
           candidates' = candidates \o solutions
    /\ UNCHANGED <<auction, matches, response>>

Matched == UNION {{matches[i].a.uid, matches[i].b.uid} : i \in DOMAIN matches}

\* Mutant: the matched orders are routed again.
UnmatchedAll == auction.orders

Unmatched ==
    Keeping(auction.orders, {i \in DOMAIN auction.orders : auction.orders[i].uid \notin Matched})

\* The prices of the routed solution replace those of the matches.
CombineSolutions(cow, routed) ==
    [trades |-> cow.trades \o routed.trades,
     prices |-> [t \in Tokens |-> IF routed.prices[t] > 0 THEN routed.prices[t]
                                                          ELSE cow.prices[t]],
     score  |-> Capped(cow.score + routed.score)]

Combine ==
    /\ stage = "combined" /\ stage' = "rank"
    /\ \E routed \in IF matches = <<>> THEN {<<>>} ELSE Assembled(auction, Unmatched) :
           candidates' = IF routed = <<>> THEN candidates
                         ELSE Append(candidates, CombineSolutions(candidates[1], routed[1]))
    /\ UNCHANGED <<auction, matches, response>>

-----------------------------------------------------------------------------
\* The reference of an order, and of a pair: of two orders of one pair the
\* later one's is kept.
OrderReference(o, price) ==
    IF price[o.sellToken] > 0 /\ price[o.buyToken] > 0
    THEN (o.sell * price[o.sellToken]) \div price[o.buyToken] ELSE 0

Reference(o, A) ==
    LET same == {i \in DOMAIN A.orders : PairOf([order |-> A.orders[i]]) = PairOf([order |-> o])
                                         /\ OrderReference(A.orders[i], A.price) > 0}
    IN  IF same = {} THEN 0
        ELSE OrderReference(A.orders[Max(same)], A.price)

\* What a trade pays its order at a solution's prices.
Received(trade, prices) ==
    LET s == prices[trade.order.sellToken]  b == prices[trade.order.buyToken]
    IN  IF trade.order.kind = "buy" THEN trade.executed
        ELSE IF 0 \in {s, b} THEN trade.order.buy
        ELSE Capped(trade.executed * s) \div b

MinExecution(reference) ==
    Monus(reference, Capped(reference * ToleranceBps) \div 10000)

\* Mutant: only the last trade of a solution is judged.
OnlyLastTrade(trades) == {Len(trades)}

\* An order traded twice is judged by its last trade.
LastTrades(trades) ==
    {i \in DOMAIN trades : \A j \in DOMAIN trades :
        trades[j].order.uid = trades[i].order.uid => j <= i}

SolutionPasses(sol, A) ==
    \A i \in LastTrades(sol.trades) :
        Received(sol.trades[i], sol.prices) >= MinExecution(Reference(sol.trades[i].order, A))

\* The tie-break between equal scores: the sorted uids.
StableKey(sol) ==
    LET uid(i) == sol.trades[i].order.uid
        below(i, j) == uid(i) < uid(j) \/ (uid(i) = uid(j) /\ i < j)
        sorted == InOrder(DOMAIN sol.trades, Ordering(DOMAIN sol.trades, below))
    IN  [k \in 1..Len(sol.trades) |-> uid(sorted[k])]

KeyBefore(k, l) ==
    \/ IsStrictPrefix(k, l)
    \/ \E i \in DOMAIN k \cap DOMAIN l :
         k[i] < l[i] /\ \A j \in 1..(i - 1) : k[j] = l[j]

RankedBefore(p, q) ==
    \/ p.score > q.score
    \/ p.score = q.score /\ KeyBefore(StableKey(p), StableKey(q))

\* Mutant: the first three, unranked.
FinalizeUnranked(sols) == SubSeq(sols, 1, Lesser(Len(sols), 3))

FinalizeSolutions(sols) ==
    LET before(i, j) == \/ RankedBefore(sols[i], sols[j])
                        \/ ~RankedBefore(sols[j], sols[i]) /\ i < j
        ranked == InOrder(DOMAIN sols, Ordering(DOMAIN sols, before))
    IN  [k \in 1..Lesser(Len(sols), 3) |-> sols[ranked[k]]]

Finalize ==
    /\ stage = "rank" /\ stage' = "done"
    /\ response' = FinalizeSolutions(
                     Keeping(candidates, {i \in DOMAIN candidates : SolutionPasses(candidates[i], auction)}))
    /\ UNCHANGED <<auction, matches, candidates>>

Next == Cow \/ Direct \/ Combine \/ Finalize

Spec == Init /\ [][Next]_vars

-----------------------------------------------------------------------------
Solutions == ToSet(candidates)

\* A limit price, prorated to what is executed and rounded down.
AtLimit(trade, received) ==
    received >= (trade.order.buy * trade.executed) \div trade.order.sell

\* What the settlement pays a sell order: exact, where Received saturates.
Paid(trade, prices) ==
    (trade.executed * prices[trade.order.sellToken]) \div prices[trade.order.buyToken]

TokensOf(m) == {m.a.sellToken, m.b.sellToken}

\* Matches that have no token in common are settled exactly: at the prices of
\* the solution each order receives what the other one hands over, and that is
\* at or above its limit.  (find_cows, build_cow_solution.)
CowsSettle ==
    \A i \in DOMAIN matches :
        LET m == matches[i]
            pays(o, in) == Received([order |-> o, executed |-> in], CowPrices(matches))
        IN  (\A j \in DOMAIN matches \ {i} : TokensOf(matches[j]) \cap TokensOf(m) = {})
            => /\ m.a.kind = "sell" => pays(m.a, m.inA) = m.inB
               /\ m.b.kind = "sell" => pays(m.b, m.inB) = m.inA
               /\ m.inB * m.a.sell >= m.a.buy * m.inA
               /\ m.inA * m.b.sell >= m.b.buy * m.inB

\* A sell order that is alone in its solution receives its limit at the
\* solution's prices, although gas is taken out of them after the limit was
\* checked: only the profit filter, which charges more gas, makes it so.
LoneTradesAtLimit ==
    \A sol \in Solutions :
        LET t == sol.trades[1]
        IN  Len(sol.trades) = 1 /\ t.order.kind = "sell"
            => sol.prices[t.order.buyToken] > 0 /\ AtLimit(t, Paid(t, sol.prices))

\* An order is executed twice in one solution only when two matches share it:
\* routing never executes again what a match executes.
TwiceOnlyByMatches ==
    \A sol \in Solutions : \A i, j \in DOMAIN sol.trades :
        i < j /\ sol.trades[i].order.uid = sol.trades[j].order.uid
        => \E k, l \in DOMAIN matches :
              /\ k # l
              /\ sol.trades[i].order \in {matches[k].a, matches[k].b} \cap {matches[l].a, matches[l].b}

\* No sell order in the response is paid less than the reference price allows,
\* when it is the only order of its pair in the auction.  (With several, the
\* last one's reference stands for all: ebbo.rs, set_reference.)
EbboHolds ==
    \A sol \in ToSet(response) : \A i \in DOMAIN sol.trades :
        LET o == sol.trades[i].order
        IN  /\ o.kind = "sell"
            /\ \A k \in DOMAIN auction.orders :
                 auction.orders[k].uid # o.uid =>
                   <<auction.orders[k].sellToken, auction.orders[k].buyToken>> # <<o.sellToken, o.buyToken>>
            => Received(sol.trades[i], sol.prices)
                 >= MinExecution(OrderReference(o, auction.price))

\* What is answered cannot be improved on: nothing that passes the reference
\* check and is left out scores more than anything that is answered, and of
\* equal scores the smaller key goes first.
BestAnswered ==
    stage = "done" =>
        \A sol \in {c \in Solutions : SolutionPasses(c, auction)} \ ToSet(response) :
            /\ Len(response) = 3
            /\ \A k \in 1..3 : ~RankedBefore(sol, response[k])

\* Every sell order of the response receives at least its limit.  The code
\* relies on it and does not ensure it: see the findings.
LimitsHonoured ==
    \A sol \in ToSet(response) : \A i \in DOMAIN sol.trades :
        sol.trades[i].order.kind = "sell"
        => AtLimit(sol.trades[i], Received(sol.trades[i], sol.prices))
=============================================================================
