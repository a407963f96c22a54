----------------------------- MODULE SplitRouting -----------------------------
(***************************************************************************)
(* An order split across several routes: solver/split.rs.                  *)
(*                                                                         *)
(* Marginal rates are floats; here they are integers, RateScale to one.    *)
(* The shares are scaled as the code's floats scale them, rounding after   *)
(* rounding, with a significand of Mantissa values (2^53 in the code).     *)
(* A candidate is the sequence of edges it sends its share through; a      *)
(* single pool is a sequence of one.                                       *)
(***************************************************************************)
EXTENDS TokenGraph

CONSTANTS
    RateScale,
    TestAmount,        \* the amount the rate at zero volume is measured with
    DxShare,           \* one part in 1000: the step of a finite difference
    Bisections,        \* BINARY_SEARCH_ITERATIONS
    DustShare,         \* 1 / MIN_ROUTE_FRACTION
    MaxSplitRoutes,    \* MAX_SPLIT_ROUTES
    ImprovementBase,   \* 10_000
    MinImprovement,    \* MIN_IMPROVEMENT_BPS
    GoldenSteps,       \* GOLDEN_SECTION_STEPS
    FracScale,         \* fractions of an order are in parts of this
    Mantissa,          \* below it a float holds every number (2^53)
    Spacings,          \* powers of two: the distances of floats above it
    ScaleUnit          \* the scale of the shares is in parts of this, finer than a float

ASSUME SplitAssumption ==
    {RateScale, TestAmount, DxShare, Bisections, DustShare, MaxSplitRoutes,
     ImprovementBase, MinImprovement, GoldenSteps, FracScale, ScaleUnit} \subseteq Nat \ {0}

ASSUME FloatAssumption == Mantissa \in Nat /\ Mantissa >= 16 /\ Spacings \subseteq Nat \ {0}

-----------------------------------------------------------------------------
\* simulate: nothing in is nothing out.
Out(hops, pools, x) == IF x = 0 THEN 0 ELSE Yield(hops, pools, x)

\* A path that yields nothing has no rate, a single pool has rate 0.
Simulates(hops, pools, x) == x = 0 \/ Len(hops) = 1 \/ Out(hops, pools, x) > 0

\* The slope of the output at an amount, -1 where it cannot be measured.
MarginalRate(hops, pools, x) ==
    LET dx == IF x \div DxShare > 1 THEN x \div DxShare ELSE 1
        lo == IF x = 0 THEN 0 ELSE Monus(x, dx)
        hi == IF x = 0 THEN TestAmount ELSE x + dx
    IN  IF Simulates(hops, pools, lo) /\ Simulates(hops, pools, hi)
        THEN (RateScale * (Out(hops, pools, hi) - Out(hops, pools, lo))) \div (hi - lo)
        ELSE -1

\* n halvings of <<lo, hi>> that keep the amounts whose rate is above target.
Middle(b) == (b[1] + b[2]) \div 2

Halve(b, hops, pools, target) ==
    IF b[2] - b[1] <= 1 THEN b
    ELSE IF MarginalRate(hops, pools, Middle(b)) > target THEN <<Middle(b), b[2]>>
    ELSE <<b[1], Middle(b)>>

Halved(hops, pools, target, most) ==
    LET after[n \in 0..Bisections] ==
            IF n = 0 THEN <<0, most>> ELSE Halve(after[n - 1], hops, pools, target)
    IN  after[Bisections]

VolumeAt(hops, pools, target, most) ==
    IF target <= 0 THEN most ELSE Halved(hops, pools, target, most)[1]

Volumes(routes, pools, target, total) ==
    [i \in DOMAIN routes |-> VolumeAt(routes[i], pools, target, total)]

-----------------------------------------------------------------------------
Rates(routes, pools) ==
    {MarginalRate(routes[i], pools, 0) : i \in DOMAIN routes} \ {-1}

\* The rate at which the routes together take the whole amount.
Nearer(b, routes, pools, total) ==
    IF Total(Volumes(routes, pools, Middle(b), total)) > total
    THEN <<Middle(b), b[2]>> ELSE <<b[1], Middle(b)>>

TargetRate(routes, pools, total, highest) ==
    LET after[n \in 0..Bisections] ==
            IF n = 0 THEN <<0, highest>> ELSE Nearer(after[n - 1], routes, pools, total)
    IN  Middle(after[Bisections])

\* The float nearest to a number, of two as near the even one.
Spacing(x) == Max({1} \cup {q \in Spacings : q * Mantissa <= 2 * x})

Float(x) ==
    LET q    == Spacing(x)
        n    == x \div q
        rest == x - n * q
    IN  IF 2 * rest > q \/ (2 * rest = q /\ n % 2 = 1) THEN (n + 1) * q ELSE n * q

ScaleOf(volumes, total) == Float((Float(total) * ScaleUnit) \div Float(Total(volumes)))

Part(volume, scale) == Float(Float(volume) * scale) \div ScaleUnit

\* Mutant: the rounding is lost.
ScaledFloor(volumes, total) ==
    [i \in DOMAIN volumes |-> Part(volumes[i], ScaleOf(volumes, total))]

\* Shares in proportion to the volumes; the last takes what is left, if anything.
Scaled(volumes, total) ==
    LET parts == [i \in DOMAIN volumes |-> Part(volumes[i], ScaleOf(volumes, total))]
        n == Len(volumes)
    IN  IF Total(volumes) = total THEN volumes
        ELSE [parts EXCEPT ![n] = Monus(total, Total([i \in 1..(n - 1) |-> parts[i]]))]

\* Dust goes to the largest share, the last of equals.
Dusted(shares, least) ==
    LET large == CHOOSE i \in DOMAIN shares :
                    \A j \in DOMAIN shares : \/ shares[i] > shares[j]
                                             \/ shares[i] = shares[j] /\ i >= j
        dust == {i \in DOMAIN shares : shares[i] < least /\ i # large}
    IN  [i \in DOMAIN shares |->
           IF i = large THEN shares[i] + Total([j \in DOMAIN shares |->
                                                  IF j \in dust THEN shares[j] ELSE 0])
           ELSE IF i \in dust THEN 0 ELSE shares[i]]

Leg(hops, pools, amount) ==
    [hops |-> hops, in |-> amount, out |-> Out(hops, pools, amount),
     calls |-> Interactions(hops, pools, amount)]

Legs(routes, pools, shares) ==
    [i \in DOMAIN shares |-> Leg(routes[i], pools, shares[i])]

\* The legs that yield something: a share whose leg fails is not routed.
Working(legs) == {i \in DOMAIN legs : legs[i].in > 0 /\ legs[i].out > 0}

\* optimize_split: the shares of a split worth making, or none.
SharesOf(volumes, total) ==
    IF Total(volumes) = 0 THEN <<>> ELSE Scaled(volumes, total)

WorthSplitting(shares, least) ==
    Cardinality({i \in DOMAIN shares : shares[i] >= least}) >= 2

KeptShares(shares, least) ==
    IF WorthSplitting(shares, least) THEN Dusted(shares, least) ELSE <<>>

Shares(routes, pools, total, rates) ==
    IF rates = {} THEN <<>>
    ELSE KeptShares(SharesOf(Volumes(routes, pools,
                                     TargetRate(routes, pools, total, Max(rates)), total),
                             total),
                    total \div DustShare)

\* find_graph_split: what legs make of an order, if that is worth it against
\* the best route alone.  The gas is that of product pools whatever the legs
\* use; the surplus is capped by the amount sold.  What the failed shares leave
\* unsold is not kept by the code.
Bundle(all, gasPrice) ==
    LET legs == Keeping(all, Working(all))
        calls == Concat([i \in DOMAIN legs |-> legs[i].calls])
    IN  [legs |-> legs, calls |-> calls,
         executed |-> Total([i \in DOMAIN legs |-> legs[i].in]),
         output |-> Total([i \in DOMAIN legs |-> legs[i].out]),
         unsold |-> Total([i \in DOMAIN all |-> IF i \in Working(all) THEN 0 ELSE all[i].in]),
         cost |-> EstimateCost(Len(calls), "product", gasPrice)]

Improves(o, b, single) ==
    LET net == b.output - o.buy - b.cost
    IN  /\ net - (single.output - o.buy - single.cost)
             > (single.output \div ImprovementBase) * MinImprovement
        /\ b.output >= o.buy
        /\ net > 0

SplitOf(o, b, single) ==
    IF Len(b.legs) < 2 \/ ~Improves(o, b, single) THEN <<>>
    ELSE << [order |-> o, legs |-> b.legs, executed |-> b.executed, output |-> b.output,
             unsold |-> b.unsold, surplus |-> Lesser(b.output - o.buy, o.sell), cost |-> b.cost,
             net |-> b.output - o.buy - b.cost, calls |-> b.calls] >>

SplitAcross(o, routes, pools, gasPrice) ==
    LET hops == [i \in DOMAIN routes |-> routes[i].path.hops]
    IN  IF o.sell = 0 \/ Len(routes) < 2 THEN <<>>
        ELSE SplitOf(o, Bundle(Legs(hops, pools, Shares(hops, pools, o.sell, Rates(hops, pools))),
                               gasPrice),
                     routes[1])

-----------------------------------------------------------------------------
\* golden_section_search: where f is largest between 5% and 95%.
Inner(a, b) == (382 * (b - a)) \div 1000

Narrowed(f, s) ==
    LET a == s[1]  b == s[2]
    IN  IF b - a <= 1 THEN s
        ELSE IF f[a + Inner(a, b)] < f[b - Inner(a, b)] THEN <<a + Inner(a, b), b>>
        ELSE <<a, b - Inner(a, b)>>

GoldenSection(f) ==
    LET after[n \in 0..GoldenSteps] ==
            IF n = 0 THEN <<(5 * FracScale) \div 100, (95 * FracScale) \div 100>>
            ELSE Narrowed(f, after[n - 1])
    IN  Middle(after[GoldenSteps])

\* find_split: the best of two pools that trade the order's pair.
Through(o, k) == <<[pool |-> k, from |-> o.sellToken, to |-> o.buyToken, weight |-> 0]>>

TwoLegs(o, pools, i, j, first) ==
    << Leg(Through(o, i), pools, first), Leg(Through(o, j), pools, o.sell - first) >>

Pair(o, legs, output) ==
    [order |-> o, legs |-> legs, executed |-> o.sell, output |-> output,
     unsold |-> 0, surplus |-> Monus(output, o.buy), cost |-> 0,
     net |-> Monus(output, o.buy), calls |-> legs[1].calls \o legs[2].calls]

PairOf(o, legs) == Pair(o, legs, legs[1].out + legs[2].out)

BestShare(o, pools, i, j) ==
    LET first(f) == (o.sell * f) \div FracScale
    IN  GoldenSection([f \in 0..FracScale |-> Out(Through(o, i), pools, first(f))
                                            + Out(Through(o, j), pools, o.sell - first(f))])

PairSplit(o, pools, i, j) ==
    PairOf(o, TwoLegs(o, pools, i, j, (o.sell * BestShare(o, pools, i, j)) \div FracScale))

\* A pair must beat the best pool alone by the minimum.
Beats(o, s, alone) ==
    /\ s.legs[1].in > 0 /\ s.legs[2].in > 0
    /\ s.output >= o.buy
    /\ Monus(s.output, alone.output) > (alone.output \div ImprovementBase) * MinImprovement

\* Of equals, the pair met first.
BestPair(pairs) ==
    LET pool(s, k) == s.legs[k].hops[1].pool
        before(s, t) == \/ s.output > t.output
                        \/ s.output = t.output /\ pool(s, 1) < pool(t, 1)
                        \/ s.output = t.output /\ pool(s, 1) = pool(t, 1) /\ pool(s, 2) <= pool(t, 2)
    IN  IF pairs = {} THEN <<>> ELSE << CHOOSE s \in pairs : \A t \in pairs : before(s, t) >>

Pairs(o, pools, trading) ==
    {PairSplit(o, pools, x[1], x[2]) : x \in {y \in trading \X trading : y[1] < y[2]}}

\* A leg that cannot be quoted, or a sum that overflows, ends the search: the
\* pairs that were already compared are forgotten.
Fails(p, s, t, amount) ==
    IF p.kind = "concentrated" THEN SwapOut(p, s, t, amount) = 0
    ELSE ~ /\ p.reserve[s] > 0 /\ p.reserve[t] > 0
           /\ Fits(amount * FeeMultiplier * p.reserve[t])
           /\ Fits(p.reserve[s] * FeeBase + amount * FeeMultiplier)

Aborts(o, pools, s) ==
    /\ s.legs[1].in > 0 /\ s.legs[2].in > 0
    /\ \/ \E k \in {1, 2} :
            Fails(pools[s.legs[k].hops[1].pool], o.sellToken, o.buyToken, s.legs[k].in)
       \/ ~Fits(s.output)

FindSplit(o, pools) ==
    LET tried == Pairs(o, pools, {i \in DOMAIN pools : Trades(pools[i], o)})
    IN  IF o.sell = 0 \/ SolveOrder(o, pools) = <<>> \/ \E s \in tried : Aborts(o, pools, s)
        THEN <<>>
        ELSE BestPair({s \in tried : Beats(o, s, SolveOrder(o, pools)[1])})
=============================================================================
