---------------------------- MODULE DirectRouting ----------------------------
(***************************************************************************)
(* An order and the pools of its auction: solver/direct.rs, with the score *)
(* normalisation and the multiplication helper every strategy shares.      *)
(*                                                                         *)
(* Amounts are u128: every checked_* that fails drops the route, as in the *)
(* code.  A result that may be missing is a sequence of length at most 1.  *)
(* An order is known by its uid: [uid, sellToken, buyToken, sell, buy,     *)
(* kind, partial, limit]; a pool is [kind, tokens, reserve].               *)
(***************************************************************************)
EXTENDS Integers, Sequences, SequencesExt, Listing

CONSTANTS
    Tokens,
    HighCompetition,           \* tokens whose pairs are left to others
    FeeBase,                   \* 10_000
    FeeMultiplier,             \* what a product pool leaves of FeeBase
    MaxAmount,                 \* u128::MAX
    Unit,                      \* 1e18, the scale of a reference price
    ConcentratedOut(_, _, _)   \* output of a tick pool: its own module

ASSUME RoutingAssumption ==
    /\ {FeeBase, FeeMultiplier, MaxAmount, Unit} \subseteq Nat \ {0}
    /\ FeeMultiplier <= FeeBase
    /\ HighCompetition \subseteq Tokens

Fits(x) == x <= MaxAmount
Capped(x) == IF Fits(x) THEN x ELSE MaxAmount
Monus(a, b) == IF a > b THEN a - b ELSE 0
Lesser(a, b) == IF a < b THEN a ELSE b

\* mul_div(a, b, c).unwrap_or(d): exact even when a * b overflows, as long as
\* the two products of the long division fit.
MulDivOr(a, b, c, d) ==
    IF c > 0 /\ ( \/ Fits(a * b)
                  \/ /\ Fits((a \div c) * b) /\ Fits((a % c) * b)
                     /\ Fits((a * b) \div c) )
    THEN (a * b) \div c
    ELSE d

\* Reference prices are integers here: the fallback for decimal strings is
\* left out.
Normalized(surplus, price) ==
    IF Fits(surplus * price)
    THEN (surplus * price) \div Unit
    ELSE Capped((surplus \div Unit) * price)

HighCompetitionPair(o) == {o.sellToken, o.buyToken} \subseteq HighCompetition

-----------------------------------------------------------------------------
\* How an order is filled by one pool: amount in, amount out.
Route(o, kind, in, out) ==
    [order |-> o, kind |-> kind, executed |-> in, output |-> out,
     surplus |-> Monus(out, o.buy)]

Trades(p, o) == {o.sellToken, o.buyToken} \subseteq p.tokens

\* A buy order asks for the input its exact output needs.  Nothing compares
\* that input with what the order is willing to sell.
ProductIn(o, rIn, rOut) ==
    IF o.kind = "sell" THEN {o.sell}
    ELSE IF o.buy < rOut /\ Fits(rIn * o.buy * FeeBase)
                         /\ Fits((rOut - o.buy) * FeeMultiplier)
         THEN {1 + ((rIn * o.buy * FeeBase) \div ((rOut - o.buy) * FeeMultiplier))}
         ELSE {}

ProductOut(in, rIn, rOut) ==
    (in * FeeMultiplier * rOut) \div (rIn * FeeBase + in * FeeMultiplier)

ProductRoutes(o, p) ==
    LET rIn  == p.reserve[o.sellToken]
        rOut == p.reserve[o.buyToken]
        ok(in) == /\ rIn > 0 /\ rOut > 0
                  /\ Fits(in * FeeMultiplier * rOut)
                  /\ Fits(rIn * FeeBase + in * FeeMultiplier)
                  /\ ProductOut(in, rIn, rOut) >= o.buy
    IN  { Route(o, p.kind, in, IF o.kind = "buy" THEN o.buy
                                ELSE ProductOut(in, rIn, rOut)) :
            in \in {x \in ProductIn(o, rIn, rOut) : ok(x)} }

\* A tick pool is given the whole sell amount, for buy orders too.
ConcentratedRoutes(o, p) ==
    { Route(o, p.kind, o.sell, out) :
        out \in {x \in {ConcentratedOut(p, o.sellToken, o.sell)} : x >= o.buy} }

\* Nobody registers Curve or Balancer pools, so stable and weighted pools go
\* the way of the product pools.
PoolRoutes(o, p) ==
    IF ~Trades(p, o) THEN {}
    ELSE IF p.kind = "concentrated" THEN ConcentratedRoutes(o, p)
                                    ELSE ProductRoutes(o, p)

\* The route with the largest output; of equals, the pool listed first.
SolveOrder(o, pools) ==
    LET found == {i \in DOMAIN pools : PoolRoutes(o, pools[i]) # {}}
        at(i) == CHOOSE r \in PoolRoutes(o, pools[i]) : TRUE
    IN  IF o.sell = 0 \/ o.buy = 0 \/ found = {} THEN <<>>
        ELSE << at(CHOOSE i \in found : \A j \in found :
                     \/ at(i).output > at(j).output
                     \/ at(i).output = at(j).output /\ i <= j) >>
=============================================================================
