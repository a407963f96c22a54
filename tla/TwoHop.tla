------------------------------- MODULE TwoHop --------------------------------
(***************************************************************************)
(* Routes through one intermediate token: solver/router.rs.                *)
(*                                                                         *)
(* A product pool pays out the first other key of its token map, which is  *)
(* not the token asked for when it holds more than two: keys is that       *)
(* order, fixed while the map lives.                                       *)
(***************************************************************************)
EXTENDS TokenGraph

CONSTANTS
    Bridges,      \* intermediaries_for_chain
    PairProbe     \* the reference swap two pools of a pair are compared with

ASSUME TwoHopAssumption == Bridges \in Seq(Tokens) /\ PairProbe \in Nat

Other(p, s) == IF p.keys[1] # s THEN p.keys[1] ELSE p.keys[2]

\* cp_swap_out / estimate_swap_out: whether a pool quotes, and what.
Quotes(p, s, amount) ==
    IF p.kind = "concentrated" THEN Cast(ConcentratedOut(p, s, amount)) > 0
    ELSE LET rIn == p.reserve[s]  rOut == p.reserve[Other(p, s)]
         IN  /\ rIn > 0 /\ rOut > 0 /\ amount > 0
             /\ Fits(amount * FeeMultiplier * rOut)
             /\ Fits(rIn * FeeBase + amount * FeeMultiplier)

Quote(p, s, amount) ==
    IF p.kind = "concentrated" THEN Cast(ConcentratedOut(p, s, amount))
    ELSE ProductOut(amount, p.reserve[s], p.reserve[Other(p, s)])

\* The pool of a pair that quotes most for the probe; of equals, the first.
BestPool(pools, s, t) ==
    LET quoting == {i \in DOMAIN pools : /\ {s, t} \subseteq pools[i].tokens
                                         /\ Quotes(pools[i], s, PairProbe)}
        at(i) == Quote(pools[i], s, PairProbe)
    IN  {i \in quoting : \A j \in quoting : at(i) > at(j) \/ (at(i) = at(j) /\ i <= j)}

Call(i, s, t, in, out) == [pool |-> i, from |-> s, to |-> t, in |-> in, out |-> out]

\* try_two_hop.  The order's kind is not asked for.
Via(o, pools, mid) ==
    LET legs == {x \in BestPool(pools, o.sellToken, mid) \X BestPool(pools, mid, o.buyToken) :
                   Quotes(pools[x[1]], o.sellToken, o.sell)}
        half(x) == Quote(pools[x[1]], o.sellToken, o.sell)
        out(x) == Quote(pools[x[2]], mid, half(x))
    IN  { [order |-> o, executed |-> o.sell, output |-> out(x),
           surplus |-> Monus(out(x), o.buy), cost |-> 0,
           calls |-> << Call(x[1], o.sellToken, mid, o.sell, half(x)),
                        Call(x[2], mid, o.buyToken, half(x), out(x)) >>] :
            x \in {y \in legs : /\ half(y) > 0
                                /\ Quotes(pools[y[2]], mid, half(y))
                                /\ out(y) >= o.buy} }

\* find_best_route: the bridge with the largest surplus; of equals, the first.
FindBestRoute(o, pools) ==
    LET usable == {i \in DOMAIN Bridges : /\ Bridges[i] \notin {o.sellToken, o.buyToken}
                                          /\ Via(o, pools, Bridges[i]) # {}}
        at(i) == CHOOSE r \in Via(o, pools, Bridges[i]) : TRUE
    IN  IF usable = {} THEN <<>>
        ELSE << at(CHOOSE i \in usable : \A j \in usable :
                     \/ at(i).surplus > at(j).surplus
                     \/ at(i).surplus = at(j).surplus /\ i <= j) >>

SolveRouted(orders, pools) ==
    Filled([i \in DOMAIN orders |-> FindBestRoute(orders[i], pools)])
=============================================================================
