----------------------------- MODULE PricedPools -----------------------------
(***************************************************************************)
(* Pools priced from outside: GMX V2 (gmx_v2.rs), whose price is that of   *)
(* an oracle, and DODO (dodo.rs), which moves around the price it is       *)
(* given.                                                                  *)
(***************************************************************************)
EXTENDS PoolReads

CONSTANTS
    One,            \* 10^18: the unit of DODO's i, k and fee, and of GMX's impact factors
    MaxBonus,       \* 0.5 %, over Bps
    MaxPenalty      \* 5 %, over Bps

ASSUME PricedAssumption == One \in Nat \ {0} /\ MaxBonus \in 0..Bps /\ MaxPenalty \in 0..Bps

Abs(x) == IF x < 0 THEN -x ELSE x

-----------------------------------------------------------------------------
(* GMX V2.                                                                 *)

\* The price impact, over Bps: a bonus (negative) when the swap brings the
\* sides closer, a penalty otherwise, both in proportion to the pool.
Impact(p, value, longToShort) ==
    LET long  == p.long * p.longPrice
        short == p.short * p.shortPrice
        before == Abs(long - short)
        after == IF longToShort THEN Abs(long + value - (short - value))
                 ELSE Abs(long - value - (short + value))
        share(change, factor) == (change * factor * Bps) \div ((long + short) * One)
    IN  IF long + short = 0 THEN 0
        ELSE IF after < before THEN -Capped(share(before - after, p.bonus), MaxBonus)
        ELSE Capped(share(after - before, p.penalty), MaxPenalty)

\* The pool's amounts must be positive but never bound what it pays.
GmxOut(p, amount, longToShort) ==
    LET in  == IF longToShort THEN p.longPrice ELSE p.shortPrice
        out == IF longToShort THEN p.shortPrice ELSE p.longPrice
        held == IF longToShort THEN p.short ELSE p.long
    IN  IF 0 \in {amount, in, out, held} THEN None
        ELSE (amount * in * (Bps - p.fee) * (Bps - Impact(p, amount * in, longToShort)))
                 \div (out * Bps * Bps)

\* 0.1 % stands for the impact.
GmxIn(p, amount, longToShort) ==
    LET in  == IF longToShort THEN p.longPrice ELSE p.shortPrice
        out == IF longToShort THEN p.shortPrice ELSE p.longPrice
    IN  IF 0 \in {amount, in, out} THEN None
        ELSE (amount * out * Bps * 1000) \div (in * (Bps - p.fee) * 999) + 1

\* Prices and impact factors start at zero.
FetchGmx(address, r, fee) ==
    IF r.market = Err THEN Failed
    ELSE IF r.market = Bad \/ ~IsAddress(r.long) \/ ~IsAddress(r.short) THEN NotFound
    ELSE IF AnyFailed(<<r.longAmount, r.shortAmount>>) THEN Failed
    ELSE Found([kind |-> "gmx", address |-> address, tokens |-> <<r.long, r.short>>, fee |-> fee,
                long |-> DecodedOr(r.longAmount, 0), short |-> DecodedOr(r.shortAmount, 0),
                bonus |-> 0, penalty |-> 0, longPrice |-> 0, shortPrice |-> 0])

\* The amounts alone: no call sets a price.
SyncGmx(p, r) ==
    IF AnyFailed(<<r.longAmount, r.shortAmount>>) THEN Stuck(p)
    ELSE Synced([p EXCEPT !.long = DecodedOr(r.longAmount, @), !.short = DecodedOr(r.shortAmount, @)])

-----------------------------------------------------------------------------
(* DODO: price (1 - k) + k * (target / reserve)^2 times i, integrated over *)
(* the amount.                                                             *)

\* The integral, over One * reserve * (reserve + amount).
Curve(k, reserve, target, amount) ==
    amount * ((One - k) * reserve * (reserve + amount) + k * target * target)

SellBase(p, amount) ==
    LET b == p.base
    IN  IF 0 \in {b, p.baseTarget, amount, p.i} \/ p.fee >= One THEN None
        ELSE (p.i * Curve(p.k, b, p.baseTarget, amount) * (One - p.fee))
                 \div (One * One * One * b * (b + amount))

\* The quote side is taken as a mirror of the base side.
SellQuote(p, amount) ==
    LET q == p.quote
    IN  IF 0 \in {q, p.quoteTarget, amount, p.i} \/ p.fee >= One THEN None
        ELSE (Curve(p.k, q, p.quoteTarget, amount) * (One - p.fee))
                 \div (p.i * One * q * (q + amount))

DodoOut(p, amount, sellBase) == IF sellBase THEN SellBase(p, amount) ELSE SellQuote(p, amount)

FetchDodo(address, r) ==
    IF AnyFailed(<<r.base, r.quote, r.i, r.k, r.baseReserve, r.quoteReserve, r.baseTarget, r.quoteTarget, r.fee>>)
    THEN Failed
    ELSE IF ~IsAddress(r.base) \/ ~IsAddress(r.quote) THEN NotFound
    ELSE IF AnyFailed(<<r.baseDecimals, r.quoteDecimals>>) THEN Failed
    ELSE Found([kind |-> "dodo", address |-> address, tokens |-> <<r.base, r.quote>>,
                i |-> DecodedOr(r.i, 0), k |-> DecodedOr(r.k, 0), fee |-> DecodedOr(r.fee, 0),
                base |-> DecodedOr(r.baseReserve, 0), quote |-> DecodedOr(r.quoteReserve, 0),
                baseTarget |-> DecodedOr(r.baseTarget, 0), quoteTarget |-> DecodedOr(r.quoteTarget, 0)])

\* k and the fee stay those of the discovery.
SyncDodo(p, r) ==
    IF AnyFailed(<<r.baseReserve, r.quoteReserve, r.baseTarget, r.quoteTarget, r.i>>) THEN Stuck(p)
    ELSE Synced([p EXCEPT !.base = DecodedOr(r.baseReserve, @), !.quote = DecodedOr(r.quoteReserve, @),
                          !.baseTarget = DecodedOr(r.baseTarget, @),
                          !.quoteTarget = DecodedOr(r.quoteTarget, @), !.i = DecodedOr(r.i, @)])
==============================================================================
