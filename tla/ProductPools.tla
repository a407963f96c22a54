---------------------------- MODULE ProductPools -----------------------------
(***************************************************************************)
(* Pools with two reserves: Uniswap V2 and SushiSwap (uniswap_v2.rs,       *)
(* sushiswap.rs) and Camelot V2 (camelot_v2.rs), whose fee depends on the  *)
(* direction and whose stable pools follow x3y + xy3 = k.                  *)
(***************************************************************************)
EXTENDS PoolReads

ProductOut(in, out, amount, fee) ==
    LET taken == amount * (Bps - fee)
    IN  IF in = 0 \/ out = 0 \/ fee > Bps THEN None
        ELSE IF ~Fits(taken * out) \/ ~Fits(in * Bps + taken) THEN None
        ELSE (taken * out) \div (in * Bps + taken)

\* Mutant: the input is not rounded up.
ProductInFloor(in, out, amount, fee) ==
    IF in = 0 \/ out = 0 \/ amount >= out \/ fee >= Bps THEN None
    ELSE (in * amount * Bps) \div ((out - amount) * (Bps - fee))

ProductIn(in, out, amount, fee) ==
    IF in = 0 \/ out = 0 \/ amount >= out \/ fee >= Bps THEN None
    ELSE IF ~Fits(in * amount * Bps) \/ ~Fits((out - amount) * (Bps - fee)) THEN None
    ELSE (in * amount * Bps) \div ((out - amount) * (Bps - fee)) + 1

Reserves(p, zeroForOne) ==
    IF zeroForOne THEN <<p.reserve0, p.reserve1>> ELSE <<p.reserve1, p.reserve0>>

V2Out(p, amount, zeroForOne) ==
    LET r == Reserves(p, zeroForOne) IN ProductOut(r[1], r[2], amount, p.fee)

V2In(p, amount, zeroForOne) ==
    LET r == Reserves(p, zeroForOne) IN ProductIn(r[1], r[2], amount, p.fee)

\* SushiSwap re-exports the two.
SushiOut(p, amount, zeroForOne) == V2Out(p, amount, zeroForOne)
SushiIn(p, amount, zeroForOne)  == V2In(p, amount, zeroForOne)

-----------------------------------------------------------------------------
(* Camelot V2.                                                             *)

\* stable_get_y: x3y + xy3 grows with y, Newton's method finds the root.
StableK(x, y) == x * y * (x * x + y * y)

\* The floor of what the root leaves of the reserve: the largest amount that
\* keeps the invariant at or above k.
StableOut(in, out, amount, fee) ==
    IF in = 0 \/ out = 0 \/ amount = 0 \/ fee > Bps \/ ~Fits(amount * (Bps - fee)) THEN None
    ELSE LET x == in + (amount * (Bps - fee)) \div Bps
             k == StableK(in, out)
         IN  IF x = in THEN None
             ELSE Largest(0, out, LAMBDA dy : StableK(x, out - dy) >= k)

DirectionFee(p, zeroForOne) == IF zeroForOne THEN p.fee01 ELSE p.fee10

CamelotOut(p, amount, zeroForOne) ==
    LET r == Reserves(p, zeroForOne)
        fee == DirectionFee(p, zeroForOne)
    IN  IF p.stable THEN StableOut(r[1], r[2], amount, fee)
        ELSE ProductOut(r[1], r[2], amount, fee)

\* A stable pool has no inverse.
CamelotIn(p, amount, zeroForOne) ==
    LET r == Reserves(p, zeroForOne)
    IN  IF p.stable THEN None
        ELSE ProductIn(r[1], r[2], amount, DirectionFee(p, zeroForOne))

-----------------------------------------------------------------------------
(* Discovery and refresh.  r holds the answer to each call.                *)

FetchV2(r, kind, fee) ==
    IF r.pair = Err THEN Failed
    ELSE IF ~IsAddress(r.pair) THEN NotFound
    ELSE IF ~IsAddress(r.token0) \/ ~IsAddress(r.token1) \/ r.reserves \in {Err, Bad} THEN Failed
    ELSE Found([kind |-> kind, address |-> r.pair, tokens |-> <<r.token0, r.token1>>,
                reserve0 |-> r.reserves[1], reserve1 |-> r.reserves[2], fee |-> fee])

FetchSushi(r, fee) == FetchV2(r, "sushi", fee)

SyncV2(p, r) ==
    IF r.reserves \in {Err, Bad} THEN Stuck(p)
    ELSE Synced([p EXCEPT !.reserve0 = r.reserves[1], !.reserve1 = r.reserves[2]])

\* A fee that does not decode is 3 %, a type that does not decode is volatile.
FetchCamelot(r, defaultFee) ==
    IF r.pair = Err THEN Failed
    ELSE IF ~IsAddress(r.pair) THEN NotFound
    ELSE IF \/ AnyFailed(<<r.fee01, r.fee10, r.stable>>)
            \/ ~IsAddress(r.token0) \/ ~IsAddress(r.token1) \/ r.reserves \in {Err, Bad} THEN Failed
    ELSE Found([kind |-> "camelot2", address |-> r.pair, tokens |-> <<r.token0, r.token1>>,
                reserve0 |-> r.reserves[1], reserve1 |-> r.reserves[2],
                fee01 |-> DecodedOr(r.fee01, defaultFee), fee10 |-> DecodedOr(r.fee10, defaultFee),
                stable |-> DecodedOr(r.stable, FALSE)])

\* The reserves are written before the fees are asked for: a fee that cannot
\* be read fails the refresh and leaves new reserves with old fees.
SyncCamelot(p, r) ==
    IF r.reserves \in {Err, Bad} THEN Stuck(p)
    ELSE LET q == [p EXCEPT !.reserve0 = r.reserves[1], !.reserve1 = r.reserves[2]]
         IN  IF AnyFailed(<<r.fee01, r.fee10>>) THEN Stuck(q)
             ELSE Synced([q EXCEPT !.fee01 = DecodedOr(r.fee01, @),
                                   !.fee10 = DecodedOr(r.fee10, @)])
==============================================================================
