-------------------------- MODULE ConcentratedPools --------------------------
(***************************************************************************)
(* Pools with concentrated liquidity: Uniswap V3 with its tick traversal   *)
(* (uniswap_v3.rs), Camelot V3 (camelot_v3.rs) and the active bin of a     *)
(* Trader Joe pair (trader_joe.rs).                                        *)
(*                                                                         *)
(* A square-root price is an integer over Q, a tick a record of its index  *)
(* and the liquidity that starts (net > 0) or ends (net < 0) there going   *)
(* up.  A step of the traversal is a record of what is left to sell, what  *)
(* was bought, the price and the active liquidity; lost means that an      *)
(* intermediate value overflowed and the whole quote is None.              *)
(***************************************************************************)
EXTENDS PoolReads, SequencesExt

CONSTANTS
    Q,              \* 2^96
    SqrtAt(_),      \* the square-root price at a tick, over Q
    MinSqrt,        \* the price at MIN_TICK
    MaxSqrt,        \* the price at MAX_TICK
    BinPrice(_)     \* the price of a bin, a pair <<numerator, denominator>>

ASSUME ConcentratedAssumption ==
    Q \in Nat \ {0} /\ MinSqrt \in Nat \ {0} /\ MaxSqrt \in Nat

-----------------------------------------------------------------------------
(* One range.                                                              *)

\* Token0 between two prices.  While L * delta fits, the first division
\* truncates before the multiplication by Q, which may overflow; otherwise
\* the amount is a float.
Token0In(L, lower, upper) ==
    IF lower >= upper THEN 0
    ELSE IF ~Fits(L * (upper - lower)) THEN (L * (upper - lower) * Q) \div (lower * upper)
    ELSE IF ~Fits(((L * (upper - lower)) \div lower) * Q) THEN None
    ELSE (((L * (upper - lower)) \div lower) * Q) \div upper

Token1In(L, lower, upper) ==
    IF lower >= upper THEN 0 ELSE (L * (upper - lower)) \div Q

Between(x, lower, upper) == IF x < lower THEN lower ELSE Capped(x, upper)

Taken(used, got, price) == [used |-> used, got |-> got, price |-> price, lost |-> None \in {used, got}]

\* compute_step_zero_for_one: sell token0 down to a lower price.
StepDown(price, target, L, left) ==
    LET full == Token0In(L, target, price)
        stop == Between((L * Q * price) \div (L * Q + left * price), target, price)
    IN  IF L = 0 \/ price <= target THEN Taken(0, 0, price)
        ELSE IF full = None \/ left >= full THEN Taken(full, Token1In(L, target, price), target)
        ELSE Taken(left, Token1In(L, stop, price), stop)

\* compute_step_one_for_zero: sell token1 up to a higher price.
StepUp(price, target, L, left) ==
    LET full == Token1In(L, price, target)
        stop == Between(price + (left * Q) \div L, price, target)
    IN  IF L = 0 \/ price >= target THEN Taken(0, 0, price)
        ELSE IF left >= full THEN Taken(full, Token0In(L, price, target), target)
        ELSE Taken(left, Token0In(L, price, stop), stop)

-----------------------------------------------------------------------------
(* The traversal.                                                          *)

Walker(left, price, L) ==
    [left |-> left, out |-> 0, price |-> price, L |-> L, crossed |-> 0, lost |-> FALSE]

\* Liquidity that would turn negative is zero.
CrossedTick(w, change) ==
    [w EXCEPT !.L = IF @ + change > 0 THEN @ + change ELSE 0, !.crossed = @ + 1]

Sold(w, taken) ==
    [w EXCEPT !.left = IF @ > taken.used THEN @ - taken.used ELSE 0, !.out = @ + taken.got,
              !.price = taken.price, !.lost = taken.lost]

\* Mutant: the tick that ends the range does not change the liquidity.
VisitNoCross(w, tick, down) ==
    LET at == SqrtAt(tick.index)
        step == IF down THEN StepDown(w.price, at, w.L, w.left) ELSE StepUp(w.price, at, w.L, w.left)
    IN  IF w.left = 0 \/ w.lost \/ w.L = 0 \/ (w.price < at /\ down) \/ (w.price > at /\ ~down) THEN w
        ELSE Sold(w, step)

\* A tick the price has passed is crossed at once; with no liquidity the
\* price jumps to the tick; otherwise sell up to it and cross it if reached.
Visit(w, tick, down) ==
    LET at == SqrtAt(tick.index)
        change == IF down THEN -tick.net ELSE tick.net
        passed == IF down THEN w.price < at ELSE w.price > at
        step == IF down THEN StepDown(w.price, at, w.L, w.left) ELSE StepUp(w.price, at, w.L, w.left)
    IN  IF w.left = 0 \/ w.lost THEN w
        ELSE IF passed THEN CrossedTick(w, change)
        ELSE IF w.L = 0 THEN CrossedTick([w EXCEPT !.price = at], change)
        ELSE IF step.price = at /\ ~step.lost THEN CrossedTick(Sold(w, step), change)
        ELSE Sold(w, step)

\* What is left is sold against the end of the price scale.
ToTheEnd(w, down) ==
    IF w.left = 0 \/ w.L = 0 \/ w.lost THEN w
    ELSE Sold(w, IF down THEN StepDown(w.price, MinSqrt, w.L, w.left)
                 ELSE StepUp(w.price, MaxSqrt, w.L, w.left))

Ahead(ticks, tick, down) ==
    IF down THEN Reverse(SelectSeq(ticks, LAMBDA t : t.index <= tick))
    ELSE SelectSeq(ticks, LAMBDA t : t.index > tick)

Traverse(p, left, down) ==
    ToTheEnd(FoldLeft(LAMBDA w, t : Visit(w, t, down), Walker(left, p.sqrt, p.liquidity),
                      Ahead(p.ticks, p.tick, down)), down)

WithTicks(p, amount, down) ==
    LET left == (amount * (Ppm - p.fee)) \div Ppm
        w == Traverse(p, left, down)
    IN  IF p.sqrt = 0 \/ amount = 0 \/ p.fee > Ppm \/ ~Fits(amount * (Ppm - p.fee)) \/ left = 0 THEN None
        ELSE IF w.lost THEN None ELSE w.out

\* Without ticks the pool is one range of virtual reserves L / sqrt, L * sqrt.
Approx(p, amount, down) ==
    LET fed == amount * (Ppm - p.fee)        \* over Ppm
        out == IF down THEN (p.liquidity * p.sqrt * fed * p.sqrt)
                            \div (Q * (p.liquidity * Q * Ppm + fed * p.sqrt))
               ELSE (p.liquidity * Q * fed * Q)
                            \div (p.sqrt * (p.liquidity * p.sqrt * Ppm + fed * Q))
    IN  IF 0 \in {p.sqrt, p.liquidity, amount} \/ p.fee >= Ppm THEN None ELSE out

V3Out(p, amount, down) ==
    IF p.ticks = <<>> THEN Approx(p, amount, down) ELSE WithTicks(p, amount, down)

-----------------------------------------------------------------------------
(* Reading a Uniswap V3 pool.                                              *)

\* decode_slot0: the 64 digits of the tick are parsed as a u32, so that the
\* sign-extended word of a negative tick does not parse.
DecodedSlot(slot) ==
    IF slot \in {Err, Bad} THEN Bad ELSE IF slot.tick < 0 THEN Bad ELSE slot

FetchV3(r, fee) ==
    IF r.pair = Err THEN Failed
    ELSE IF ~IsAddress(r.pair) THEN NotFound
    ELSE IF \/ ~IsAddress(r.token0) \/ ~IsAddress(r.token1)
            \/ DecodedSlot(r.slot) = Bad \/ r.liquidity \in {Err, Bad} THEN Failed
    ELSE Found([kind |-> "v3", address |-> r.pair, tokens |-> <<r.token0, r.token1>>, fee |-> fee,
                sqrt |-> r.slot.sqrt, tick |-> r.slot.tick, liquidity |-> r.liquidity, ticks |-> <<>>])

\* The ticks stay those of an earlier price.
SyncV3(p, r) ==
    IF DecodedSlot(r.slot) = Bad \/ r.liquidity \in {Err, Bad} THEN Stuck(p)
    ELSE Synced([p EXCEPT !.sqrt = r.slot.sqrt, !.tick = r.slot.tick, !.liquidity = r.liquidity])

\* decode_tick_info: the 64 digits of the net are parsed as a u128, so that
\* the sign-extended word of a negative one does not parse.
DecodesNet(tick) == tick.net >= 0

\* What the contract says of a tick: nothing starts or ends at one that has
\* been cleared since its word was read.
NetAt(i, initialised) ==
    LET own == {t \in initialised : t.index = i} IN IF own = {} THEN 0 ELSE (CHOOSE t \in own : TRUE).net

\* fetch_tick_bitmap: the ticks that the words around the price name, each
\* with its net, in ascending order, but for those that do not decode.
FetchTicks(words, initialised) ==
    LET Insert(ticks, t) == SelectSeq(ticks, LAMBDA u : u.index < t.index) \o <<t>>
                                \o SelectSeq(ticks, LAMBDA u : u.index > t.index)
        named == {[index |-> i, net |-> NetAt(i, initialised)] : i \in words}
    IN  FoldSet(LAMBDA t, ticks : Insert(ticks, t), <<>>, {t \in named : DecodesNet(t)})

\* One call for all words, a later one for all their ticks, which none asks
\* for where no word names one; answers that do not decode are skipped.
PopulateTicks(p, r) ==
    IF r.words = Err THEN Stuck(p)
    ELSE IF r.words \in {Bad, {}} THEN Synced([p EXCEPT !.ticks = <<>>])
    ELSE IF r.ticks = Err THEN Stuck(p)
    ELSE Synced([p EXCEPT !.ticks = IF r.ticks = Bad THEN <<>> ELSE FetchTicks(r.words, r.ticks)])

-----------------------------------------------------------------------------
(* Camelot V3: one fee that moves, and a quote at the current price.       *)

\* Q64 is the model's Q: the price over it is sqrt * sqrt / Q.
FlatOut(p, amount, down) ==
    LET price == (p.sqrt * p.sqrt) \div Q
        out == IF down THEN (amount * price) \div Q ELSE (amount * Q) \div price
    IN  IF 0 \in {p.sqrt, p.liquidity, amount} \/ p.fee > Ppm \/ price = 0 THEN None
        ELSE IF ~Fits(amount * (IF down THEN price ELSE Q)) \/ ~Fits(out * (Ppm - p.fee)) THEN None
        ELSE (out * (Ppm - p.fee)) \div Ppm

FetchCamelotV3(r) ==
    IF r.pair = Err THEN Failed
    ELSE IF ~IsAddress(r.pair) THEN NotFound
    ELSE IF \/ ~IsAddress(r.token0) \/ ~IsAddress(r.token1)
            \/ DecodedSlot(r.slot) = Bad \/ r.liquidity \in {Err, Bad} THEN Failed
    ELSE Found([kind |-> "camelot3", address |-> r.pair, tokens |-> <<r.token0, r.token1>>,
                sqrt |-> r.slot.sqrt, tick |-> r.slot.tick, fee |-> r.slot.fee, liquidity |-> r.liquidity])

SyncCamelotV3(p, r) ==
    IF DecodedSlot(r.slot) = Bad \/ r.liquidity \in {Err, Bad} THEN Stuck(p)
    ELSE Synced([p EXCEPT !.sqrt = r.slot.sqrt, !.tick = r.slot.tick, !.fee = r.slot.fee,
                          !.liquidity = r.liquidity])

-----------------------------------------------------------------------------
(* Trader Joe: the active bin alone, a constant sum.                       *)

BinReserves(p, forY) == IF forY THEN <<p.reserveX, p.reserveY>> ELSE <<p.reserveY, p.reserveX>>

\* The rate of a bin with an empty input side is the price of the bin.
Rate(p, in, out, forY) ==
    IF in > 0 THEN <<out, in>>
    ELSE IF forY THEN BinPrice(p.bin) ELSE <<BinPrice(p.bin)[2], BinPrice(p.bin)[1]>>

BinOut(p, amount, forY) ==
    LET r == BinReserves(p, forY)
        rate == Rate(p, r[1], r[2], forY)
        fed == (amount * (Bps - p.fee)) \div Bps
    IN  IF amount = 0 \/ r[2] = 0 \/ p.fee > Bps \/ ~Fits(amount * (Bps - p.fee)) THEN None
        ELSE IF r[1] > 0 /\ ~Fits(fed * r[2]) THEN None
        ELSE Capped((fed * rate[1]) \div rate[2], r[2])

BinIn(p, amount, forY) ==
    LET r == BinReserves(p, forY)
        rate == Rate(p, r[1], r[2], forY)
    IN  IF amount = 0 \/ amount >= r[2] \/ p.fee >= Bps THEN None
        ELSE IF r[1] = 0 THEN (amount * rate[2] * Bps + rate[1] * (Bps - p.fee) - 1)
                              \div (rate[1] * (Bps - p.fee))
        ELSE IF ~Fits(amount * r[1] * Bps) \/ ~Fits(r[2] * (Bps - p.fee)) THEN None
        ELSE (amount * r[1] * Bps) \div (r[2] * (Bps - p.fee)) + 1

\* At least one basis point, and half as much again for the variable part.
BinFee(factor, step) ==
    LET base == Max({(factor * step) \div Bps, 1}) IN base + base \div 2

\* r.bin holds the reserves of every bin: the call names the active one.
FetchBin(r, step, defaultFactor) ==
    IF r.pair = Err THEN Failed
    ELSE IF ~IsAddress(r.pair) THEN NotFound
    ELSE IF \/ ~IsAddress(r.token0) \/ ~IsAddress(r.token1) \/ r.active \in {Err, Bad}
            \/ r.factor = Err \/ r.bin \in {Err, Bad} THEN Failed
    ELSE Found([kind |-> "joe", address |-> r.pair, tokens |-> <<r.token0, r.token1>>, bin |-> r.active,
                reserveX |-> r.bin[r.active][1], reserveY |-> r.bin[r.active][2],
                fee |-> BinFee(DecodedOr(r.factor, defaultFactor), step)])

\* The active bin is written before its reserves are asked for.
SyncBin(p, r) ==
    IF r.active \in {Err, Bad} THEN Stuck(p)
    ELSE IF r.bin \in {Err, Bad} THEN Stuck([p EXCEPT !.bin = r.active])
    ELSE Synced([p EXCEPT !.bin = r.active, !.reserveX = r.bin[r.active][1],
                          !.reserveY = r.bin[r.active][2]])
==============================================================================
