----------------------------- MODULE MCRegistry ------------------------------
(***************************************************************************)
(* A registry of one pool of every kind over three tokens, refreshed twice *)
(* while up to two blocks arrive and one call goes wrong.                  *)
(***************************************************************************)
EXTENDS Registry

MCSqrtAt(t) == [i \in -2..2 |-> <<8, 12, 16, 24, 32>>[i + 3]][t]
MCBinPrice(bin) == IF bin = 5 THEN <<5, 4>> ELSE <<3, 2>>

MCSteps == [kind \in {"v3", "joe"} |-> IF kind = "v3" THEN <<1, 3>> ELSE <<20>>]
MCFeeOf == [kind \in {"v2", "sushi", "camelot2", "joe", "gmx"} |-> IF kind = "joe" THEN 15 ELSE 3]

AB == <<"A", "B">>

MCPairs ==
    [key \in {<<"v2", AB, 0>>, <<"sushi", AB, 0>>, <<"v3", AB, 1>>, <<"v3", AB, 3>>,
              <<"camelot2", AB, 0>>, <<"camelot3", AB, 0>>, <<"joe", AB, 20>>} |->
        CASE key[1] = "v2" -> "u" [] key[1] = "sushi" -> Zero
          [] key[1] = "v3" -> IF key[3] = 1 THEN "x" ELSE "y"
          [] key[1] = "camelot2" -> "c" [] key[1] = "camelot3" -> "m" [] OTHER -> "j"]

Tick(i, net) == [index |-> i, net |-> net]

\* What the contracts answer: b is the block.
Contract(b) ==
    [u |-> [token0 |-> "A", token1 |-> "B", reserves |-> IF b = 1 THEN <<10, 20>> ELSE <<12, 17>>],
     x |-> [token0 |-> "A", token1 |-> "B",
            slot |-> IF b = 2 THEN [sqrt |-> 26, tick |-> 1] ELSE [sqrt |-> 16, tick |-> 0],
            liquidity |-> <<40, 20, 60>>[b], words |-> IF b < 3 THEN {-2, -1, 1, 2} ELSE {-2, 1, 2},
            ticks |-> IF b < 3 THEN {Tick(-2, 20), Tick(-1, 20), Tick(1, -20), Tick(2, -20)}
                      ELSE {Tick(-2, 60), Tick(1, -20), Tick(2, -40)}],
     y |-> [token0 |-> "A", token1 |-> "B",
            slot |-> IF b = 3 THEN [sqrt |-> 15, tick |-> -1] ELSE [sqrt |-> 16, tick |-> 0],
            liquidity |-> 3000, words |-> {-2, 2}, ticks |-> {Tick(-2, 3000), Tick(2, -3000)}],
     c |-> [token0 |-> "A", token1 |-> "B", reserves |-> IF b = 1 THEN <<10, 10>> ELSE <<12, 8>>,
            fee01 |-> IF b = 1 THEN 1 ELSE 4, fee10 |-> 2, stable |-> TRUE],
     m |-> [token0 |-> "A", token1 |-> "B",
            slot |-> [sqrt |-> IF b = 1 THEN 16 ELSE 20, tick |-> 0, fee |-> b], liquidity |-> 5],
     j |-> [token0 |-> "A", token1 |-> "B", active |-> IF b = 1 THEN 5 ELSE 6, factor |-> 15,
            bin |-> [id \in 5..6 |-> IF b = 1 THEN (IF id = 5 THEN <<8, 10>> ELSE <<9, 0>>)
                                    ELSE (IF id = 5 THEN <<0, 18>> ELSE <<7, 3>>)]],
     v |-> [balances |-> IF b = 1 THEN <<90, 8>> ELSE <<65, 11>>],
     w |-> [amp |-> 5, haircut |-> 1, assets |-> <<"wa", "wb", "wc">>,
            decimals |-> <<18, 6, 18>>, cash |-> IF b = 1 THEN <<6, 9, 5>> ELSE <<8, 6, 5>>, liability |-> <<7, 8, 5>>],
     d |-> [base |-> "A", quote |-> "C", i |-> 10, k |-> 5, fee |-> 0,
          baseDecimals |-> 18, quoteDecimals |-> 6,
            baseReserve |-> IF b = 1 THEN 100 ELSE 70, quoteReserve |-> IF b = 1 THEN 100 ELSE 140,
            baseTarget |-> 100, quoteTarget |-> 100],
     g |-> [market |-> "g", long |-> "A", short |-> "C", longAmount |-> 10 * b, shortAmount |-> 20]]

MCWorld == [b \in 1..3 |-> Contract(b)]

At(kind, address, tokens) ==
    [do |-> "fetch", kind |-> kind, pair |-> <<>>, address |-> address, tokens |-> tokens]

Config(type, weights, amp) ==
    [do |-> "load", kind |-> "balancer",
     config |-> [address |-> "b", tokens |-> <<"B", "C", "A">>, type |-> type, fee |-> 1,
                 amp |-> amp, weights |-> weights]]

\* Loading from the configuration, loading by address, and discovery.
MCScripts ==
    {<<[op |-> "jobs",
        jobs |-> <<[do |-> "load", kind |-> "curve",
                    config |-> [address |-> "v", tokens |-> AB, amp |-> 2, fee |-> 1, rates |-> <<1, 10>>]],
                   Config("weighted", <<>>, 0), At("wombat", "w", <<"A", "B", "C">>)>>],
       [op |-> "sync"], [op |-> "sync"]>>,
     <<[op |-> "jobs", jobs |-> <<At("dodo", "d", <<>>), At("gmx", "g", <<>>)>>],
       [op |-> "sync"], [op |-> "sync"]>>,
     <<[op |-> "discover", pair |-> AB], [op |-> "ticks"], [op |-> "sync"]>>}

-----------------------------------------------------------------------------
(* What pools hold.                                                        *)

\* What a tick pool holds of the token a sale buys: every range between two
\* of its ticks, with the liquidity that the ticks passed on the way leave.
HeldInTicks(p, down) ==
    LET ahead == Ahead(p.ticks, p.tick, down)
        n == Len(ahead)
        at == [k \in 0..n + 1 |-> CASE k = 0 -> p.sqrt
                                     [] k \in 1..n -> SqrtAt(ahead[k].index)
                                     [] OTHER -> IF down THEN MinSqrt ELSE MaxSqrt]
        L[k \in 0..n] == IF k = 0 THEN p.liquidity
                         ELSE Max({0, L[k - 1] + IF down THEN -ahead[k].net ELSE ahead[k].net})
        In(k) == IF down THEN (L[k] * (at[k] - at[k + 1])) \div Q
                 ELSE (L[k] * (at[k + 1] - at[k]) * Q) \div (at[k] * at[k + 1])
    IN  FoldLeft(LAMBDA sum, k : sum + In(k - 1), 0, [k \in 1..n + 1 |-> k])

\* What the pool holds of a token, where it says so.
Held(p, j) ==
    CASE p.kind \in {"v2", "sushi", "camelot2"} -> <<p.reserve0, p.reserve1>>[j]
      [] p.kind = "joe" -> <<p.reserveX, p.reserveY>>[j]
      [] p.kind \in {"curve", "balancerWeighted", "balancerStable"} -> p.balances[j]
      [] p.kind = "wombat" -> p.cash[j]
      [] p.kind = "v3" -> HeldInTicks(p, j = 2)

\* Pools that an auction or the indexer hands over: Balancer's with balances,
\* a market with prices, and a tick pool with all of its ticks.
Given ==
    {[BalancerFromConfig(Config("weighted", <<1, 2, 1>>, 0).config) EXCEPT !.balances = <<20, 12, 9>>]}
    \union {[BalancerFromConfig(Config("stable", <<>>, 3).config) EXCEPT !.balances = held] :
                held \in {<<5, 4, 3>>, <<20, 12, 9>>}}
    \union {[kind |-> "gmx", address |-> "g", tokens |-> <<"A", "C">>, fee |-> 0, bonus |-> f[1], penalty |-> f[2],
             long |-> 60, short |-> 20, longPrice |-> 2, shortPrice |-> 3] : f \in {<<0, 0>>, <<1, 1>>, <<1, 4>>}}
    \union {[kind |-> "v3", address |-> "t", tokens |-> AB, fee |-> 1, sqrt |-> price, tick |-> 0, liquidity |-> 40,
             ticks |-> <<Tick(-2, 20), Tick(-1, 20), Tick(1, -20), Tick(2, -20)>>] : price \in {16, 20}}

-----------------------------------------------------------------------------
(* Properties.                                                             *)

Loses(p) ==
    \A way \in Ways(p), amount \in Amounts :
        LET out == Quote(p, way[1], way[2], amount)
        IN  out > 0 => Quote(p, way[2], way[1], out) <= amount

GivenLose == \A p \in Given : Loses(p)

\* Selling an amount and selling back what the quote promises never returns
\* more than the amount, in any mixture of blocks a refresh may leave and
\* whatever it could not read.  DODO is left out: both of its quotes move
\* around i as if each side alone were off its target.
RoundTripLoses ==
    /\ GivenLose
    /\ \A p \in Known : p.kind # "dodo" => Loses(p)

Pays(p) ==
    \A way \in Ways(p), amount \in Amounts : Quote(p, way[1], way[2], amount) <= Held(p, way[2])

GivenPay == \A p \in Given : p.kind # "gmx" => Pays(p)

\* A quote never promises more than the pool is known to hold: its reserves,
\* or what the ticks on the way enclose.  Left out are the kinds whose quote
\* looks at no such holding: Camelot V3, GMX and DODO.
PaysFromReserves ==
    /\ GivenPay
    /\ \A p \in Known : p.kind \notin {"camelot3", "gmx", "dodo"} => Pays(p)

\* fetch_tick_bitmap: "finds which bits are set (initialized ticks), then
\* batch-fetches the `liquidityNet` for each initialized tick".
TicksComplete ==
    \A p \in Known : p.kind = "v3" =>
        p.ticks = <<>> \/ \E b \in DOMAIN World : ToSet(p.ticks) = World[b][p.address].ticks
==============================================================================
