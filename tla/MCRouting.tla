------------------------------ MODULE MCRouting ------------------------------
(* Small auctions for Routing: one or two orders over up to six pools that   *)
(* join four tokens, with parallel pools, a tick pool, a pool of three       *)
(* tokens and rates far from one, so that edges have negative weights.       *)
EXTENDS Routing

CONSTANTS tA, tB, tC, tD

MCTokens == {tA, tB, tC, tD}

\* A logarithm of base e^(1/693), linear between powers of two.
Doublings(n) == CHOOSE k \in 0..11 : 2^k <= n /\ n < 2^(k + 1)
Logs == [n \in 1..2000 |-> 1000 * Doublings(n)
                             + (1000 * (n - 2^Doublings(n))) \div 2^Doublings(n)]
MCNegLog(o, i) == Logs[i] - Logs[o]

\* Tick pools quote a flat rate; walking the ticks quotes a little less.
Flat(p, s, amount, percent) ==
    LET t == CHOOSE x \in p.tokens : x # s
    IN  (amount * p.reserve[t] * percent) \div (p.reserve[s] * 100)
MCApproxOut(p, s, amount) == Flat(p, s, amount, 98)
MCConcentratedOut(p, s, amount) == Flat(p, s, amount, 96)

MCHopGas == [product |-> 1, concentrated |-> 2]
MCDataPerSwap == [product |-> 0, concentrated |-> 0]
MCBridges == <<tC, tB>>

Pool(kind, keys, reserves) ==
    [kind |-> kind, tokens |-> ToSet(keys), keys |-> keys,
     reserve |-> [t \in MCTokens |->
        IF t \in ToSet(keys) THEN reserves[CHOOSE i \in DOMAIN keys : keys[i] = t] ELSE 0]]

P(s, t, rs, rt) == Pool("product", <<s, t>>, <<rs, rt>>)

\* One pool per pair, in balance.
Balanced == <<P(tA, tB, 1000, 1000), P(tB, tC, 1500, 1500), P(tA, tC, 1000, 900),
              P(tC, tD, 1000, 1000), P(tB, tD, 800, 1000)>>
\* Rates far from one.
Skewed == <<P(tA, tB, 1500, 300), P(tB, tC, 200, 1800), P(tA, tC, 1000, 1000),
            P(tC, tD, 1000, 1400)>>
\* Parallel pools, one with ticks.
Parallel == <<P(tA, tB, 1000, 1000), P(tA, tB, 1200, 1100),
              Pool("concentrated", <<tB, tC>>, <<900, 900>>), P(tA, tC, 700, 700)>>
Direct == <<P(tA, tC, 1000, 1000), P(tA, tC, 900, 950), P(tC, tA, 1200, 1200)>>
\* A pool of three tokens.
Triple == <<Pool("product", <<tB, tC, tA>>, <<1000, 1100, 1000>>), P(tC, tD, 1000, 1000)>>
\* Rates that multiply along a line.
Line == <<P(tC, tD, 300, 1000), P(tB, tC, 300, 1000), P(tA, tB, 200, 1000)>>
\* A pool too shallow to be an edge.
Shallow == <<P(tA, tB, 5, 5), P(tB, tC, 1000, 1000)>>
\* Two pools of one pair whose rates are further apart than their fees.
Mispriced == <<P(tA, tB, 1000, 1000), P(tA, tB, 1000, 2000)>>
Leading == <<P(tB, tC, 1000, 1000)>> \o Mispriced
\* Three ways from tA to tC that share pools: the third takes nothing, and the
\* rounded shares of the others are more than the order.
Oversold == <<P(tA, tC, 2000, 500), P(tA, tB, 500, 2000), P(tB, tC, 1000, 1500),
              P(tA, tD, 800, 1000), P(tD, tC, 1500, 2000)>>

Order(n, s, t, sell, buy) ==
    [uid |-> n, sellToken |-> s, buyToken |-> t, sell |-> sell, buy |-> buy,
     kind |-> "sell", partial |-> FALSE, limit |-> FALSE]

Auction(orders, pools, price, gas) ==
    [orders |-> orders, pools |-> pools, gas |-> gas,
     price |-> [t \in MCTokens |-> IF t = tB THEN price ELSE 1]]

MCAuctions == {
    Auction(<<Order(1, tA, tC, 300, 100)>>, Balanced, 1, 1),
    Auction(<<Order(1, tA, tD, 200, 40)>>, Balanced, 1, 0),
    Auction(<<Order(1, tA, tC, 300, 100)>>, Skewed, 1, 0),
    Auction(<<Order(1, tA, tC, 40, 20), Order(2, tC, tB, 120, 20)>>, Skewed, 2, 1),
    Auction(<<Order(1, tA, tC, 300, 100)>>, Parallel, 1, 1),
    Auction(<<Order(1, tA, tC, 300, 100), Order(2, tA, tC, 90, 15)>>, Direct, 1, 1),
    Auction(<<Order(1, tA, tD, 200, 40)>>, Triple, 1, 0),
    Auction(<<Order(1, tA, tC, 300, 100)>>, Shallow, 1, 0),
    Auction(<<Order(1, tA, tB, 4, 1)>>, Shallow, 1, 1),
    Auction(<<Order(1, tA, tD, 20, 300)>>, Line, 1, 0),
    Auction(<<Order(1, tA, tB, 350, 100), Order(2, tB, tC, 150, 40)>>, Balanced, 1, 0),
    Auction(<<Order(1, tB, tA, 250, 100), Order(2, tA, tC, 150, 40)>>, Parallel, 1, 0),
    Auction(<<Order(1, tA, tB, 30, 20)>>, Mispriced, 1, 0),
    Auction(<<Order(1, tA, tC, 30, 20)>>, Leading, 1, 0),
    Auction(<<Order(1, tA, tC, 250, 20)>>, Oversold, 1, 0) }

MCAllEdges == UNION {EdgesOf(A.pools, A.gas) : A \in MCAuctions}
=============================================================================
