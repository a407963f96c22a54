------------------------------ MODULE MCPhaseOne ------------------------------
(* Small auctions for PhaseOne: one to three orders out of ten, and four out *)
(* of six that give two matches or too many routes; reserves, gas and        *)
(* amounts are scaled down together, so that gas and price impact matter.    *)
EXTENDS PhaseOne

CONSTANTS tA, tB, tC, tD

Kinds == {"product", "concentrated", "weighted"}

MCTokens == {tA, tB, tC, tD}
MCHighCompetition == {tB, tC}

\* The tick pools quote a flat rate.
MCConcentratedOut(p, sell, amount) ==
    LET buy == CHOOSE t \in p.tokens : t # sell
    IN  (amount * p.reserve[buy] * 95) \div (p.reserve[sell] * 100)

MCGasSwap == [product |-> 6, concentrated |-> 13, weighted |-> 12]
MCGasData == [k \in Kinds |-> 0]
MCGasEmbedded == [product |-> 6, concentrated |-> 8, weighted |-> 7]
MCGasAlternative == [product |-> 4, concentrated |-> 6, weighted |-> 5]

Order(s, t, sell, buy, kind, partial, limit) ==
    [sellToken |-> s, buyToken |-> t, sell |-> sell, buy |-> buy,
     kind |-> kind, partial |-> partial, limit |-> limit]

Orders == {
    Order(tA, tB, 100,  60, "sell", FALSE, FALSE),
    Order(tA, tB, 900, 300, "sell", FALSE, FALSE),
    Order(tA, tB, 600, 380, "sell", TRUE,  FALSE),
    Order(tA, tB, 100,  50, "buy",  FALSE, FALSE),
    Order(tB, tA, 100,  60, "sell", FALSE, TRUE),
    Order(tB, tA, 120, 100, "sell", FALSE, FALSE),
    Order(tB, tC, 100,  40, "sell", FALSE, FALSE),
    Order(tC, tB, 100,  70, "sell", FALSE, FALSE),
    Order(tA, tC, 100,  80, "sell", FALSE, FALSE),
    Order(tC, tA, 100,  90, "sell", FALSE, TRUE) }

Pool(kind, s, t, rs, rt) ==
    [kind |-> kind, tokens |-> {s, t},
     reserve |-> [x \in MCTokens |-> IF x = s THEN rs ELSE IF x = t THEN rt ELSE 0]]

PoolLists == {
    <<Pool("product", tA, tB, 1000, 1000), Pool("weighted", tB, tC, 1000, 1000)>>,
    <<Pool("concentrated", tA, tB, 1000, 1000), Pool("product", tA, tB, 1000, 1100),
      Pool("concentrated", tB, tC, 1000, 700)>> }

PriceMapsOf == { [t \in MCTokens |-> 1], [t \in MCTokens |-> IF t = tB THEN 2 ELSE 1],
                 [t \in MCTokens |-> IF t = tC THEN 0 ELSE 1] }

Numbered(seq) == [i \in DOMAIN seq |->
    [uid |-> i, sellToken |-> seq[i].sellToken, buyToken |-> seq[i].buyToken,
     sell |-> seq[i].sell, buy |-> seq[i].buy, kind |-> seq[i].kind,
     partial |-> seq[i].partial, limit |-> seq[i].limit]]

Quartet == {
    Order(tA, tB, 100,  60, "sell", FALSE, FALSE),
    Order(tA, tB, 900, 300, "sell", FALSE, TRUE),
    Order(tB, tA, 100,  60, "sell", FALSE, FALSE),
    Order(tA, tC, 100,  80, "sell", FALSE, FALSE),
    Order(tC, tD, 100,  80, "sell", FALSE, FALSE),
    Order(tD, tC, 100,  90, "sell", FALSE, TRUE) }

OrderLists == { Numbered(seq) : seq \in UNION {[1..n -> Orders] : n \in 1..3}
                                          \cup [1..4 -> Quartet] }

MCAuctions == [orders : OrderLists, pools : PoolLists, price : PriceMapsOf, gas : {1}]
=============================================================================
