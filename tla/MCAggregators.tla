---------------------------- MODULE MCAggregators ----------------------------
(***************************************************************************)
(* Auctions of three orders, quoted by the two providers of a chain with   *)
(* keys or by the five of Arbitrum that need none.  A tick is 250 ms.      *)
(***************************************************************************)
EXTENDS Aggregators

OrderOf(uid, from, to, sell, limit, isSell) ==
    [uid |-> uid, from |-> from, to |-> to, sell |-> sell, limit |-> limit, isSell |-> isSell]

MCSetups ==
    {[enabled |-> TRUE, keys |-> {"oneinch", "okx"}, arbitrum |-> FALSE, zerox |-> TRUE, auctions |->
        <<<<OrderOf("o1", "A", "B", 4, 3, TRUE), OrderOf("o2", "C", "D", 6, 2, FALSE), OrderOf("o3", "E", "F", 1, 2, TRUE)>>,
          <<OrderOf("o4", "A", "B", 4, 3, TRUE), OrderOf("o5", "A", "B", 3, 2, TRUE), OrderOf("o6", "B", "A", 2, 0, TRUE)>>>>],
     [enabled |-> TRUE, keys |-> {}, arbitrum |-> TRUE, zerox |-> FALSE, auctions |->
        <<<<OrderOf("o7", "A", "B", 4, 3, TRUE), OrderOf("o8", "B", "A", 3, 0, TRUE), OrderOf("o9", "C", "B", 2, 3, TRUE)>>>>],
     [enabled |-> FALSE, keys |-> {"okx"}, arbitrum |-> TRUE, zerox |-> TRUE, auctions |->
        <<<<OrderOf("o7", "A", "B", 4, 3, TRUE)>>>>]}

MCOrders == UNION {ToSet(a) : a \in UNION {ToSet(env.auctions) : env \in MCSetups}}

MCRef == [t \in {"A", "B", "C"} |-> 2]

-----------------------------------------------------------------------------
\* agg_solver.rs: "Only ratio matters - these encode the actual execution
\* rate" and "Scale buy_token price to maintain consistency".
RatesKept ==
    outcome = "solution" => \A i \in DOMAIN solution.trades :
        LET t == solution.trades[i]
        IN  Tokens(t) \subseteq DOMAIN solution.prices
              => solution.prices[t.order.to] = 0 \/ Received(t, solution.prices) >= t.order.limit
==============================================================================
