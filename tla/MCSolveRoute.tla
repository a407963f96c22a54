---------------------------- MODULE MCSolveRoute ----------------------------
(***************************************************************************)
(* SolveRoute for TLC: what the solver may return is one outcome of each   *)
(* kind.  "direct" stands for every strategy attribution.rs counts and the *)
(* solver names, besides "fallback"; "aggregator" and "timeout" are names  *)
(* it does not count.                                                      *)
(***************************************************************************)
EXTENDS SolveRoute

None(ran) == [found |-> FALSE, trades |-> FALSE, score |-> 0, winner |-> "none",
              ran |-> ran, produced |-> {}]
Some(winner, score, ran, produced) ==
    [found |-> TRUE, trades |-> TRUE, score |-> score, winner |-> winner,
     ran |-> ran, produced |-> produced]

MCOutcomes ==
    {None({"timeout"}),
     Some("direct", 1, {"direct", "aggregator"}, {"direct"}),
     [Some("direct", 1, {"direct"}, {"direct"}) EXCEPT !.trades = FALSE],
     Some("none", 0, {"direct", "aggregator"}, {}),        \* score "0"
     Some("fallback", 1, {"direct", "fallback"}, {})}
=============================================================================
