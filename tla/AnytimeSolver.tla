--------------------------- MODULE AnytimeSolver ---------------------------
(***************************************************************************)
(* What the iterative-deepening solver promises, without phases or clock:  *)
(* while a request is open its best score only grows, the strategy in the  *)
(* lead changes only when it does, and one answer closes the request for   *)
(* good.  The answer is no better than what was found, except for the last *)
(* resort when nothing was.                                                *)
(***************************************************************************)
EXTENDS Integers

CONSTANTS
    MaxScore,
    Names,    \* the strategies
    Nobody    \* no strategy leads yet

VARIABLES
    best,     \* the best score found so far
    leader,   \* the strategy that found it
    open,     \* the request has not been answered
    answer    \* the score of the first solution returned: at most one

vars == <<best, leader, open, answer>>

Scores == 0..MaxScore

\* An auction without orders is answered at once.
Init == best = 0 /\ leader = Nobody /\ open \in BOOLEAN /\ answer = {}

Improve ==
    /\ open
    /\ \E s \in Scores, n \in Names : s > best /\ best' = s /\ leader' = n
    /\ UNCHANGED <<open, answer>>

\* Nothing may be left after filtering or a timeout, or something worse.
Answer ==
    /\ open
    /\ open' = FALSE
    /\ \/ answer' = {}
       \/ \E s \in Scores : (s <= best \/ best = 0) /\ answer' = {s}
    /\ UNCHANGED <<best, leader>>

Next == Improve \/ Answer

Spec == Init /\ [][Next]_vars
=============================================================================
