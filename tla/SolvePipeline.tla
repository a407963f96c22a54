--------------------------- MODULE SolvePipeline ---------------------------
(***************************************************************************)
(* One POST /solve request: the iterative-deepening solver of              *)
(* solver/mod.rs (five phases, each with a deadline) inside the hard       *)
(* timeout of routes/solve.rs.                                             *)
(*                                                                         *)
(* Phases 1-4 never await: they are CPU steps that move the clock and may  *)
(* add candidates.  Phase 5 awaits the aggregators under a sub-timeout, so *)
(* it is the one place where the request's outer timeout can fire.         *)
(* A candidate is the phase that built it and its score: how a strategy    *)
(* routes orders does not matter here.                                     *)
(***************************************************************************)
EXTENDS Integers, FiniteSets

CONSTANTS
    EnvValues,       \* values MAX_SOLVE_TIME_MS may be set to
    Unset,           \* MAX_SOLVE_TIME_MS is not set
    OuterDefault,    \* the route's default for it            (20_000 ms)
    InnerDefault,    \* the solver's default for it           (25_000 ms)
    Buffer,          \* PHASE5_BUFFER_MS                      ( 1_000 ms)
    Phase3Deadline,  \* PHASE3_DEADLINE_MS                    ( 5_000 ms)
    Phase4Deadline,  \* PHASE4_DEADLINE_MS                    (15_000 ms)
    MinAgg,          \* phase 5 needs more than this left     ( 3_000 ms)
    AggMargin,       \* what phase 5 leaves of the rest       ( 1_000 ms)
    AggCap,          \* the longest phase 5 may last          (10_000 ms)
    SkipAfter,       \* elapsed time that rules out phases 3-4 ( 500 ms)
    SmallAuction,    \* order count that rules them out       (5)
    MaxSplitOrders,  \* MAX_SPLIT_ORDERS                      (20)
    MaxOrders,       \* bound: orders of an auction
    MaxScore,        \* the largest score (u128::MAX)
    MaxStep,         \* bound: longest uninterrupted computation
    Durations,       \* durations of a computation, and of a wait
    MaxRejected      \* bound: candidates the EBBO filter rejects

ASSUME PipelineAssumption ==
    /\ EnvValues \subseteq Nat
    /\ Unset \notin Nat
    /\ {OuterDefault, InnerDefault, Buffer, Phase3Deadline, Phase4Deadline,
        MinAgg, AggMargin, AggCap, SkipAfter, SmallAuction, MaxSplitOrders,
        MaxOrders, MaxScore, MaxStep, MaxRejected} \subseteq Nat
    /\ Durations \subseteq 0..MaxStep
    /\ AggMargin <= MinAgg

VARIABLES
    env,          \* MAX_SOLVE_TIME_MS: constant during a request
    auction,      \* what the phases read of the auction
    pc,           \* where the request is
    now,          \* time since the request started
    todo,         \* orders the current search loop still has to visit
    found,        \* whether that loop found a route
    cands,        \* all_candidates
    best,         \* best_score
    strategy,     \* best_strategy
    scores,       \* phase_scores
    decisions,    \* phase_decisions
    aggDeadline,  \* when phase 5's sub-timeout expires
    served,       \* the first solution of the response, if any
    filtered,     \* the EBBO filter removed candidates
    winner,       \* winning_strategy of the outcome
    timedOut      \* the outer timeout fired

vars == <<env, auction, pc, now, todo, found, cands, best, strategy, scores,
          decisions, aggDeadline, served, filtered, winner, timedOut>>

-----------------------------------------------------------------------------
Scores == 0..MaxScore

\* A candidate is the phase that built it and its score.  The fallback, which
\* runs after the five phases, counts as a sixth.  Two solutions of one phase
\* with one score are one candidate.
Candidate == [phase : 1..6, score : Scores]

\* "none" stands for the empty name that no phase has replaced yet.
Strategies == {"none", "direct", "multihop", "split", "graph", "aggregator"}

\* The strategy name each phase reports.
NameOf == <<"direct", "multihop", "split", "graph", "aggregator">>

Monus(a, b) == IF a > b THEN a - b ELSE 0
Lesser(a, b) == IF a < b THEN a ELSE b

OuterBudget == IF env = Unset THEN OuterDefault ELSE env
InnerBudget == IF env = Unset THEN InnerDefault ELSE env
HardCutoff  == Monus(InnerBudget, Buffer)

\* The candidates of phase p a solution builder may hand back: none, or one.
Maybe(p) == {{}} \cup {{[phase |-> p, score |-> s]} : s \in Scores}

\* b is what `candidates.map(extract_score).max().unwrap_or(0)` evaluates to.
IsBest(b, cs) ==
    /\ \A c \in cs : c.score <= b
    /\ b = 0 \/ \E c \in cs : c.score = b

-----------------------------------------------------------------------------
Init ==
    /\ env \in EnvValues \cup {Unset}
    /\ auction \in [orders : 0..MaxOrders, manyPools : BOOLEAN, edges : BOOLEAN]
    /\ pc = IF auction.orders = 0 THEN "done" ELSE "phase1"
    /\ now = 0
    /\ todo = 0
    /\ found = FALSE
    /\ cands = {}
    /\ best = 0
    /\ strategy = "none"
    /\ scores = [p \in 1..5 |-> 0]
    /\ decisions = {}
    /\ aggDeadline = 0
    /\ served = {}
    /\ filtered = FALSE
    /\ winner = "none"
    /\ timedOut = FALSE

\* Mutant: a phase that only ties with the best takes it over.
RecordOnTie(p, cs) ==
    \E b \in Scores :
        /\ IsBest(b, cs)
        /\ scores' = [scores EXCEPT ![p] = b]
        /\ best' = IF b >= best THEN b ELSE best
        /\ strategy' = IF b >= best THEN NameOf[p] ELSE strategy
        /\ decisions' = decisions \cup
              {[phase |-> p,
                improved |-> b >= (IF p = 1 THEN 0 ELSE scores[p - 1])]}

\* Mutant: a phase overwrites the running best with its own candidates'.
RecordOwn(p, cs) ==
    \E b \in Scores :
        /\ IsBest(b, {c \in cs : c.phase = p})
        /\ scores' = [scores EXCEPT ![p] = b]
        /\ best' = b
        /\ strategy' = NameOf[p]
        /\ decisions' = decisions \cup
              {[phase |-> p,
                improved |-> b > (IF p = 1 THEN 0 ELSE scores[p - 1])]}

\* What every phase does once its candidates are in: score them, keep the
\* running best and its strategy, and log the decision.  The decision compares
\* with the previous entry of phase_scores, whether or not that phase ran.
Record(p, cs) ==
    \E b \in Scores :
        /\ IsBest(b, cs)
        /\ scores' = [scores EXCEPT ![p] = b]
        /\ best' = IF b > best THEN b ELSE best
        /\ strategy' = IF b > best THEN NameOf[p] ELSE strategy
        /\ decisions' = decisions \cup
              {[phase |-> p,
                improved |-> b > (IF p = 1 THEN 0 ELSE scores[p - 1])]}

\* Phases 1-4 give up on deepening once the hard cutoff has passed.
Continue(t, next) == pc' = IF t >= HardCutoff THEN "finalize" ELSE next

\* Phase 1: CoW matching, direct routing with its alternatives, and the CoW
\* solution combined with direct routes: any number of candidates.
Phase1 ==
    /\ pc = "phase1"
    /\ \E d \in Durations : now' = now + d
    /\ cands' \in SUBSET [phase : {1}, score : Scores]
    /\ Record(1, cands')
    /\ Continue(now', "phase2")
    /\ UNCHANGED <<env, auction, todo, found, aggDeadline, served, filtered,
                   winner, timedOut>>

\* Phase 2: multi-hop routes for the uncovered orders, always kept, and for
\* all orders, kept only if they beat the baseline.
Phase2 ==
    /\ pc = "phase2"
    /\ \E d \in Durations, hop \in Maybe(2), full \in Maybe(2) :
        /\ \A c \in full : c.score > best
        /\ now' = now + d
        /\ cands' = cands \cup hop \cup full
        /\ Record(2, cands')
        /\ Continue(now', "gate")
    /\ UNCHANGED <<env, auction, todo, found, aggDeadline, served, filtered,
                   winner, timedOut>>

SkipGraph ==
    \/ best = 0
    \/ auction.orders <= SmallAuction
    \/ auction.manyPools
    \/ now > SkipAfter

\* Orders a search loop visits: none when the token graph has no edge.
Searchable(n) == IF auction.edges THEN n ELSE 0

\* Between phases 2 and 3: jump to the aggregators, or build the token graph.
Gate ==
    /\ pc = "gate"
    /\ \/ /\ SkipGraph
          /\ pc' = "phase5"
          /\ UNCHANGED <<now, todo>>
       \/ /\ ~SkipGraph
          /\ pc' = "split"
          /\ \E d \in Durations : now' = now + d
          /\ todo' = Searchable(Lesser(auction.orders, MaxSplitOrders))
    /\ UNCHANGED <<env, auction, found, cands, best, strategy, scores,
                   decisions, aggDeadline, served, filtered, winner, timedOut>>

Deadline3 == Lesser(Phase3Deadline, HardCutoff)
Deadline4 == Lesser(Phase4Deadline, HardCutoff)

\* Mutant: an iteration that does not look at the clock.
SearchUnchecked(at, deadline) ==
    /\ pc = at
    /\ todo > 0
    /\ todo' = todo - 1
    /\ \E d \in Durations : now' = now + d
    /\ \E hit \in BOOLEAN : found' = (found \/ hit)
    /\ UNCHANGED <<env, auction, pc, cands, best, strategy, scores, decisions,
                   aggDeadline, served, filtered, winner, timedOut>>

\* One iteration of a search loop over the orders: the deadline is checked
\* before the search, which then runs to its end.
Search(at, deadline) ==
    /\ pc = at
    /\ todo > 0
    /\ now < deadline
    /\ todo' = todo - 1
    /\ \E d \in Durations : now' = now + d
    /\ \E hit \in BOOLEAN : found' = (found \/ hit)
    /\ UNCHANGED <<env, auction, pc, cands, best, strategy, scores, decisions,
                   aggDeadline, served, filtered, winner, timedOut>>

\* Mutant: at its deadline the loop breaks out only once every order was visited.
LoopOverWhenDrained(at, deadline) == pc = at /\ todo = 0

\* The loop is over, and with a route the solution builder may return one.
LoopOver(at, deadline) == pc = at /\ (todo = 0 \/ now >= deadline)
Built(p) == IF found THEN Maybe(p) ELSE {{}}

SplitSearch == Search("split", Deadline3)

Phase3 ==
    /\ LoopOver("split", Deadline3)
    /\ \E new \in Built(3) : cands' = cands \cup new
    /\ Record(3, cands')
    /\ Continue(now, "graph")
    /\ todo' \in 0..Searchable(auction.orders)  \* the routable orders
    /\ found' = FALSE
    /\ UNCHANGED <<env, auction, now, aggDeadline, served, filtered, winner,
                   timedOut>>

GraphSearch == Search("graph", Deadline4)

\* The graph solution goes in at once; graph+split only if time is left.
GraphBuilt ==
    /\ LoopOver("graph", Deadline4)
    /\ \E new \in Built(4) : cands' = cands \cup new
    /\ pc' = "gsplit"
    /\ todo' = IF now < Deadline4 THEN Searchable(auction.orders) ELSE 0
    /\ found' = FALSE
    /\ UNCHANGED <<env, auction, now, best, strategy, scores, decisions,
                   aggDeadline, served, filtered, winner, timedOut>>

GraphSplitSearch == Search("gsplit", Deadline4)

Phase4 ==
    /\ LoopOver("gsplit", Deadline4)
    /\ \E new \in Built(4) : cands' = cands \cup new
    /\ Record(4, cands')
    /\ Continue(now, "phase5")
    /\ todo' = 0
    /\ found' = FALSE
    /\ UNCHANGED <<env, auction, now, aggDeadline, served, filtered, winner,
                   timedOut>>

\* Phase 5 starts the aggregators under a sub-timeout if enough time is left.
Remaining == Monus(HardCutoff, now)

AggBudgetBeforeV23 == 3 * AggCap  \* mutant: providers one by one, no sub-timeout
AggBudget == Lesser(Monus(Remaining, AggMargin), AggCap)

StartAggregators ==
    /\ pc = "phase5"
    /\ Remaining > MinAgg
    /\ aggDeadline' = now + AggBudget
    /\ pc' = "await"
    /\ UNCHANGED <<env, auction, now, todo, found, cands, best, strategy,
                   scores, decisions, served, filtered, winner, timedOut>>

\* The end of phase 5, with the solution the aggregators gave, if any.
Phase5(new) ==
    /\ cands' = cands \cup new
    /\ Record(5, cands')
    /\ pc' = "fallback"
    /\ UNCHANGED <<env, auction, now, todo, found, aggDeadline, served,
                   filtered, winner, timedOut>>

SkipAggregators ==
    /\ pc = "phase5"
    /\ Remaining <= MinAgg
    /\ Phase5({})

\* Time passes while phase 5 is awaited; the runtime may poll late.
Tick ==
    /\ pc = "await"
    /\ now < aggDeadline
    /\ \E d \in Durations \ {0} : now' = now + d
    /\ UNCHANGED <<env, auction, pc, todo, found, cands, best, strategy,
                   scores, decisions, aggDeadline, served, filtered, winner,
                   timedOut>>

\* The aggregators' solution carries the score "0".
AggSolution == {[phase |-> 5, score |-> 0]}

\* A poll of the request polls the aggregators first, then the sub-timeout,
\* then the outer timeout: each answers only if those before it do not.
AggregatorsAnswer ==
    /\ pc = "await"
    /\ \E new \in {{}, AggSolution} : Phase5(new)

AggregatorsTimeOut ==
    /\ pc = "await"
    /\ now >= aggDeadline
    /\ Phase5({})

OuterTimeout ==
    /\ pc = "await"
    /\ now >= OuterBudget
    /\ now < aggDeadline
    /\ timedOut' = TRUE
    /\ pc' = "done"
    /\ UNCHANGED <<env, auction, now, todo, found, cands, best, strategy,
                   scores, decisions, aggDeadline, served, filtered, winner>>

\* Mutant: the fallback is tried when no phase has a positive score.
FallbackOnZeroScore ==
    /\ pc = "fallback"
    /\ \/ best = 0 /\ \E fb \in Maybe(6) : cands' = cands \cup fb
       \/ best > 0 /\ UNCHANGED cands
    /\ pc' = "finalize"
    /\ UNCHANGED <<env, auction, now, todo, found, best, strategy, scores,
                   decisions, aggDeadline, served, filtered, winner, timedOut>>

\* The last resort, only when every phase came back with nothing.
Fallback ==
    /\ pc = "fallback"
    /\ \/ cands = {} /\ cands' \in Maybe(6)
       \/ cands # {} /\ UNCHANGED cands
    /\ pc' = "finalize"
    /\ UNCHANGED <<env, auction, now, todo, found, best, strategy, scores,
                   decisions, aggDeadline, served, filtered, winner, timedOut>>

\* The solutions that may come first in the sort by descending score; which one
\* of equals does is the stable key's choice.
FirstAscending(cs) == {c \in cs : \A e \in cs : c.score <= e.score}  \* mutant
First(cs) == {c \in cs : \A e \in cs : e.score <= c.score}

UsedFallback == \E c \in cands : c.phase = 6

\* finalize_outcome: drop what fails the EBBO check, rank the rest, name the
\* winner.  At most three solutions are returned; only the first is followed.
Finalize ==
    /\ pc = "finalize"
    /\ \E rejected \in SUBSET cands :
        LET survivors == cands \ rejected
        IN  /\ Cardinality(rejected) <= MaxRejected
            /\ filtered' = (rejected # {})
            /\ IF survivors = {}
               THEN served' = {}
               ELSE \E c \in First(survivors) : served' = {c}
    /\ winner' = IF UsedFallback THEN "fallback" ELSE strategy
    /\ pc' = "done"
    /\ UNCHANGED <<env, auction, now, todo, found, cands, best, strategy,
                   scores, decisions, aggDeadline, timedOut>>

\* The response has been sent.
Done == pc = "done" /\ UNCHANGED vars

Compute ==
    \/ Phase1 \/ Phase2 \/ Gate
    \/ SplitSearch \/ Phase3
    \/ GraphSearch \/ GraphBuilt \/ GraphSplitSearch \/ Phase4
    \/ StartAggregators \/ SkipAggregators \/ Fallback \/ Finalize

Timers == Tick \/ AggregatorsTimeOut \/ OuterTimeout

Next == Compute \/ Timers \/ AggregatorsAnswer \/ Done

\* Computations finish and timers fire; the aggregators may never answer.
Fairness == WF_vars(Compute) /\ WF_vars(Tick) /\ WF_vars(AggregatorsTimeOut)

Spec == Init /\ [][Next]_vars /\ Fairness
-----------------------------------------------------------------------------
Locations == {"phase1", "phase2", "gate", "split", "graph", "gsplit", "phase5",
              "await", "fallback", "finalize", "done"}

\* The variables keep the types of the code's locals.
TypeOK ==
    /\ env \in EnvValues \cup {Unset}
    /\ auction \in [orders : 0..MaxOrders, manyPools : BOOLEAN, edges : BOOLEAN]
    /\ pc \in Locations
    /\ now \in Nat
    /\ todo \in 0..MaxOrders
    /\ found \in BOOLEAN
    /\ cands \in SUBSET Candidate
    /\ best \in Scores
    /\ strategy \in Strategies
    /\ scores \in [1..5 -> Scores]
    /\ decisions \in SUBSET [phase : 1..5, improved : BOOLEAN]
    /\ aggDeadline \in Nat
    /\ served \in SUBSET Candidate
    /\ filtered \in BOOLEAN
    /\ winner \in Strategies \cup {"fallback"}
    /\ timedOut \in BOOLEAN

\* plan/STATUS.md: "If it times out, Phase 1-4 solutions are preserved and
\* returned."  The request's outer timeout never throws away a candidate.
SolutionsPreserved == timedOut => cands = {}

\* What the sub-timeout of phase 5 does guarantee: with MAX_SOLVE_TIME_MS set,
\* so that the route and the solver run on one budget, the outer timeout never
\* fires, however long the phases and the aggregators take.
PreservedWhenEnvSet == env # Unset => ~timedOut

\* The deadlines hold up to one computation: the phases check the clock before
\* each search and a late poll is at most one computation late, so the request
\* is answered less than MaxStep after the last moment one may start.
OverrunBounded == now <= HardCutoff + MaxStep

\* The phases that have run, as the decision log shows them.
Ran == {d.phase : d \in decisions}

\* The running best is the best candidate of the phases logged so far, and the
\* strategy names the first phase that reached it.  The best-so-far solver
\* updates both in five places, each with its own comparison.
BestSoFar ==
    LET logged == {c \in cands : c.phase \in Ran}
    IN  /\ IsBest(best, logged)
        /\ best = 0 => strategy = "none"
        /\ best > 0 =>
              \E p \in Ran :
                  /\ strategy = NameOf[p]
                  /\ \E c \in logged : c.phase = p /\ c.score = best
                  /\ \A c \in logged : c.phase < p => c.score < best

\* Unless EBBO filtered something, the first solution returned carries the best
\* score any phase found, and the outcome names the strategy that found it.
BestReturned ==
    pc = "done" /\ ~timedOut /\ ~filtered /\ best > 0 =>
        /\ \E c \in served : c.score = best
        /\ winner = strategy

\* The fallback answers alone, and only when every phase found nothing.
FallbackAlone ==
    \A c \in cands : c.phase = 6 => cands = {c} /\ best = 0 /\ decisions # {}

\* PhaseDecision.improved: "Whether this phase's candidate became the new best".
\* It does for every phase whose predecessor ran; after a skipped one the
\* comparison is with a score of 0.
ImprovedAfterPredecessor ==
    \A d \in decisions :
        d.phase - 1 \in Ran \cup {0} /\ d.improved =>
            \E c \in cands :
                /\ c.phase = d.phase
                /\ \A e \in cands : e.phase < d.phase => e.score < c.score

\* The phases implement the anytime solver: the best score never falls, a phase
\* takes the lead only by a strictly better score, and nothing found after the
\* answer, or beyond the best, reaches it.
Anytime == INSTANCE AnytimeSolver WITH
    Names <- Strategies \ {"none"}, Nobody <- "none", leader <- strategy,
    open <- pc # "done", answer <- {c.score : c \in served}
ImplementsAnytime == Anytime!Spec

\* Every request is answered, even if the aggregators never are.
Answered == <>(pc = "done")
=============================================================================
