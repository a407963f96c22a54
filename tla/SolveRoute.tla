----------------------------- MODULE SolveRoute -----------------------------
(***************************************************************************)
(* The handler of POST /solve around the solver (routes/solve.rs): triage, *)
(* solve, simulate, score the freshness, decide whether to submit, record  *)
(* and answer (triage.rs, simulation.rs, freshness.rs, submission.rs,      *)
(* attribution.rs).                                                        *)
(*                                                                         *)
(* Requests run concurrently and share the block tracker, the pool cache   *)
(* and the attribution counters.  What the solver returns is SolvePipeline *)
(* business and a free choice here; the handler only looks at its outcome. *)
(***************************************************************************)
EXTENDS Integers, FiniteSets, FiniteSetsExt

CONSTANTS
    Requests,
    Blocks,       \* bound: block numbers of auctions and of the chain, > 0
    MaxScore,     \* bound: scores
    Known,        \* the strategies attribution.rs counts
    Unknown,      \* other names: "aggregator", "timeout"
    Outcomes,     \* bound: what the solver may return
    SolveTimes,   \* bound: how long solving may take, in seconds
    SimTimes,     \* bound: how long the simulation may take
    MaxSolve,     \* max_solve_secs                (25)
    Pressure,     \* less time is time pressure    (3)
    Patience,     \* more time is worth waiting    (10)
    BlockFresh,   \* BLOCK_AGE_FRESH               (2)
    BlockStale    \* BLOCK_AGE_STALE               (10)

Strategies == Known \cup Unknown

\* found: there is a solution; trades: the first one has trades and prices;
\* produced: the strategies whose phase reports candidates.
Outcome == [found : BOOLEAN, trades : BOOLEAN, score : 0..MaxScore,
            winner : Strategies \cup {"none"}, ran : SUBSET Strategies,
            produced : SUBSET Strategies]

\* A strategy that is named ran; without a solution there is no score.
ASSUME OutcomeAssumption ==
    \A o \in Outcomes :
        /\ o \in Outcome
        /\ o.produced \subseteq o.ran
        /\ o.winner \in o.ran \cup {"none"}
        /\ ~o.found => o.score = 0 /\ ~o.trades

ASSUME RouteAssumption ==
    /\ {MaxScore, MaxSolve, Pressure, Patience, BlockFresh, BlockStale}
          \subseteq Nat
    /\ 0 < BlockFresh /\ BlockFresh < BlockStale
    /\ Blocks \subseteq Nat \ {0}
    /\ SolveTimes \cup SimTimes \subseteq Nat
    /\ IsFiniteSet(Requests)
    /\ "none" \notin Strategies

VARIABLES
    currentBlock,  \* CURRENT_BLOCK
    refreshed,     \* history: the block as of which the oldest cached pool is
    pools,         \* the cache has pools
    simulator,     \* how simulations are configured
    pc,            \* where each request is
    auctionBlock,  \* the block of each request's auction, or 0
    elapsed,       \* time since solving began
    outcome,       \* what the solver returned
    sim,           \* the SimResult
    rpcFailed,     \* history: the simulation's request failed or timed out
    decision,      \* the freshness and submission decision
    response,      \* "none" until the request is answered
    row,           \* `result` of the row recorded in the replay database
    accounted,     \* whether a predicted settlement was recorded
    tally          \* the attribution counters

vars == <<currentBlock, refreshed, pools, simulator, pc, auctionBlock, elapsed,
          outcome, sim, rpcFailed, decision, response, row, accounted, tally>>

Stages == {"generated", "simPassed", "simFailed", "policyApproved", "submitted"}

\* What the handler reads of an auction.
Auction == [block : Blocks \cup {0}, orders : BOOLEAN, dust : BOOLEAN,
            liquidity : BOOLEAN]

NoOutcome == [found |-> FALSE, trades |-> FALSE, score |-> 0,
              winner |-> "none", ran |-> {}, produced |-> {}]

Simulators == {"disabled", "structural", "eth_call"}
SimResult == [simulated : BOOLEAN, success : BOOLEAN, block : Blocks \cup {0}]
Skipped == [simulated |-> FALSE, success |-> TRUE, block |-> 0]
Passed(b) == [simulated |-> TRUE, success |-> TRUE, block |-> b]
Reverted(b) == [simulated |-> TRUE, success |-> FALSE, block |-> b]

Decision == [confidence : 0..1000, timing : {"submit", "hold"},
             reason : {"none", "reverted", "score", "pressure", "risk",
                       "standard"}]
NoDecision == [confidence |-> 0, timing |-> "hold", reason |-> "none"]

Init ==
    /\ currentBlock = 0 /\ refreshed = 0
    /\ pools \in BOOLEAN
    /\ simulator \in Simulators
    /\ pc = [r \in Requests |-> "new"]
    /\ auctionBlock = [r \in Requests |-> 0]
    /\ elapsed = [r \in Requests |-> 0]
    /\ outcome = [r \in Requests |-> NoOutcome]
    /\ sim = [r \in Requests |-> Skipped]
    /\ rpcFailed = [r \in Requests |-> FALSE]
    /\ decision = [r \in Requests |-> NoDecision]
    /\ response = [r \in Requests |-> "none"]
    /\ row = [r \in Requests |-> "none"]
    /\ accounted = [r \in Requests |-> FALSE]
    /\ tally = [s \in Known |-> [t \in Stages |-> 0]]

-----------------------------------------------------------------------------
\* attribution::record for each strategy of ss; unknown names are ignored.
Counted(t, ss, stage) ==
    [s \in Known |-> IF s \in ss THEN [t[s] EXCEPT ![stage] = @ + 1] ELSE t[s]]

\* triage::classify as far as the handler uses it.
Skip(a) == ~a.orders \/ (~a.liquidity /\ ~pools') \/ a.dust

\* set_block only advances; an auction without a block seeds nothing.
Larger(a, b) == IF a > b THEN a ELSE b
SetBlock(b) == currentBlock' = Larger(currentBlock, b)

\* The auction's block is noted and its pools are seeded before triage; in a
\* cache that has pools already, the oldest of them stays what it is.
Arrive(r) ==
    /\ pc[r] = "new"
    /\ \E a \in Auction :
          /\ a.dust => a.orders
          /\ auctionBlock' = [auctionBlock EXCEPT ![r] = a.block]
          /\ SetBlock(a.block)
          /\ pools' = (pools \/ (a.liquidity /\ a.block > 0))
          /\ refreshed' = IF pools' /\ ~pools THEN a.block ELSE refreshed
          /\ IF Skip(a)
             THEN /\ pc' = [pc EXCEPT ![r] = "done"]
                  /\ response' = [response EXCEPT ![r] = "empty"]
             ELSE /\ pc' = [pc EXCEPT ![r] = "solving"]
                  /\ UNCHANGED response
    /\ UNCHANGED <<simulator, elapsed, outcome, sim, rpcFailed, decision, row,
                   accounted, tally>>

GeneratedByPhases(o) == o.produced  \* mutant: counted by the phases' reports
Generated(o) == o.ran

\* The solver answers, or its timeout does with the strategy "timeout".
Solved(r) ==
    /\ pc[r] = "solving"
    /\ \E o \in Outcomes, d \in SolveTimes :
          /\ outcome' = [outcome EXCEPT ![r] = o]
          /\ elapsed' = [elapsed EXCEPT ![r] = d]
          /\ tally' = Counted(tally, Generated(o), "generated")
          /\ pc' = [pc EXCEPT ![r] = IF o.found THEN "simulate" ELSE "decide"]
    /\ UNCHANGED <<currentBlock, refreshed, pools, simulator, auctionBlock, sim,
                   rpcFailed, decision, response, row, accounted>>

-----------------------------------------------------------------------------
\* The end of simulate_solution, and what the handler attributes to it.
Simulated(r, s) ==
    /\ sim' = [sim EXCEPT ![r] = s]
    /\ pc' = [pc EXCEPT ![r] = "decide"]
    /\ tally' = IF ~s.simulated THEN tally
                ELSE IF s.success
                THEN Counted(tally, outcome[r].produced, "simPassed")
                ELSE Counted(tally, {outcome[r].winner}, "simFailed")
    /\ UNCHANGED <<currentBlock, refreshed, pools, simulator, auctionBlock,
                   outcome, decision, response, row, accounted>>

\* Without eth_call: skipped by the kill switch, or judged by its structure,
\* which also does for settlements that cannot be encoded.
SimulateLocally(r) ==
    /\ pc[r] = "simulate"
    /\ \/ simulator = "disabled" /\ Simulated(r, Skipped)
       \/ simulator # "disabled" /\ ~outcome[r].trades /\ Simulated(r, Reverted(0))
       \/ simulator # "disabled" /\ outcome[r].trades /\ Simulated(r, Passed(0))
    /\ UNCHANGED <<elapsed, rpcFailed>>

\* eth_call at the block the tracker knows (0: "latest").
SimulateCall(r) ==
    /\ pc[r] = "simulate"
    /\ simulator = "eth_call" /\ outcome[r].trades
    /\ pc' = [pc EXCEPT ![r] = "call"]
    /\ sim' = [sim EXCEPT ![r].block = currentBlock]
    /\ UNCHANGED <<currentBlock, refreshed, pools, simulator, auctionBlock,
                   elapsed, outcome, rpcFailed, decision, response, row, accounted,
                   tally>>

\* The node answers: the settlement reverts or succeeds.
CallAnswered(r) ==
    /\ pc[r] = "call"
    /\ \E d \in SimTimes : elapsed' = [elapsed EXCEPT ![r] = @ + d]
    /\ \E s \in {Passed(sim[r].block), Reverted(sim[r].block)} : Simulated(r, s)
    /\ UNCHANGED rpcFailed

CallHangs(r) == FALSE  \* mutant: a client without a timeout

\* An error or the timeout of the request: taken for a revert.
CallFails(r) ==
    /\ pc[r] = "call"
    /\ \E d \in SimTimes : elapsed' = [elapsed EXCEPT ![r] = @ + d]
    /\ rpcFailed' = [rpcFailed EXCEPT ![r] = TRUE]
    /\ Simulated(r, Reverted(sim[r].block))

-----------------------------------------------------------------------------
Monus(a, b) == IF a > b THEN a - b ELSE 0

\* The freshness input's cache_block is derived from the block tracker.
CacheBlock == Monus(currentBlock, 1)

\* The block the candidate is judged at.
JudgedAt(r) == IF auctionBlock[r] > 0 THEN auctionBlock[r] ELSE currentBlock

\* freshness::score in thousandths, with weights 40, 20, 25 and 15 per cent;
\* the handler never passes an RPC latency or an RFQ age, 80 % each.
BlockScore(age) ==
    IF age <= BlockFresh THEN 400
    ELSE IF age >= BlockStale THEN 0
    ELSE 400 - (400 * (age - BlockFresh)) \div (BlockStale - BlockFresh)
SimScore(at, block) ==
    IF block = 0 THEN 105
    ELSE IF block = at THEN 150
    ELSE IF block + 1 = at THEN 120 ELSE 30
Confidence(r) ==
    BlockScore(Monus(JudgedAt(r), CacheBlock)) + 160 + 200
        + SimScore(JudgedAt(r), sim[r].block)

SimReverted(r) == sim[r].simulated /\ ~sim[r].success

\* submission::classify_risk
HighRisk(r) == SimReverted(r) \/ Confidence(r) < 300

\* Mutant: time pressure is looked at first.
ReasonPressureFirst(r) ==
    LET remaining == Monus(MaxSolve, elapsed[r])
    IN  IF remaining < Pressure THEN "pressure"
        ELSE IF SimReverted(r) THEN "reverted"
        ELSE IF outcome[r].score = 0 THEN "score"
        ELSE IF HighRisk(r) /\ remaining > Patience THEN "risk"
        ELSE "standard"

\* submission::choose_timing: the first rule that applies.  The handler passes
\* no previous score, so nothing is ever replaced.
Reason(r) ==
    LET remaining == Monus(MaxSolve, elapsed[r])
    IN  IF SimReverted(r) THEN "reverted"
        ELSE IF outcome[r].score = 0 THEN "score"
        ELSE IF remaining < Pressure THEN "pressure"
        ELSE IF HighRisk(r) /\ remaining > Patience THEN "risk"
        ELSE "standard"
Timing(reason) ==
    IF reason \in {"reverted", "score", "risk"} THEN "hold" ELSE "submit"

Result(o, timing) ==
    IF ~o.found THEN "empty"
    ELSE IF timing = "submit" THEN "submitted" ELSE "held"

\* The rest of the handler has no await: it decides, counts, spawns the tasks
\* that record the request, and answers.
Decide(r) ==
    /\ pc[r] = "decide"
    /\ LET o      == outcome[r]
           reason == IF o.found THEN Reason(r) ELSE "none"
           timing == Timing(reason)
           submit == o.found /\ timing = "submit"
           approved == IF o.found THEN Counted(tally, {o.winner}, "policyApproved")
                                  ELSE tally
       IN  /\ decision' = [decision EXCEPT ![r] =
                 [confidence |-> Confidence(r), reason |-> reason,
                  timing |-> IF o.found THEN timing ELSE "hold"]]
           /\ tally' = IF submit THEN Counted(approved, {o.winner}, "submitted")
                                 ELSE approved
           /\ row' = [row EXCEPT ![r] = Result(o, timing)]
           /\ accounted' = [accounted EXCEPT ![r] = submit]
           /\ response' = [response EXCEPT ![r] =
                              IF submit THEN "solutions" ELSE "empty"]
    /\ pc' = [pc EXCEPT ![r] = "done"]
    /\ UNCHANGED <<currentBlock, refreshed, pools, simulator, auctionBlock,
                   elapsed, outcome, sim, rpcFailed>>

\* The indexer sees a new block, and with or without it new reserves.
Index ==
    /\ \E b \in Blocks \cup {0} : SetBlock(b)
    /\ refreshed' \in {refreshed, currentBlock'}
    /\ currentBlock' # currentBlock \/ refreshed' # refreshed
    /\ UNCHANGED <<pools, simulator, pc, auctionBlock, elapsed, outcome, sim,
                   rpcFailed, decision, response, row, accounted, tally>>

Handler(r) ==
    \/ Arrive(r) \/ Solved(r)
    \/ SimulateLocally(r) \/ SimulateCall(r) \/ CallAnswered(r) \/ CallFails(r)
    \/ Decide(r)

Next == Index \/ \E r \in Requests : Handler(r)

\* The runtime does not idle while a request can go on (which is enough: the
\* steps of a request are few); the solver and the simulation's client have
\* timeouts, the node need not answer.
Progress(r) ==
    Solved(r) \/ SimulateLocally(r) \/ SimulateCall(r) \/ CallFails(r) \/ Decide(r)
Fairness == WF_vars(\E r \in Requests : Progress(r))

Spec == Init /\ [][Next]_vars /\ Fairness
-----------------------------------------------------------------------------
\* Every variable has its type.
TypeOK ==
    /\ {currentBlock, refreshed} \subseteq Blocks \cup {0}
    /\ pools \in BOOLEAN
    /\ simulator \in Simulators
    /\ pc \in [Requests -> {"new", "solving", "simulate", "call", "decide",
                            "done"}]
    /\ auctionBlock \in [Requests -> Blocks \cup {0}]
    /\ elapsed \in [Requests -> Nat]
    /\ outcome \in [Requests -> Outcome]
    /\ sim \in [Requests -> SimResult]
    /\ rpcFailed \in [Requests -> BOOLEAN]
    /\ decision \in [Requests -> Decision]
    /\ response \in [Requests -> {"none", "empty", "solutions"}]
    /\ row \in [Requests -> {"none", "empty", "held", "submitted"}]
    /\ accounted \in [Requests -> BOOLEAN]
    /\ tally \in [Known -> [Stages -> Nat]]

\* Solutions only leave the solver with a positive score and without a revert,
\* however little time is left; and the replay database, the accounting and the
\* attribution say "submitted" of exactly the requests answered with solutions.
ServedAndRecorded ==
    \A r \in Requests :
        LET served == response[r] = "solutions"
        IN  /\ served => outcome[r].score > 0 /\ ~SimReverted(r)
            /\ served <=> row[r] = "submitted"
            /\ served <=> accounted[r]

\* The attribution counters are a funnel: a strategy is not approved more often
\* than it was generated, and it is submitted as often as its solutions were
\* served, whatever requests run at once.
Funnel ==
    \A s \in Known :
        /\ tally[s]["policyApproved"] <= tally[s]["generated"]
        /\ tally[s]["submitted"] <= tally[s]["policyApproved"]
        /\ tally[s]["submitted"] =
              Cardinality({r \in Requests : response[r] = "solutions"
                                            /\ outcome[r].winner = s})

\* freshness.rs: cache_block is the "Block number when pool data was last
\* refreshed", and "10+ blocks = stale" scores none of the 0.40 that the age of
\* the data weighs; submission.rs would hold "Very stale data + high risk".  The
\* handler passes the tracker instead, which it has advanced itself.
StaleLowersConfidence ==
    [][\A r \in Requests :
          pc[r] = "decide" /\ pc'[r] = "done"
              /\ outcome[r].found
              /\ refreshed > 0 /\ JudgedAt(r) - refreshed >= BlockStale
          => decision'[r].confidence <= 600]_vars

\* What holds instead: no candidate is held for stale data, even when newer
\* auctions and the indexer move the tracker while it is simulated.
StalenessUnseen ==
    \A r \in Requests :
        /\ pc[r] = "done" /\ outcome[r].found => decision[r].confidence >= 790
        /\ decision[r].reason # "risk"

\* simulation.rs: "If simulation exceeds 2s timeout, returns simulated: false".
TimeoutIsNoRevert == \A r \in Requests : rpcFailed[r] => ~SimReverted(r)

\* Every request that arrived is answered, even if the node never answers; a
\* request arrives once, so from some time on none is left waiting.
Responds == <>[](\A r \in Requests : pc[r] # "new" => response[r] # "none")
=============================================================================
