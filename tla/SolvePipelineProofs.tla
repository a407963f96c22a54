------------------------ MODULE SolvePipelineProofs ------------------------
(***************************************************************************)
(* Theorems about SolvePipeline, for every budget, deadline, auction size  *)
(* and score range.  IInv is the inductive invariant: the type invariant,  *)
(* what each location knows of the clock (ClockInv), which phases have     *)
(* been logged and which candidates are waiting to be (LoggedInv), what    *)
(* phase_scores holds (ScoresInv), and the properties themselves.          *)
(***************************************************************************)
EXTENDS SolvePipeline, TLAPS

\* What a location knows of the clock and of phase 5's sub-timeout.
ClockInv ==
    /\ pc = "phase1" => now = 0
    /\ pc \in {"phase2", "gate"} => now < HardCutoff
    /\ pc = "await" => aggDeadline <= HardCutoff

\* The phase that the request runs next, or is running.
Upcoming ==
    CASE pc = "phase1" -> 1
      [] pc = "phase2" -> 2
      [] pc \in {"gate", "split"} -> 3
      [] pc \in {"graph", "gsplit"} -> 4
      [] pc \in {"phase5", "await"} -> 5
      [] OTHER -> 6

\* Phases are logged in order, each after its candidates; only the graph
\* solution and the fallback wait unlogged.
LoggedInv ==
    /\ \A p \in Ran : p < Upcoming
    /\ \A c \in cands : \/ c.phase \in Ran
                        \/ pc = "gsplit" /\ c.phase = 4
                        \/ pc \in {"finalize", "done"} /\ c.phase = 6
    /\ pc \in {"fallback", "finalize"} => decisions # {}

\* An entry of phase_scores is the best score known when its phase ended.
ScoresInv ==
    \A q \in Ran : IsBest(scores[q], {c \in cands : c.phase <= q})

IInv ==
    /\ TypeOK
    /\ ClockInv
    /\ LoggedInv
    /\ ScoresInv
    /\ PreservedWhenEnvSet
    /\ OverrunBounded
    /\ BestSoFar
    /\ BestReturned
    /\ FallbackAlone
    /\ ImprovedAfterPredecessor
-----------------------------------------------------------------------------
\* The constants are natural numbers.
LEMMA ConstantsNat ==
    /\ OuterDefault \in Nat /\ InnerDefault \in Nat /\ Buffer \in Nat
    /\ Phase3Deadline \in Nat /\ Phase4Deadline \in Nat
    /\ MinAgg \in Nat /\ AggMargin \in Nat /\ AggCap \in Nat
    /\ MaxOrders \in Nat /\ MaxSplitOrders \in Nat /\ MaxScore \in Nat
    /\ MaxStep \in Nat
BY PipelineAssumption

\* Budgets and deadlines are times, and no phase's deadline is after the cutoff.
LEMMA Budgets ==
    ASSUME TypeOK
    PROVE  /\ OuterBudget \in Nat /\ InnerBudget \in Nat
           /\ HardCutoff \in Nat /\ HardCutoff <= InnerBudget
           /\ Deadline3 \in Nat /\ Deadline3 <= HardCutoff
           /\ Deadline4 \in Nat /\ Deadline4 <= HardCutoff
           /\ Remaining \in Nat /\ AggBudget \in Nat
           /\ Remaining > 0 => now + AggBudget <= HardCutoff
           /\ env # Unset => OuterBudget = InnerBudget
<1>1. OuterBudget \in Nat /\ InnerBudget \in Nat
  BY ConstantsNat, PipelineAssumption DEF TypeOK, OuterBudget, InnerBudget
<1>2. HardCutoff \in Nat /\ HardCutoff <= InnerBudget
  BY <1>1, ConstantsNat DEF HardCutoff, Monus
<1>3. /\ Deadline3 \in Nat /\ Deadline3 <= HardCutoff
      /\ Deadline4 \in Nat /\ Deadline4 <= HardCutoff
  BY <1>2, ConstantsNat DEF Deadline3, Deadline4, Lesser
<1>4. now \in Nat
  BY DEF TypeOK
<1>5. Remaining \in Nat /\ (Remaining > 0 => now + Remaining <= HardCutoff)
  BY <1>2, <1>4 DEF Remaining, Monus
<1>6. AggBudget \in Nat /\ AggBudget <= Remaining
  BY <1>5, ConstantsNat DEF AggBudget, Monus, Lesser
<1>7. now + AggBudget <= HardCutoff \/ ~(Remaining > 0)
  BY <1>2, <1>4, <1>5, <1>6
<1>8. env # Unset => OuterBudget = InnerBudget
  BY DEF OuterBudget, InnerBudget
<1> QED
  BY <1>1, <1>2, <1>3, <1>5, <1>6, <1>7, <1>8

\* A duration is a time of at most MaxStep.
LEMMA DurationNat ==
    ASSUME NEW d \in Durations
    PROVE  d \in Nat /\ d <= MaxStep
BY PipelineAssumption, ConstantsNat

\* The initial states satisfy the inductive invariant.
LEMMA InitIInv == Init => IInv
<1> SUFFICES ASSUME Init PROVE IInv
  OBVIOUS
<1>1. TypeOK
  <2>1. 0 \in Scores /\ 0 \in 0..MaxOrders
    BY ConstantsNat DEF Scores
  <2>2. scores \in [1..5 -> Scores]
    BY <2>1 DEF Init
  <2>3. pc \in Locations
    BY DEF Init, Locations
  <2>4. strategy \in Strategies /\ winner \in Strategies
    BY DEF Init, Strategies
  <2> QED
    BY <2>1, <2>2, <2>3, <2>4 DEF Init, TypeOK
<1>2. Ran = {}
  BY DEF Init, Ran
<1>3. ClockInv /\ LoggedInv /\ ScoresInv
  BY <1>2 DEF Init, ClockInv, LoggedInv, ScoresInv
<1>4. PreservedWhenEnvSet
  BY DEF Init, PreservedWhenEnvSet
<1>5. OverrunBounded
  BY <1>1, Budgets, ConstantsNat DEF Init, OverrunBounded
<1>6. BestSoFar
  BY <1>2 DEF Init, BestSoFar, IsBest
<1>7. BestReturned /\ FallbackAlone /\ ImprovedAfterPredecessor
  BY DEF Init, BestReturned, FallbackAlone, ImprovedAfterPredecessor
<1> QED
  BY <1>1, <1>3, <1>4, <1>5, <1>6, <1>7 DEF IInv

\* The names of the five phases.
LEMMA NameOfValues ==
    /\ NameOf[1] = "direct" /\ NameOf[2] = "multihop" /\ NameOf[3] = "split"
    /\ NameOf[4] = "graph" /\ NameOf[5] = "aggregator"
BY DEF NameOf

\* Record keeps the types of what it assigns.
LEMMA RecordType ==
    ASSUME TypeOK, NEW p \in 1..5, NEW cs, Record(p, cs)
    PROVE  /\ scores' \in [1..5 -> Scores]
           /\ best' \in Scores
           /\ strategy' \in Strategies
           /\ decisions' \in SUBSET [phase : 1..5, improved : BOOLEAN]
<1>1. PICK b \in Scores :
          /\ scores' = [scores EXCEPT ![p] = b]
          /\ best' = IF b > best THEN b ELSE best
          /\ strategy' = IF b > best THEN NameOf[p] ELSE strategy
          /\ decisions' = decisions \cup
                {[phase |-> p,
                  improved |-> b > (IF p = 1 THEN 0 ELSE scores[p - 1])]}
  BY DEF Record
<1>2. NameOf[p] \in Strategies
  BY NameOfValues DEF Strategies
<1>3. scores' \in [1..5 -> Scores]
  BY <1>1 DEF TypeOK
<1>4. best' \in Scores /\ strategy' \in Strategies
  BY <1>1, <1>2 DEF TypeOK
<1>5. decisions' \in SUBSET [phase : 1..5, improved : BOOLEAN]
  <2> DEFINE i == b > (IF p = 1 THEN 0 ELSE scores[p - 1])
  <2>1. [phase |-> p, improved |-> i] \in [phase : 1..5, improved : BOOLEAN]
    OBVIOUS
  <2> QED
    BY <1>1, <2>1 DEF TypeOK
<1> QED
  BY <1>3, <1>4, <1>5

\* Candidates handed back by a builder are candidates.
LEMMA MaybeType ==
    ASSUME NEW p \in 1..6, NEW cs \in Maybe(p)
    PROVE  cs \in SUBSET Candidate /\ \A c \in cs : c.phase = p
BY DEF Maybe, Candidate

LEMMA SearchType ==
    ASSUME TypeOK, NEW at, NEW deadline, Search(at, deadline)
    PROVE  TypeOK'
<1>1. PICK d \in Durations : now' = now + d
  BY DEF Search
<1>2. now' \in Nat
  BY <1>1, DurationNat DEF TypeOK
<1>3. todo' \in 0..MaxOrders
  BY ConstantsNat DEF Search, TypeOK
<1>4. found' \in BOOLEAN
  BY DEF Search, TypeOK
<1> QED
  BY <1>2, <1>3, <1>4 DEF Search, TypeOK
LEMMA LoopBounds ==
    ASSUME TypeOK
    PROVE  /\ Searchable(auction.orders) \in 0..MaxOrders
           /\ Searchable(Lesser(auction.orders, MaxSplitOrders)) \in 0..MaxOrders
<1>1. auction.orders \in 0..MaxOrders
  BY DEF TypeOK
<1> QED
  BY <1>1, ConstantsNat DEF Searchable, Lesser

LEMMA Phase5Type ==
    ASSUME TypeOK, NEW new, new \in {{}, AggSolution}, Phase5(new)
    PROVE  TypeOK'
<1>1. cands' \in SUBSET Candidate
  BY ConstantsNat DEF Phase5, AggSolution, TypeOK, Candidate, Scores
<1> QED
  BY <1>1, RecordType DEF Phase5, TypeOK, Locations

\* Every step keeps the types.
LEMMA TypeStep == ASSUME TypeOK, [Next]_vars PROVE TypeOK'
<1>1. CASE Phase1
  <2>1. now' \in Nat
    BY <1>1, DurationNat DEF Phase1, TypeOK
  <2>2. cands' \in SUBSET Candidate
    BY <1>1 DEF Phase1, Candidate
  <2> QED
    BY <1>1, <2>1, <2>2, RecordType DEF Phase1, TypeOK, Continue, Locations
<1>2. CASE Phase2
  <2>1. now' \in Nat
    BY <1>2, DurationNat DEF Phase2, TypeOK
  <2>2. cands' \in SUBSET Candidate
    BY <1>2, MaybeType DEF Phase2, TypeOK
  <2>3. Record(2, cands') /\ Continue(now', "gate")
    BY <1>2 DEF Phase2
  <2> QED
    BY <1>2, <2>1, <2>2, <2>3, RecordType
    DEF Phase2, TypeOK, Continue, Locations
<1>3. CASE Gate
  <2>1. now' \in Nat /\ todo' \in 0..MaxOrders /\ pc' \in Locations
    BY <1>3, DurationNat, LoopBounds DEF Gate, TypeOK, Locations
  <2> QED
    BY <1>3, <2>1 DEF Gate, TypeOK
<1>4. CASE SplitSearch \/ GraphSearch \/ GraphSplitSearch
  BY <1>4, SearchType DEF SplitSearch, GraphSearch, GraphSplitSearch
<1>5. CASE Phase3
  <2>1. cands' \in SUBSET Candidate
    BY <1>5, MaybeType DEF Phase3, Built, TypeOK
  <2>2. todo' \in 0..MaxOrders
    BY <1>5, LoopBounds, ConstantsNat DEF Phase3
  <2>3. Record(3, cands')
    BY <1>5 DEF Phase3
  <2>4. /\ scores' \in [1..5 -> Scores] /\ best' \in Scores
        /\ strategy' \in Strategies
        /\ decisions' \in SUBSET [phase : 1..5, improved : BOOLEAN]
    BY <2>3, RecordType
  <2>5. pc' \in Locations
    BY <1>5 DEF Phase3, Continue, Locations
  <2> QED
    BY <1>5, <2>1, <2>2, <2>4, <2>5 DEF Phase3, TypeOK
<1>6. CASE GraphBuilt
  <2>1. cands' \in SUBSET Candidate
    BY <1>6, MaybeType DEF GraphBuilt, Built, TypeOK
  <2>2. todo' \in 0..MaxOrders
    BY <1>6, LoopBounds, ConstantsNat DEF GraphBuilt
  <2> QED
    BY <1>6, <2>1, <2>2 DEF GraphBuilt, TypeOK, Locations
<1>7. CASE Phase4
  <2>1. cands' \in SUBSET Candidate
    BY <1>7, MaybeType DEF Phase4, Built, TypeOK
  <2>2. todo' \in 0..MaxOrders
    BY <1>7, ConstantsNat DEF Phase4
  <2>3. Record(4, cands')
    BY <1>7 DEF Phase4
  <2>4. /\ scores' \in [1..5 -> Scores] /\ best' \in Scores
        /\ strategy' \in Strategies
        /\ decisions' \in SUBSET [phase : 1..5, improved : BOOLEAN]
    BY <2>3, RecordType
  <2>5. pc' \in Locations
    BY <1>7 DEF Phase4, Continue, Locations
  <2> QED
    BY <1>7, <2>1, <2>2, <2>4, <2>5 DEF Phase4, TypeOK
<1>8. CASE StartAggregators
  <2>1. aggDeadline' \in Nat
    BY <1>8, Budgets DEF StartAggregators, TypeOK
  <2> QED
    BY <1>8, <2>1 DEF StartAggregators, TypeOK, Locations
<1>9. CASE SkipAggregators \/ AggregatorsAnswer \/ AggregatorsTimeOut
  BY <1>9, Phase5Type DEF SkipAggregators, AggregatorsAnswer, AggregatorsTimeOut
<1>10. CASE Tick
  <2>1. now' \in Nat
    BY <1>10, DurationNat DEF Tick, TypeOK
  <2> QED
    BY <1>10, <2>1 DEF Tick, TypeOK
<1>11. CASE OuterTimeout
  BY <1>11 DEF OuterTimeout, TypeOK, Locations
<1>12. CASE Fallback
  <2>1. cands' \in SUBSET Candidate
    BY <1>12, MaybeType DEF Fallback, TypeOK
  <2> QED
    BY <1>12, <2>1 DEF Fallback, TypeOK, Locations
<1>13. CASE Finalize
  <2>1. served' \in SUBSET Candidate
    BY <1>13 DEF Finalize, First, TypeOK
  <2>2. winner' \in Strategies \cup {"fallback"}
    BY <1>13 DEF Finalize, TypeOK
  <2>3. filtered' \in BOOLEAN
    BY <1>13 DEF Finalize
  <2> QED
    BY <1>13, <2>1, <2>2, <2>3 DEF Finalize, TypeOK, Locations
<1>14. CASE UNCHANGED vars \/ Done
  BY <1>14 DEF vars, Done, TypeOK
<1> QED
  BY <1>1, <1>2, <1>3, <1>4, <1>5, <1>6, <1>7, <1>8, <1>9, <1>10, <1>11,
     <1>12, <1>13, <1>14 DEF Next, Compute, Timers
\* A step changes neither the environment variable nor, with it, the budgets.
LEMMA EnvStep ==
    ASSUME [Next]_vars
    PROVE  env' = env /\ HardCutoff' = HardCutoff
<1>1. env' = env
  BY DEF Next, Compute, Timers, Phase1, Phase2, Gate, SplitSearch, GraphSearch,
         GraphSplitSearch, Search, Phase3, GraphBuilt, Phase4,
         StartAggregators, SkipAggregators, AggregatorsAnswer,
         AggregatorsTimeOut, Phase5, Tick, OuterTimeout, Fallback, Finalize,
         Done, vars
<1> QED
  BY <1>1 DEF HardCutoff, InnerBudget

\* The clock: an iteration starts before its deadline, so no computation ends
\* more than MaxStep after the cutoff.
LEMMA ClockStep ==
    ASSUME TypeOK, ClockInv, OverrunBounded, [Next]_vars
    PROVE  ClockInv' /\ OverrunBounded'
<1> USE Budgets, EnvStep, DurationNat, ConstantsNat
<1>1. CASE Phase1
  <2>1. PICK d \in Durations : now' = now + d
    BY <1>1 DEF Phase1
  <2> QED
    BY <1>1, <2>1 DEF Phase1, Continue, ClockInv, OverrunBounded, TypeOK
<1>2. CASE Phase2
  <2>1. PICK d \in Durations : now' = now + d
    BY <1>2 DEF Phase2
  <2>2. pc = "phase2" /\ Continue(now', "gate")
    BY <1>2 DEF Phase2
  <2> QED
    BY <2>1, <2>2 DEF Continue, ClockInv, OverrunBounded, TypeOK
<1>3. CASE Gate
  BY <1>3 DEF Gate, ClockInv, OverrunBounded, TypeOK
<1>4. CASE SplitSearch \/ GraphSearch \/ GraphSplitSearch
  <2>1. PICK d \in Durations : now' = now + d
    BY <1>4 DEF SplitSearch, GraphSearch, GraphSplitSearch, Search
  <2>2. now < HardCutoff
    BY <1>4 DEF SplitSearch, GraphSearch, GraphSplitSearch, Search, TypeOK
  <2>3. pc' \in {"split", "graph", "gsplit"}
    BY <1>4 DEF SplitSearch, GraphSearch, GraphSplitSearch, Search
  <2> QED
    BY <2>1, <2>2, <2>3 DEF ClockInv, OverrunBounded, TypeOK
<1>5. CASE Phase3 \/ GraphBuilt \/ Phase4 \/ Fallback \/ Finalize
  <2>1. now' = now /\ pc' \notin {"phase1", "phase2", "gate", "await"}
    BY <1>5 DEF Phase3, GraphBuilt, Phase4, Fallback, Finalize, Continue
  <2> QED
    BY <2>1 DEF ClockInv, OverrunBounded
<1>6. CASE StartAggregators
  BY <1>6 DEF StartAggregators, ClockInv, OverrunBounded, TypeOK
<1>7. CASE SkipAggregators \/ AggregatorsAnswer \/ AggregatorsTimeOut
  <2>1. now' = now /\ pc' = "fallback"
    BY <1>7 DEF SkipAggregators, AggregatorsAnswer, AggregatorsTimeOut, Phase5
  <2> QED
    BY <2>1 DEF ClockInv, OverrunBounded
<1>8. CASE Tick
  <2>1. PICK d \in Durations : now' = now + d
    BY <1>8 DEF Tick
  <2> QED
    BY <1>8, <2>1 DEF Tick, ClockInv, OverrunBounded, TypeOK
<1>9. CASE OuterTimeout
  BY <1>9 DEF OuterTimeout, ClockInv, OverrunBounded
<1>10. CASE UNCHANGED vars \/ Done
  BY <1>10 DEF vars, Done, ClockInv, OverrunBounded
<1> QED
  BY <1>1, <1>2, <1>3, <1>4, <1>5, <1>6, <1>7, <1>8, <1>9, <1>10
  DEF Next, Compute, Timers

\* The outer timeout: with one budget for the route and the solver it can not
\* fire, because phase 5's sub-timeout has expired before.
LEMMA PreservedStep ==
    ASSUME TypeOK, ClockInv, PreservedWhenEnvSet, [Next]_vars
    PROVE  PreservedWhenEnvSet'
<1>1. CASE OuterTimeout
  <2>1. now \in Nat /\ aggDeadline \in Nat
    BY DEF TypeOK
  <2>2. OuterBudget < HardCutoff
    BY <1>1, <2>1, Budgets DEF OuterTimeout, ClockInv
  <2> QED
    BY <2>2, Budgets, EnvStep DEF PreservedWhenEnvSet
<1>2. CASE ~OuterTimeout
  <2>1. timedOut' = timedOut
    BY <1>2
    DEF Next, Compute, Timers, Phase1, Phase2, Gate, SplitSearch, GraphSearch,
        GraphSplitSearch, Search, Phase3, GraphBuilt, Phase4,
        StartAggregators, SkipAggregators, AggregatorsAnswer,
        AggregatorsTimeOut, Phase5, Tick, Fallback, Finalize, Done, vars
  <2> QED
    BY <2>1, EnvStep DEF PreservedWhenEnvSet
<1> QED
  BY <1>1, <1>2
-----------------------------------------------------------------------------
\* Phase p is logged: it is later than the phases logged before it, the new
\* candidates are its own, and so is any candidate still unlogged.
Logs(p) ==
    /\ \A q \in Ran : q < p
    /\ cands \subseteq cands'
    /\ \A c \in cands : c.phase \in Ran \/ c.phase = p
    /\ \A c \in cands' \ cands : c.phase = p
    /\ Record(p, cands')

\* Only the logged phase joins the log, with its own score.
LEMMA LogsRan ==
    ASSUME TypeOK, TypeOK', NEW p \in 1..5, Logs(p)
    PROVE  /\ Ran' = Ran \cup {p}
           /\ \A c \in cands' : c.phase \in Ran \cup {p}
           /\ \A c \in cands' : c.phase <= p
           /\ \A c \in cands' : c.phase < p => c \in cands /\ c.phase \in Ran
<1>1. Ran' = Ran \cup {p}
  <2>1. PICK d : decisions' = decisions \cup {d} /\ d.phase = p
    <3>1. PICK b \in Scores :
              decisions' = decisions \cup
                {[phase |-> p,
                  improved |-> b > (IF p = 1 THEN 0 ELSE scores[p - 1])]}
      BY DEF Logs, Record
    <3> DEFINE d == [phase |-> p,
                     improved |-> b > (IF p = 1 THEN 0 ELSE scores[p - 1])]
    <3>2. decisions' = decisions \cup {d}
      BY <3>1
    <3>3. d.phase = p
      OBVIOUS
    <3> HIDE DEF d
    <3> QED
      BY <3>2, <3>3
  <2>2. \A q : q \in Ran' <=> q \in Ran \/ q = p
    BY <2>1 DEF Ran
  <2> QED
    BY <2>2
<1>2. \A c \in cands' : c.phase \in Ran \cup {p}
  BY DEF Logs
<1>3. \A q \in Ran : q \in 1..5 /\ q < p
  BY DEF Logs, Ran, TypeOK
<1>4. \A c \in cands' : c.phase <= p
  BY <1>2, <1>3
<1>5. \A c \in cands' : c.phase < p => c \in cands /\ c.phase \in Ran
  BY <1>2, <1>3 DEF Logs
<1> QED
  BY <1>1, <1>2, <1>4, <1>5

\* phase_scores keeps its meaning when a phase is logged.
LEMMA LogsScores ==
    ASSUME TypeOK, TypeOK', NEW p \in 1..5, Logs(p), ScoresInv
    PROVE  ScoresInv'
<1>1. PICK b \in Scores :
          IsBest(b, cands') /\ scores' = [scores EXCEPT ![p] = b]
  BY DEF Logs, Record
<1>2. scores'[p] = b
  BY <1>1 DEF TypeOK
<1>3. \A q \in Ran : q \in 1..5 /\ q < p
  BY DEF Logs, Ran, TypeOK
<1>4. {c \in cands' : c.phase <= p} = cands'
  BY LogsRan
<1>5. \A q \in Ran : /\ scores'[q] = scores[q]
                     /\ {c \in cands' : c.phase <= q} = {c \in cands : c.phase <= q}
  <2> TAKE q \in Ran
  <2>1. scores'[q] = scores[q]
    BY <1>1, <1>3 DEF TypeOK
  <2>2. \A c \in cands' : c.phase <= q => c \in cands
    BY <1>3, LogsRan DEF TypeOK, Candidate
  <2>3. cands \subseteq cands'
    BY DEF Logs
  <2> QED
    BY <2>1, <2>2, <2>3
<1>6. \A q \in Ran \cup {p} :
          IsBest(scores'[q], {c \in cands' : c.phase <= q})
  BY <1>1, <1>2, <1>4, <1>5 DEF ScoresInv
<1> QED
  BY <1>6, LogsRan DEF ScoresInv, IsBest

\* The running best keeps its meaning: a phase takes over only with more.
LEMMA LogsBest ==
    ASSUME TypeOK, TypeOK', NEW p \in 1..5, Logs(p), BestSoFar
    PROVE  BestSoFar'
<1> DEFINE old == {c \in cands : c.phase \in Ran}
<1>1. PICK b \in Scores :
          /\ IsBest(b, cands')
          /\ best' = IF b > best THEN b ELSE best
          /\ strategy' = IF b > best THEN NameOf[p] ELSE strategy
  BY DEF Logs, Record
<1>2. {c \in cands' : c.phase \in Ran'} = cands'
  BY LogsRan
<1>3. old \subseteq cands'
  BY DEF Logs
<1>4. b \in Nat /\ best \in Nat /\ \A c \in cands \cup cands' : c.score \in Nat
  BY ConstantsNat DEF TypeOK, Candidate, Scores
<1>5. best <= b
  BY <1>1, <1>3, <1>4 DEF BestSoFar, IsBest
<1>6. best' = b
  BY <1>1, <1>4, <1>5
<1>7. IsBest(best', cands')
  BY <1>1, <1>6
<1>8. best' = 0 => strategy' = "none"
  BY <1>1, <1>4, <1>5, <1>6 DEF BestSoFar
<1>9. ASSUME best' > 0
      PROVE  \E q \in Ran' :
                /\ strategy' = NameOf[q]
                /\ \E c \in cands' : c.phase = q /\ c.score = best'
                /\ \A c \in cands' : c.phase < q => c.score < best'
  <2>1. CASE b > best
    <3>1. \A c \in cands' : c.phase < p => c.score < b
      BY <1>4, <2>1, LogsRan DEF BestSoFar, IsBest
    <3>2. PICK c \in cands' : c.score = b
      BY <1>1, <1>6, <1>9, <1>4 DEF IsBest
    <3>3. c.phase = p
      BY <1>4, <3>1, <3>2, LogsRan DEF TypeOK, Candidate
    <3> QED
      BY <1>1, <1>6, <2>1, <3>1, <3>2, <3>3, LogsRan
  <2>2. CASE ~(b > best)
    <3>1. b = best /\ strategy' = strategy
      BY <1>1, <1>4, <1>5, <2>2
    <3>2. PICK q \in Ran :
              /\ strategy = NameOf[q]
              /\ \E c \in old : c.phase = q /\ c.score = best
              /\ \A c \in old : c.phase < q => c.score < best
      BY <1>6, <1>9, <3>1 DEF BestSoFar
    <3>3. \A c \in cands' : c.phase < q => c \in old
      <4>1. q \in 1..5 /\ q < p
        BY DEF Logs, Ran, TypeOK
      <4> QED
        BY <4>1, LogsRan DEF TypeOK, Candidate
    <3> QED
      BY <1>3, <1>6, <3>1, <3>2, <3>3, LogsRan
  <2> QED
    BY <2>1, <2>2
<1> QED
  BY <1>2, <1>7, <1>8, <1>9 DEF BestSoFar
\* A decision that improved on a phase that ran names a new best candidate.
LEMMA LogsImproved ==
    ASSUME TypeOK, TypeOK', NEW p \in 1..5, Logs(p), ScoresInv,
           ImprovedAfterPredecessor
    PROVE  ImprovedAfterPredecessor'
<1> DEFINE New(d) == \E c \in cands' :
              /\ c.phase = d.phase
              /\ \A e \in cands' : e.phase < d.phase => e.score < c.score
<1>1. PICK b \in Scores :
          /\ IsBest(b, cands')
          /\ decisions' = decisions \cup
                {[phase |-> p,
                  improved |-> b > (IF p = 1 THEN 0 ELSE scores[p - 1])]}
  BY DEF Logs, Record
<1>2. \A q \in Ran : q \in 1..5 /\ q < p
  BY DEF Logs, Ran, TypeOK
<1>3. b \in Nat /\ \A c \in cands' : c.score \in Nat /\ c.phase \in 1..6
  BY ConstantsNat DEF TypeOK, Candidate, Scores
<1>4. ASSUME NEW d \in decisions, d.phase - 1 \in Ran' \cup {0}, d.improved
      PROVE  New(d)
  <2>1. d.phase \in Ran
    BY DEF Ran
  <2>2. d.phase - 1 \in Ran \cup {0}
    BY <1>2, <1>4, <2>1, LogsRan
  <2>3. PICK c \in cands :
            /\ c.phase = d.phase
            /\ \A e \in cands : e.phase < d.phase => e.score < c.score
    BY <1>4, <2>2 DEF ImprovedAfterPredecessor
  <2>4. \A e \in cands' : e.phase < d.phase => e \in cands
    BY <1>2, <1>3, <2>1, LogsRan
  <2> QED
    BY <2>3, <2>4 DEF Logs
<1>5. ASSUME NEW d, d.phase = p, p - 1 \in Ran' \cup {0},
             b > (IF p = 1 THEN 0 ELSE scores[p - 1])
      PROVE  New(d)
  <2>1. CASE p = 1
    BY <1>1, <1>3, <1>5, <2>1, LogsRan DEF IsBest
  <2>2. CASE p # 1
    <3>1. p - 1 \in Ran
      BY <1>5, <2>2, LogsRan
    <3>2. IsBest(scores[p - 1], {c \in cands : c.phase <= p - 1})
      BY <3>1 DEF ScoresInv
    <3>3. scores[p - 1] \in Nat
      BY <2>2, ConstantsNat DEF TypeOK, Scores
    <3>4. \A c \in cands' : c.phase < p => c.score <= scores[p - 1]
      BY <1>3, <3>2, LogsRan DEF IsBest
    <3>5. PICK c \in cands' : c.score = b
      BY <1>1, <1>3, <1>5, <2>2, <3>3 DEF IsBest
    <3>6. c.phase = p
      BY <1>3, <1>5, <2>2, <3>3, <3>4, <3>5, LogsRan
    <3> QED
      BY <1>3, <1>5, <2>2, <3>3, <3>4, <3>5, <3>6
  <2> QED
    BY <2>1, <2>2
<1>6. ASSUME NEW d \in decisions', d.phase - 1 \in Ran' \cup {0}, d.improved
      PROVE  New(d)
  <2>1. CASE d \in decisions
    BY <1>4, <1>6, <2>1
  <2>2. CASE d \notin decisions
    <3>1. d = [phase |-> p,
               improved |-> b > (IF p = 1 THEN 0 ELSE scores[p - 1])]
      BY <1>1, <1>6, <2>2
    <3>2. d.phase = p
      BY <3>1
    <3>3. b > (IF p = 1 THEN 0 ELSE scores[p - 1])
      BY <1>6, <3>1
    <3>4. p - 1 \in Ran' \cup {0}
      BY <1>6, <3>2
    <3> HIDE DEF New
    <3> QED
      BY <1>5, <3>2, <3>3, <3>4
  <2> QED
    BY <2>1, <2>2
<1> QED
  BY <1>6 DEF ImprovedAfterPredecessor

\* A step that logs nothing: it only adds candidates of phases to come.
Quiet ==
    /\ UNCHANGED <<best, strategy, scores, decisions>>
    /\ cands' = cands \/ GraphBuilt \/ Fallback
    /\ cands \subseteq cands'
    /\ \A c \in cands' \ cands : \A q \in Ran : q < c.phase

LEMMA QuietKeeps ==
    ASSUME TypeOK, TypeOK', Quiet, ScoresInv, BestSoFar, ImprovedAfterPredecessor
    PROVE  ScoresInv' /\ BestSoFar' /\ ImprovedAfterPredecessor'
<1>1. Ran' = Ran /\ \A q \in Ran : q \in 1..5
  BY DEF Quiet, Ran, TypeOK
<1>2. \A c \in cands' : c.phase \in 1..6
  BY DEF TypeOK, Candidate
<1>3. \A q \in Ran, c \in cands' : c.phase <= q => c \in cands
  BY <1>1, <1>2 DEF Quiet
<1>4. ScoresInv'
  <2>1. \A q \in Ran : {c \in cands' : c.phase <= q}
                      = {c \in cands : c.phase <= q}
    BY <1>3 DEF Quiet
  <2> QED
    BY <1>1, <2>1 DEF ScoresInv, Quiet, IsBest
<1>5. BestSoFar'
  <2>1. {c \in cands' : c.phase \in Ran'} = {c \in cands : c.phase \in Ran}
    BY <1>1, <1>2, <1>3 DEF Quiet
  <2> QED
    BY <1>1, <2>1 DEF BestSoFar, Quiet, IsBest
<1>6. ImprovedAfterPredecessor'
  <2> SUFFICES ASSUME NEW d \in decisions,
                      d.phase - 1 \in Ran \cup {0}, d.improved
               PROVE  \E c \in cands' :
                        /\ c.phase = d.phase
                        /\ \A e \in cands' :
                              e.phase < d.phase => e.score < c.score
    BY <1>1 DEF ImprovedAfterPredecessor, Quiet
  <2>1. d.phase \in Ran
    BY DEF Ran
  <2>2. PICK c \in cands :
            /\ c.phase = d.phase
            /\ \A e \in cands : e.phase < d.phase => e.score < c.score
    BY DEF ImprovedAfterPredecessor
  <2>3. \A e \in cands' : e.phase < d.phase => e \in cands
    BY <1>1, <1>2, <1>3, <2>1
  <2> QED
    BY <2>2, <2>3 DEF Quiet
<1> QED
  BY <1>4, <1>5, <1>6
-----------------------------------------------------------------------------
\* The phases logged so far are phases, and earlier than the upcoming one.
LEMMA RanPhases ==
    ASSUME TypeOK, LoggedInv
    PROVE  \A q \in Ran : q \in 1..5 /\ q < Upcoming
BY DEF Ran, TypeOK, LoggedInv

\* A step that starts at a location whose upcoming phase is p, and adds only
\* candidates of that phase before recording it, logs p.
LEMMA LogsAt ==
    ASSUME TypeOK, LoggedInv, NEW p \in 1..5, Upcoming = p,
           pc \notin {"finalize", "done"},
           pc = "gsplit" => p = 4,
           cands \subseteq cands', \A c \in cands' \ cands : c.phase = p,
           Record(p, cands')
    PROVE  Logs(p)
<1>1. \A q \in Ran : q < p
  BY RanPhases
<1>2. \A c \in cands : c.phase \in Ran \/ c.phase = p
  BY DEF LoggedInv
<1> QED
  BY <1>1, <1>2 DEF Logs

LEMMA Phase5Logs ==
    ASSUME TypeOK, LoggedInv, pc \in {"phase5", "await"},
           NEW new, new \in {{}, AggSolution}, Phase5(new)
    PROVE  Logs(5) /\ pc' = "fallback"
<1>1. \A c \in new : c.phase = 5
  BY DEF AggSolution
<1>2. Upcoming = 5
  BY DEF Upcoming
<1>3. cands \subseteq cands' /\ \A c \in cands' \ cands : c.phase = 5
  BY <1>1 DEF Phase5
<1>4. Record(5, cands') /\ pc' = "fallback"
  BY DEF Phase5
<1> QED
  BY <1>2, <1>3, <1>4, LogsAt

\* Every step logs one phase or is quiet, and keeps the order of the log.
LEMMA StepLogs ==
    ASSUME TypeOK, TypeOK', LoggedInv, [Next]_vars
    PROVE  /\ LoggedInv'
           /\ Quiet \/ \E p \in 1..5 : Logs(p)
<1> DEFINE Goal(p) == Logs(p) /\ LoggedInv'
<1>1. ASSUME NEW p \in 1..5, Logs(p), p < Upcoming',
             pc' \notin {"phase1"}
      PROVE  LoggedInv'
  <2>1. \A q \in Ran' : q < Upcoming'
    <3>1. \A q \in Ran : q \in 1..5 /\ q < p
      BY <1>1 DEF Logs, Ran, TypeOK
    <3>2. Upcoming' \in 1..6
      BY DEF Upcoming
    <3> QED
      BY <1>1, <3>1, <3>2, LogsRan
  <2>2. \A c \in cands' : c.phase \in Ran'
    BY <1>1, LogsRan
  <2>3. decisions' # {}
    BY <1>1, LogsRan DEF Ran
  <2> QED
    BY <2>1, <2>2, <2>3 DEF LoggedInv
<1>2. ASSUME UNCHANGED <<best, strategy, scores, decisions, cands>>,
             Upcoming <= Upcoming', pc # "gsplit",
             pc \in {"finalize", "done"} => pc' \in {"finalize", "done"},
             pc' \in {"fallback", "finalize"} =>
                pc \in {"fallback", "finalize"}
      PROVE  LoggedInv' /\ Quiet
  <2>1. Ran' = Ran /\ Upcoming \in 1..6 /\ Upcoming' \in 1..6
    BY <1>2 DEF Ran, Upcoming
  <2> QED
    BY <1>2, <2>1, RanPhases DEF LoggedInv, Quiet
<1>3. CASE Phase1
  <2>1. pc = "phase1" /\ Upcoming = 1
    BY <1>3 DEF Phase1, Upcoming
  <2>2. cands = {}
    BY <2>1, RanPhases DEF LoggedInv
  <2>3. \A c \in cands' : c.phase = 1
    BY <1>3 DEF Phase1
  <2>4. Record(1, cands')
    BY <1>3 DEF Phase1
  <2>5. Logs(1)
    BY <2>1, <2>2, <2>3, <2>4, LogsAt
  <2>6. pc' \in {"finalize", "phase2"}
    BY <1>3 DEF Phase1, Continue
  <2> QED
    BY <1>1, <2>5, <2>6 DEF Upcoming
<1>4. CASE Phase2
  <2>1. pc = "phase2" /\ Upcoming = 2
    BY <1>4 DEF Phase2, Upcoming
  <2>2. PICK hop \in Maybe(2), full \in Maybe(2) :
            cands' = cands \cup hop \cup full
    BY <1>4 DEF Phase2
  <2>3. cands \subseteq cands' /\ \A c \in cands' \ cands : c.phase = 2
    BY <2>2, MaybeType
  <2>4. Record(2, cands') /\ pc' \in {"finalize", "gate"}
    BY <1>4 DEF Phase2, Continue
  <2>5. Logs(2)
    BY <2>1, <2>3, <2>4, LogsAt
  <2> QED
    BY <1>1, <2>4, <2>5 DEF Upcoming
<1>5. CASE Gate
  BY <1>2, <1>5 DEF Gate, Upcoming
<1>6. CASE SplitSearch \/ GraphSearch
  BY <1>2, <1>6 DEF SplitSearch, GraphSearch, Search, Upcoming
<1>7. CASE GraphSplitSearch
  <2>1. UNCHANGED <<best, strategy, scores, decisions, cands, pc>>
    BY <1>7 DEF GraphSplitSearch, Search
  <2> QED
    BY <2>1 DEF LoggedInv, Quiet, Ran, Upcoming
<1>8. CASE Phase3
  <2>1. pc = "split" /\ Upcoming = 3
    BY <1>8 DEF Phase3, LoopOver, Upcoming
  <2>2. PICK new \in Maybe(3) : cands' = cands \cup new
    BY <1>8 DEF Phase3, Built, Maybe
  <2>3. Record(3, cands') /\ pc' \in {"finalize", "graph"}
    BY <1>8 DEF Phase3, Continue
  <2>4. cands \subseteq cands' /\ \A c \in cands' \ cands : c.phase = 3
    BY <2>2, MaybeType
  <2>5. Logs(3)
    BY <2>1, <2>3, <2>4, LogsAt
  <2> QED
    BY <1>1, <2>3, <2>5 DEF Upcoming
<1>9. CASE GraphBuilt
  <2>1. pc = "graph" /\ Upcoming = 4 /\ pc' = "gsplit" /\ Upcoming' = 4
    BY <1>9 DEF GraphBuilt, LoopOver, Upcoming
  <2>2. PICK new \in Maybe(4) : cands' = cands \cup new
    BY <1>9 DEF GraphBuilt, Built, Maybe
  <2>3. UNCHANGED <<best, strategy, scores, decisions>> /\ Ran' = Ran
    BY <1>9 DEF GraphBuilt, Ran
  <2> QED
    BY <1>9, <2>1, <2>2, <2>3, MaybeType, RanPhases DEF LoggedInv, Quiet
<1>10. CASE Phase4
  <2>1. pc = "gsplit" /\ Upcoming = 4
    BY <1>10 DEF Phase4, LoopOver, Upcoming
  <2>2. PICK new \in Maybe(4) : cands' = cands \cup new
    BY <1>10 DEF Phase4, Built, Maybe
  <2>3. Record(4, cands') /\ pc' \in {"finalize", "phase5"}
    BY <1>10 DEF Phase4, Continue
  <2>4. cands \subseteq cands' /\ \A c \in cands' \ cands : c.phase = 4
    BY <2>2, MaybeType
  <2>5. Logs(4)
    BY <2>1, <2>3, <2>4, LogsAt
  <2> QED
    BY <1>1, <2>3, <2>5 DEF Upcoming
<1>11. CASE SkipAggregators \/ AggregatorsAnswer \/ AggregatorsTimeOut
  <2>1. Logs(5) /\ pc' = "fallback"
    BY <1>11, Phase5Logs
    DEF SkipAggregators, AggregatorsAnswer, AggregatorsTimeOut
  <2> QED
    BY <1>1, <2>1 DEF Upcoming
<1>12. CASE StartAggregators \/ Tick \/ OuterTimeout
  BY <1>2, <1>12 DEF StartAggregators, Tick, OuterTimeout, Upcoming
<1>13. CASE Fallback
  <2>1. pc = "fallback" /\ pc' = "finalize" /\ Upcoming = 6 /\ Upcoming' = 6
    BY <1>13 DEF Fallback, Upcoming
  <2>2. UNCHANGED <<best, strategy, scores, decisions>> /\ Ran' = Ran
    BY <1>13 DEF Fallback, Ran
  <2>3. cands' = cands \/ (cands = {} /\ cands' \in Maybe(6))
    BY <1>13 DEF Fallback
  <2>4. cands \subseteq cands' /\ \A c \in cands' \ cands : c.phase = 6
    BY <2>3, MaybeType
  <2> QED
    BY <1>13, <2>1, <2>2, <2>4, RanPhases DEF LoggedInv, Quiet
<1>14. CASE Finalize
  BY <1>2, <1>14 DEF Finalize, Upcoming
<1>15. CASE UNCHANGED vars \/ Done
  <2>1. UNCHANGED <<best, strategy, scores, decisions, cands, pc>>
    BY <1>15 DEF vars, Done
  <2> QED
    BY <2>1 DEF LoggedInv, Quiet, Ran, Upcoming
<1> QED
  BY <1>3, <1>4, <1>5, <1>6, <1>7, <1>8, <1>9, <1>10, <1>11, <1>12, <1>13,
     <1>14, <1>15 DEF Next, Compute, Timers
\* No phase has logged the fallback's candidate, so it is there only at the end.
LEMMA NoFallbackBefore ==
    ASSUME TypeOK, LoggedInv, NEW c \in cands, c.phase = 6
    PROVE  pc \in {"finalize", "done"}
BY RanPhases DEF LoggedInv

\* With no candidate the running best is 0.
LEMMA NoCandidate ==
    ASSUME BestSoFar, cands = {}
    PROVE  best = 0
BY DEF BestSoFar, IsBest

LEMMA FallbackStep ==
    ASSUME TypeOK, TypeOK', LoggedInv, BestSoFar, FallbackAlone, [Next]_vars
    PROVE  FallbackAlone'
<1>1. CASE \E p \in 1..5 : Logs(p)
  <2>1. PICK p \in 1..5 : Logs(p)
    BY <1>1
  <2>2. \A c \in cands' : c.phase <= p
    BY <2>1, LogsRan
  <2> QED
    BY <2>2 DEF FallbackAlone
<1>2. CASE Fallback
  <2>1. CASE cands = {} /\ cands' \in Maybe(6)
    <3>1. best' = 0 /\ decisions' # {}
      BY <1>2, <2>1, NoCandidate DEF Fallback, LoggedInv
    <3>2. \A c \in cands' : cands' = {c}
      BY <2>1 DEF Maybe
    <3> QED
      BY <3>1, <3>2 DEF FallbackAlone
  <2>2. CASE cands # {} /\ UNCHANGED cands
    BY <1>2, <2>2 DEF Fallback, FallbackAlone
  <2> QED
    BY <1>2, <2>1, <2>2 DEF Fallback
<1>3. CASE GraphBuilt
  <2>1. PICK new \in Maybe(4) : cands' = cands \cup new
    BY <1>3 DEF GraphBuilt, Built, Maybe
  <2>2. \A c \in cands' : c.phase # 6
    BY <1>3, <2>1, MaybeType, NoFallbackBefore DEF GraphBuilt, LoopOver
  <2> QED
    BY <2>2 DEF FallbackAlone
<1>4. CASE Quiet /\ cands' = cands
  BY <1>4 DEF FallbackAlone, Quiet
<1> QED
  BY <1>1, <1>2, <1>3, <1>4, StepLogs DEF Quiet

\* The response: it is written once, by Finalize, from all the candidates.
LEMMA ReturnedStep ==
    ASSUME TypeOK, TypeOK', LoggedInv, BestSoFar, FallbackAlone, BestReturned,
           [Next]_vars
    PROVE  BestReturned'
<1>1. CASE Finalize
  <2> SUFFICES ASSUME ~filtered', best > 0
               PROVE  /\ \E c \in served' : c.score = best
                      /\ winner' = strategy
    BY <1>1 DEF Finalize, BestReturned
  <2>1. \A c \in cands : c.phase \in Ran
    BY <1>1 DEF Finalize, LoggedInv, FallbackAlone
  <2>2. {c \in cands : c.phase \in Ran} = cands
    BY <2>1
  <2>3. PICK m \in cands : m.score = best
    BY <2>2 DEF BestSoFar, IsBest
  <2>4. PICK c \in First(cands) : served' = {c}
    BY <1>1, <2>3 DEF Finalize
  <2>5. c \in cands /\ c.score >= m.score /\ c.score <= best
    BY <2>2, <2>3, <2>4 DEF First, BestSoFar, IsBest
  <2>6. c.score = best
    BY <2>3, <2>5, ConstantsNat DEF TypeOK, Candidate, Scores
  <2>7. winner' = strategy
    BY <1>1 DEF Finalize, UsedFallback, FallbackAlone
  <2> QED
    BY <2>4, <2>6, <2>7
<1>2. CASE OuterTimeout
  BY <1>2 DEF OuterTimeout, BestReturned
<1>3. CASE UNCHANGED vars \/ Done
  BY <1>3 DEF vars, Done, BestReturned
<1>4. CASE pc' # "done"
  BY <1>4 DEF BestReturned
<1>5. pc' # "done" \/ Finalize \/ OuterTimeout \/ UNCHANGED vars \/ Done
  BY DEF Next, Compute, Timers, Phase1, Phase2, Gate, SplitSearch, GraphSearch,
         GraphSplitSearch, Search, Phase3, GraphBuilt, Phase4, Continue,
         StartAggregators, SkipAggregators, AggregatorsAnswer,
         AggregatorsTimeOut, Phase5, Tick, Fallback
<1> QED
  BY <1>1, <1>2, <1>3, <1>4, <1>5

-----------------------------------------------------------------------------
\* The invariant is inductive.
LEMMA StepIInv == IInv /\ [Next]_vars => IInv'
<1> SUFFICES ASSUME IInv, [Next]_vars PROVE IInv'
  OBVIOUS
<1> USE DEF IInv
<1>1. TypeOK'
  BY TypeStep
<1>2. ClockInv' /\ OverrunBounded'
  BY ClockStep
<1>3. PreservedWhenEnvSet'
  BY PreservedStep
<1>4. LoggedInv'
  BY <1>1, StepLogs
<1>5. ScoresInv' /\ BestSoFar' /\ ImprovedAfterPredecessor'
  <2>1. CASE Quiet
    BY <1>1, <2>1, QuietKeeps
  <2>2. CASE \E p \in 1..5 : Logs(p)
    BY <1>1, <2>2, LogsScores, LogsBest, LogsImproved
  <2> QED
    BY <1>1, <2>1, <2>2, StepLogs
<1>6. FallbackAlone'
  BY <1>1, FallbackStep
<1>7. BestReturned'
  BY <1>1, ReturnedStep
<1> QED
  BY <1>1, <1>2, <1>3, <1>4, <1>5, <1>6, <1>7

LEMMA Invariance == Spec => []IInv
  BY InitIInv, StepIInv, PTL DEF Spec

\* The locals keep their types.
THEOREM TypeCorrect == Spec => []TypeOK
  BY Invariance, PTL DEF IInv

\* With MAX_SOLVE_TIME_MS set, the outer timeout of the route never fires and
\* throws no solution away, whatever the durations of the phases.
THEOREM Preserved == Spec => []PreservedWhenEnvSet
  BY Invariance, PTL DEF IInv

\* No request runs more than one computation past the hard cutoff.
THEOREM Overrun == Spec => []OverrunBounded
  BY Invariance, PTL DEF IInv

\* best_score and best_strategy describe the candidates of the logged phases.
THEOREM BestSoFarHolds == Spec => []BestSoFar
  BY Invariance, PTL DEF IInv

\* What is returned first is the best candidate of any phase, if none was
\* filtered, and the outcome names its strategy.
THEOREM BestReturnedHolds == Spec => []BestReturned
  BY Invariance, PTL DEF IInv

\* A fallback solution comes alone, after phases that found nothing.
THEOREM FallbackAloneHolds == Spec => []FallbackAlone
  BY Invariance, PTL DEF IInv

\* After a phase that ran, an improving decision belongs to a new best.
THEOREM ImprovedHolds == Spec => []ImprovedAfterPredecessor
  BY Invariance, PTL DEF IInv

-----------------------------------------------------------------------------
\* The pipeline implements AnytimeSolver.  Nothing is served before the end.
Unserved == pc # "done" => served = {}

LEMMA UnservedInvariance == Spec => []Unserved
<1>1. Init => Unserved
  BY DEF Init, Unserved
<1>2. Unserved /\ [Next]_vars => Unserved'
  <2> SUFFICES ASSUME Unserved, [Next]_vars, pc' # "done" PROVE served' = {}
    BY DEF Unserved
  <2>1. CASE UNCHANGED vars \/ Done
    BY <2>1 DEF vars, Done, Unserved
  <2>2. CASE ~(UNCHANGED vars \/ Done)
    <3>1. pc # "done" /\ UNCHANGED served
      BY <2>2
      DEF Next, Compute, Timers, Phase1, Phase2, Gate, SplitSearch, GraphSearch,
          GraphSplitSearch, Search, Phase3, GraphBuilt, Phase4, LoopOver,
          StartAggregators, SkipAggregators, AggregatorsAnswer, OuterTimeout,
          AggregatorsTimeOut, Phase5, Tick, Fallback, Finalize
    <3> QED
      BY <3>1 DEF Unserved
  <2> QED
    BY <2>1, <2>2
<1> QED
  BY <1>1, <1>2, PTL DEF Spec

\* Steps that do not answer: a phase improves, or nothing is to be seen.
LEMMA SearchingSteps ==
    ASSUME IInv, TypeOK', LoggedInv, [Next]_vars,
           pc # "done", pc' # "done", UNCHANGED served
    PROVE  [Anytime!Next]_(Anytime!vars)
<1> USE DEF IInv
<1>1. (pc # "done") = (pc' # "done")
      /\ {c.score : c \in served} = {c.score : c \in served}'
  OBVIOUS
<1>2. CASE UNCHANGED <<best, strategy>>
  BY <1>1, <1>2 DEF Anytime!vars
<1>3. CASE \E p \in 1..5 : Logs(p)
  <2>1. PICK p \in 1..5, b \in Scores :
            /\ best' = IF b > best THEN b ELSE best
            /\ strategy' = IF b > best THEN NameOf[p] ELSE strategy
    BY <1>3 DEF Logs, Record
  <2>2. CASE b > best
    <3>1. NameOf[p] \in Strategies \ {"none"}
      BY NameOfValues DEF NameOf, Strategies
    <3>2. best' = b /\ strategy' = NameOf[p]
      BY <2>1, <2>2
    <3>3. Anytime!Improve
      BY <1>1, <2>2, <3>1, <3>2 DEF Anytime!Improve, Anytime!Scores, Scores
    <3> QED
      BY <3>3 DEF Anytime!Next
  <2>3. CASE ~(b > best)
    BY <1>2, <2>1, <2>3
  <2> QED
    BY <2>2, <2>3
<1> QED
  BY <1>2, <1>3, StepLogs DEF Quiet

\* Answering: by the outer timeout with nothing, or with the first of the
\* ranked candidates, which the running best bounds unless it is the fallback.
LEMMA AnswerSteps ==
    ASSUME IInv, Unserved, Finalize \/ OuterTimeout
    PROVE  Anytime!Answer
<1> USE DEF IInv
<1>1. pc # "done" /\ pc' = "done" /\ UNCHANGED <<best, strategy>>
  BY DEF Finalize, OuterTimeout
<1>2. served' = {} \/ \E c \in cands : served' = {c}
  BY DEF Finalize, OuterTimeout, Unserved, First
<1>3. CASE served' = {}
  BY <1>1, <1>3 DEF Anytime!Answer
<1>4. ASSUME NEW c \in cands, served' = {c} PROVE Anytime!Answer
  <2>1. c.score \in Scores
    BY DEF TypeOK, Candidate
  <2>2. CASE c.phase \in Ran
    <3>1. c.score <= best
      BY <2>2 DEF BestSoFar, IsBest
    <3> QED
      BY <1>1, <1>4, <2>1, <3>1 DEF Anytime!Answer, Anytime!Scores, Scores
  <2>3. CASE c.phase \notin Ran
    <3>1. c.phase = 6
      BY <2>3, <1>1, <1>4 DEF LoggedInv, Finalize, OuterTimeout, Unserved
    <3>2. best = 0
      BY <3>1 DEF FallbackAlone
    <3> QED
      BY <1>1, <1>4, <2>1, <3>2 DEF Anytime!Answer, Anytime!Scores, Scores
  <2> QED
    BY <2>2, <2>3
<1> QED
  BY <1>2, <1>3, <1>4

\* solver/mod.rs implements the anytime solver, for any deadlines, budgets and
\* durations: every step is one of its steps or changes nothing it can see.
THEOREM Refinement == Spec => ImplementsAnytime
<1>1. Init => Anytime!Init
  BY DEF Init, Anytime!Init
<1>2. IInv /\ IInv' /\ Unserved /\ [Next]_vars => [Anytime!Next]_(Anytime!vars)
  <2> SUFFICES ASSUME IInv, IInv', Unserved, [Next]_vars
               PROVE  [Anytime!Next]_(Anytime!vars)
    OBVIOUS
  <2>1. CASE UNCHANGED vars \/ Done
    BY <2>1 DEF vars, Done, Anytime!vars
  <2>2. CASE Finalize \/ OuterTimeout
    BY <2>2, AnswerSteps DEF Anytime!Next
  <2>3. CASE ~(UNCHANGED vars \/ Done \/ Finalize \/ OuterTimeout)
    <3>1. pc # "done" /\ pc' # "done" /\ UNCHANGED served
      BY <2>3
      DEF Next, Compute, Timers, Phase1, Phase2, Gate, SplitSearch, GraphSearch,
          GraphSplitSearch, Search, Phase3, GraphBuilt, Phase4, Continue, LoopOver,
          StartAggregators, SkipAggregators, AggregatorsAnswer,
          AggregatorsTimeOut, Phase5, Tick, Fallback
    <3> QED
      BY <3>1, SearchingSteps DEF IInv
  <2> QED
    BY <2>1, <2>2, <2>3
<1> QED
  BY <1>1, <1>2, Invariance, UnservedInvariance, PTL
  DEF Spec, ImplementsAnytime, Anytime!Spec
=============================================================================
