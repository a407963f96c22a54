-------------------------- MODULE SolveRouteProofs --------------------------
(***************************************************************************)
(* Theorems about SolveRoute, for any requests, blocks, strategies and     *)
(* solver outcomes.  The inductive invariant adds to the properties what   *)
(* the program counter of a request says of its other variables (Shape),   *)
(* that the block tracker is never behind an auction that arrived          *)
(* (Tracked), and what each attribution counter counts (Counters).         *)
(***************************************************************************)
EXTENDS SolveRoute, FiniteSetTheorems, TLAPS

\* A request that is not done has left no trace; the solver's outcome is there
\* once it has been solved, and only a solution is simulated.
Shape(r) ==
    /\ outcome[r] \in Outcomes \cup {NoOutcome}
    /\ pc[r] \in {"new", "solving"} => outcome[r] = NoOutcome
    /\ pc[r] \in {"simulate", "call"} => outcome[r].found
    /\ pc[r] # "done" =>
          /\ response[r] = "none" /\ row[r] = "none" /\ ~accounted[r]
          /\ decision[r] = NoDecision

\* set_block was called with the block of every auction that arrived.
Tracked(r) == auctionBlock[r] <= currentBlock

\* ServedAndRecorded and StalenessUnseen for one request.
Served(r) ==
    /\ response[r] = "solutions" => outcome[r].score > 0 /\ ~SimReverted(r)
    /\ response[r] = "solutions" <=> row[r] = "submitted"
    /\ response[r] = "solutions" <=> accounted[r]
Fresh(r) ==
    /\ pc[r] = "done" /\ outcome[r].found => decision[r].confidence >= 790
    /\ decision[r].reason # "risk"

RInv(r) == Shape(r) /\ Tracked(r) /\ Served(r) /\ Fresh(r)

\* The requests each counter of strategy s has counted.
GeneratedFor(s) == {r \in Requests : s \in outcome[r].ran}
ApprovedFor(s) == {r \in Requests : pc[r] = "done" /\ outcome[r].found
                                    /\ outcome[r].winner = s}
ServedFor(s) == {r \in Requests : response[r] = "solutions"
                                  /\ outcome[r].winner = s}

Counters(s) ==
    /\ tally[s]["generated"] = Cardinality(GeneratedFor(s))
    /\ tally[s]["policyApproved"] = Cardinality(ApprovedFor(s))
    /\ tally[s]["submitted"] = Cardinality(ServedFor(s))

IInv ==
    /\ TypeOK
    /\ \A r \in Requests : RInv(r)
    /\ \A s \in Known : Counters(s)

-----------------------------------------------------------------------------
LEMMA Constants ==
    /\ MaxScore \in Nat /\ MaxSolve \in Nat /\ Pressure \in Nat
    /\ Patience \in Nat /\ BlockFresh \in Nat /\ BlockStale \in Nat
    /\ 0 < BlockFresh /\ BlockFresh < BlockStale
    /\ Blocks \subseteq Nat \ {0}
    /\ SolveTimes \subseteq Nat /\ SimTimes \subseteq Nat
    /\ "none" \notin Strategies
BY RouteAssumption

LEMMA OutcomeType == Outcomes \cup {NoOutcome} \subseteq Outcome
<1>1. NoOutcome \in Outcome
  BY Constants DEF NoOutcome, Outcome
<1>2. Outcomes \subseteq Outcome
  BY OutcomeAssumption
<1> QED
  BY <1>1, <1>2

\* What counting does: one more for each known strategy of the set.
LEMMA CountedIs ==
    ASSUME NEW t \in [Known -> [Stages -> Nat]], NEW ss, NEW stage \in Stages
    PROVE  /\ Counted(t, ss, stage) \in [Known -> [Stages -> Nat]]
           /\ \A s \in Known, st \in Stages :
                 Counted(t, ss, stage)[s][st] =
                    IF s \in ss /\ st = stage THEN t[s][st] + 1 ELSE t[s][st]
<1>1. \A s \in Known : t[s] \in [Stages -> Nat]
  OBVIOUS
<1>2. \A s \in Known : [t[s] EXCEPT ![stage] = @ + 1] \in [Stages -> Nat]
  BY <1>1
<1>3. Counted(t, ss, stage) \in [Known -> [Stages -> Nat]]
  BY <1>1, <1>2 DEF Counted
<1>4. ASSUME NEW s \in Known, NEW st \in Stages
      PROVE  Counted(t, ss, stage)[s][st] =
                IF s \in ss /\ st = stage THEN t[s][st] + 1 ELSE t[s][st]
  BY <1>1 DEF Counted
<1> QED
  BY <1>3, <1>4

\* The candidate's pools are at most one block old by the tracker's measure,
\* so the confidence cannot fall below 790 of 1000.
LEMMA ConfidenceIs ==
    ASSUME TypeOK, NEW r \in Requests, Tracked(r)
    PROVE  Confidence(r) \in 790..910
<1> DEFINE b == Monus(JudgedAt(r), CacheBlock)
<1>1. currentBlock \in Nat /\ auctionBlock[r] \in Nat
  <2>1. currentBlock \in Blocks \cup {0} /\ auctionBlock[r] \in Blocks \cup {0}
    BY DEF TypeOK
  <2>2. Blocks \cup {0} \subseteq Nat
    BY Constants
  <2> QED
    BY <2>1, <2>2
<1>2. b \in Nat /\ b <= 1
  <2>1. JudgedAt(r) \in Nat /\ JudgedAt(r) <= currentBlock
    BY <1>1 DEF JudgedAt, Tracked
  <2>2. CacheBlock \in Nat /\ currentBlock <= CacheBlock + 1
    BY <1>1 DEF CacheBlock, Monus
  <2> QED
    BY <1>1, <2>1, <2>2 DEF Monus
<1>3. BlockScore(b) = 400
  <2> HIDE DEF b
  <2> QED
    BY <1>2, Constants DEF BlockScore
<1>4. SimScore(JudgedAt(r), sim[r].block) \in 30..150
  BY DEF SimScore
<1> HIDE DEF b
<1>5. Confidence(r) = BlockScore(b) + 160 + 200 + SimScore(JudgedAt(r), sim[r].block)
  BY DEF Confidence, b
<1> QED
  BY <1>3, <1>4, <1>5

LEMMA InitIInv == Init => IInv
<1> SUFFICES ASSUME Init PROVE IInv
  OBVIOUS
<1>1. NoOutcome \in Outcome
  BY OutcomeType
<1>2. Skipped \in SimResult
  BY DEF Skipped, SimResult
<1>3. NoDecision \in Decision
  BY DEF NoDecision, Decision
<1>4. TypeOK
  BY <1>1, <1>2, <1>3 DEF Init, TypeOK
<1>5. ASSUME NEW r \in Requests PROVE RInv(r)
  <2>1. Shape(r)
    BY DEF Init, Shape
  <2>2. Tracked(r)
    BY DEF Init, Tracked
  <2>3. Served(r)
    BY DEF Init, Served
  <2>4. Fresh(r)
    BY DEF Init, Fresh, NoDecision
  <2> QED
    BY <2>1, <2>2, <2>3, <2>4 DEF RInv
<1>6. ASSUME NEW s \in Known PROVE Counters(s)
  <2>1. GeneratedFor(s) = {} /\ ApprovedFor(s) = {} /\ ServedFor(s) = {}
    BY DEF Init, GeneratedFor, ApprovedFor, ServedFor, NoOutcome
  <2>2. /\ tally[s]["generated"] = 0 /\ tally[s]["policyApproved"] = 0
        /\ tally[s]["submitted"] = 0
    BY DEF Init, Stages
  <2> QED
    BY <2>1, <2>2, FS_EmptySet DEF Counters
<1> QED
  BY <1>4, <1>5, <1>6 DEF IInv

-----------------------------------------------------------------------------
\* The tracker only advances, and stays among the blocks.
LEMMA SetBlockType ==
    ASSUME TypeOK, NEW b \in Blocks \cup {0}, SetBlock(b)
    PROVE  /\ currentBlock' \in Blocks \cup {0}
           /\ currentBlock \in Nat /\ currentBlock' \in Nat
           /\ currentBlock' >= currentBlock /\ currentBlock' >= b
<1>1. currentBlock \in Blocks \cup {0}
  BY DEF TypeOK
<1>2. currentBlock \in Nat /\ b \in Nat
  BY <1>1, Constants
<1> QED
  BY <1>1, <1>2 DEF SetBlock, Larger

\* The end of a simulation, for the actions that end one.
LEMMA SimulatedType ==
    ASSUME TypeOK, NEW r \in Requests, NEW s \in SimResult, Simulated(r, s)
    PROVE  /\ sim' \in [Requests -> SimResult]
           /\ pc' = [pc EXCEPT ![r] = "decide"]
           /\ tally' \in [Known -> [Stages -> Nat]]
<1>1. sim' \in [Requests -> SimResult]
  BY DEF Simulated, TypeOK
<1>2. "simPassed" \in Stages /\ "simFailed" \in Stages
  BY DEF Stages
<1>3. tally \in [Known -> [Stages -> Nat]]
  BY DEF TypeOK
<1>4. /\ Counted(tally, outcome[r].produced, "simPassed") \in [Known -> [Stages -> Nat]]
      /\ Counted(tally, {outcome[r].winner}, "simFailed") \in [Known -> [Stages -> Nat]]
  BY <1>2, <1>3, CountedIs
<1>5. tally' \in [Known -> [Stages -> Nat]]
  BY <1>3, <1>4 DEF Simulated
<1> QED
  BY <1>1, <1>5 DEF Simulated

LEMMA SimResults ==
    ASSUME TypeOK, NEW r \in Requests
    PROVE  /\ Skipped \in SimResult /\ Reverted(0) \in SimResult
           /\ Passed(0) \in SimResult
           /\ Passed(sim[r].block) \in SimResult
           /\ Reverted(sim[r].block) \in SimResult
<1>1. sim[r].block \in Blocks \cup {0}
  BY DEF TypeOK, SimResult
<1> QED
  BY <1>1 DEF Skipped, Reverted, Passed, SimResult

LEMMA TypeStep ==
    ASSUME TypeOK, \A r \in Requests : Tracked(r), [Next]_vars
    PROVE  TypeOK'
<1> USE DEF TypeOK
<1>1. ASSUME NEW r \in Requests, Arrive(r) PROVE TypeOK'
  <2>1. PICK a \in Auction :
           /\ auctionBlock' = [auctionBlock EXCEPT ![r] = a.block]
           /\ SetBlock(a.block)
           /\ pools' = (pools \/ (a.liquidity /\ a.block > 0))
           /\ \/ /\ pc' = [pc EXCEPT ![r] = "done"]
                 /\ response' = [response EXCEPT ![r] = "empty"]
              \/ /\ pc' = [pc EXCEPT ![r] = "solving"]
                 /\ UNCHANGED response
    BY <1>1 DEF Arrive
  <2>2. a.block \in Blocks \cup {0}
    BY DEF Auction
  <2>3. currentBlock' \in Blocks \cup {0}
    BY <2>1, <2>2, SetBlockType
  <2>4. pools' \in BOOLEAN
    BY <2>1
  <2>5. /\ auctionBlock' \in [Requests -> Blocks \cup {0}]
        /\ pc' \in [Requests -> {"new", "solving", "simulate", "call", "decide",
                                 "done"}]
        /\ response' \in [Requests -> {"none", "empty", "solutions"}]
    BY <2>1, <2>2
  <2> QED
    BY <1>1, <2>3, <2>4, <2>5 DEF Arrive
<1>2. ASSUME NEW r \in Requests, Solved(r) PROVE TypeOK'
  <2>1. PICK o \in Outcomes, d \in SolveTimes :
          /\ outcome' = [outcome EXCEPT ![r] = o]
          /\ elapsed' = [elapsed EXCEPT ![r] = d]
          /\ tally' = Counted(tally, Generated(o), "generated")
          /\ pc' = [pc EXCEPT ![r] = IF o.found THEN "simulate" ELSE "decide"]
    BY <1>2 DEF Solved
  <2>2. o \in Outcome /\ d \in Nat
    BY OutcomeType, Constants
  <2>3. tally' \in [Known -> [Stages -> Nat]]
    BY <2>1, CountedIs DEF Stages
  <2> QED
    BY <1>2, <2>1, <2>2, <2>3 DEF Solved
<1>3. ASSUME NEW r \in Requests, SimulateLocally(r) PROVE TypeOK'
  <2>1. PICK s \in SimResult : Simulated(r, s)
    BY <1>3, SimResults DEF SimulateLocally
  <2> QED
    BY <1>3, <2>1, SimulatedType DEF SimulateLocally, Simulated
<1>4. ASSUME NEW r \in Requests, SimulateCall(r) PROVE TypeOK'
  <2>1. sim' \in [Requests -> SimResult]
    BY <1>4 DEF SimulateCall, SimResult
  <2> QED
    BY <1>4, <2>1 DEF SimulateCall
<1>5. ASSUME NEW r \in Requests, CallAnswered(r) \/ CallFails(r) PROVE TypeOK'
  <2>1. PICK s \in SimResult : Simulated(r, s)
    BY <1>5, SimResults DEF CallAnswered, CallFails
  <2>2. PICK d \in SimTimes : elapsed' = [elapsed EXCEPT ![r] = @ + d]
    BY <1>5 DEF CallAnswered, CallFails
  <2>3. elapsed' \in [Requests -> Nat]
    BY <2>2, Constants
  <2>4. rpcFailed' \in [Requests -> BOOLEAN]
    BY <1>5 DEF CallAnswered, CallFails
  <2> QED
    BY <2>1, <2>3, <2>4, SimulatedType DEF Simulated
<1>6. ASSUME NEW r \in Requests, Decide(r) PROVE TypeOK'
  <2> DEFINE reason == IF outcome[r].found THEN Reason(r) ELSE "none"
             approved == IF outcome[r].found
                         THEN Counted(tally, {outcome[r].winner}, "policyApproved")
                         ELSE tally
             submit == outcome[r].found /\ Timing(reason) = "submit"
  <2>1. /\ decision' = [decision EXCEPT ![r] =
                 [confidence |-> Confidence(r), reason |-> reason,
                  timing |-> IF outcome[r].found THEN Timing(reason) ELSE "hold"]]
        /\ tally' = IF submit THEN Counted(approved, {outcome[r].winner}, "submitted")
                              ELSE approved
        /\ row' = [row EXCEPT ![r] = Result(outcome[r], Timing(reason))]
        /\ accounted' = [accounted EXCEPT ![r] = submit]
        /\ response' = [response EXCEPT ![r] =
                              IF submit THEN "solutions" ELSE "empty"]
        /\ pc' = [pc EXCEPT ![r] = "done"]
    BY <1>6 DEF Decide
  <2>2. Confidence(r) \in 0..1000
    BY ConfidenceIs
  <2>3. reason \in {"none", "reverted", "score", "pressure", "risk", "standard"}
    BY DEF Reason
  <2>4. Timing(reason) \in {"submit", "hold"}
    BY DEF Timing
  <2>5. submit \in BOOLEAN
    OBVIOUS
  <2>6. Result(outcome[r], Timing(reason)) \in {"empty", "held", "submitted"}
    BY DEF Result
  <2>7. approved \in [Known -> [Stages -> Nat]]
    BY CountedIs DEF Stages
  <2> HIDE DEF reason, approved, submit
  <2>8. tally' \in [Known -> [Stages -> Nat]]
    BY <2>1, <2>7, CountedIs DEF Stages
  <2>9. decision' \in [Requests -> Decision]
    BY <2>1, <2>2, <2>3, <2>4 DEF Decision
  <2>10. /\ row' \in [Requests -> {"none", "empty", "held", "submitted"}]
         /\ accounted' \in [Requests -> BOOLEAN]
         /\ response' \in [Requests -> {"none", "empty", "solutions"}]
         /\ pc' \in [Requests -> {"new", "solving", "simulate", "call", "decide",
                                  "done"}]
    BY <2>1, <2>5, <2>6
  <2> QED
    BY <1>6, <2>8, <2>9, <2>10 DEF Decide
<1>7. CASE Index
  <2>1. PICK b \in Blocks \cup {0} : SetBlock(b)
    BY <1>7 DEF Index
  <2>2. currentBlock' \in Blocks \cup {0}
    BY <2>1, SetBlockType
  <2> QED
    BY <1>7, <2>2 DEF Index
<1>8. CASE UNCHANGED vars
  BY <1>8 DEF vars
<1> QED
  BY <1>1, <1>2, <1>3, <1>4, <1>5, <1>6, <1>7, <1>8 DEF Next, Handler

-----------------------------------------------------------------------------
\* A step leaves request r alone.
Untouched(r) ==
    /\ pc'[r] = pc[r] /\ auctionBlock'[r] = auctionBlock[r]
    /\ outcome'[r] = outcome[r] /\ sim'[r] = sim[r]
    /\ decision'[r] = decision[r] /\ response'[r] = response[r]
    /\ row'[r] = row[r] /\ accounted'[r] = accounted[r]

\* The tracker never goes back.
LEMMA TrackerStep ==
    ASSUME TypeOK, [Next]_vars
    PROVE  currentBlock \in Nat /\ currentBlock' \in Nat
           /\ currentBlock' >= currentBlock
<1>1. currentBlock \in Blocks \cup {0}
  BY DEF TypeOK
<1>2. Blocks \cup {0} \subseteq Nat
  BY Constants
<1>3. CASE \E b \in Blocks \cup {0} : SetBlock(b)
  BY <1>3, SetBlockType
<1>4. CASE UNCHANGED currentBlock
  BY <1>1, <1>2, <1>4
<1>5. ASSUME NEW r \in Requests, Arrive(r)
      PROVE  \E b \in Blocks \cup {0} : SetBlock(b)
  BY <1>5 DEF Arrive, Auction
<1>6. Index => \E b \in Blocks \cup {0} : SetBlock(b)
  BY DEF Index
<1>7. ASSUME NEW r \in Requests, Handler(r), ~Arrive(r)
      PROVE  UNCHANGED currentBlock
  BY <1>7 DEF Handler, Solved, SimulateLocally, SimulateCall, CallAnswered,
              CallFails, Simulated, Decide
<1>8. UNCHANGED vars => UNCHANGED currentBlock
  BY DEF vars
<1> QED
  BY <1>3, <1>4, <1>5, <1>6, <1>7, <1>8 DEF Next

LEMMA KeepR ==
    ASSUME NEW r \in Requests, RInv(r), Untouched(r), TypeOK,
           currentBlock \in Nat, currentBlock' \in Nat,
           currentBlock' >= currentBlock
    PROVE  RInv(r)'
<1>1. auctionBlock[r] \in Nat
  <2>1. auctionBlock[r] \in Blocks \cup {0}
    BY DEF TypeOK
  <2>2. Blocks \cup {0} \subseteq Nat
    BY Constants
  <2> QED
    BY <2>1, <2>2
<1>2. Shape(r)'
  BY DEF RInv, Shape, Untouched
<1>3. Tracked(r)'
  BY <1>1 DEF RInv, Tracked, Untouched
<1>4. Served(r)'
  BY DEF RInv, Served, SimReverted, Untouched
<1>5. Fresh(r)'
  BY DEF RInv, Fresh, Untouched
<1> QED
  BY <1>2, <1>3, <1>4, <1>5 DEF RInv

\* A handler touches its own request only; the other steps touch none.
LEMMA OthersUntouched ==
    ASSUME TypeOK, NEW r \in Requests, Handler(r),
           NEW q \in Requests, q # r
    PROVE  Untouched(q)
<1> USE DEF TypeOK, Untouched
<1>1. CASE Arrive(r)
  BY <1>1 DEF Arrive
<1>2. CASE Solved(r)
  BY <1>2 DEF Solved
<1>3. CASE SimulateLocally(r)
  BY <1>3 DEF SimulateLocally, Simulated
<1>4. CASE SimulateCall(r)
  BY <1>4 DEF SimulateCall
<1>5. CASE CallAnswered(r) \/ CallFails(r)
  BY <1>5 DEF CallAnswered, CallFails, Simulated
<1>6. CASE Decide(r)
  BY <1>6 DEF Decide
<1> QED
  BY <1>1, <1>2, <1>3, <1>4, <1>5, <1>6 DEF Handler

\* What deciding does to its request.
LEMMA DecideIs ==
    ASSUME TypeOK, NEW r \in Requests, Tracked(r), Decide(r)
    PROVE  /\ outcome[r].found => decision'[r].confidence >= 790
           /\ decision'[r].reason # "risk"
           /\ response'[r] = "solutions" <=> row'[r] = "submitted"
           /\ response'[r] = "solutions" <=> accounted'[r]
           /\ response'[r] = "solutions" =>
                 outcome[r].found /\ outcome[r].score # 0 /\ ~SimReverted(r)
           /\ pc'[r] = "done"
<1> DEFINE reason == IF outcome[r].found THEN Reason(r) ELSE "none"
           submit == outcome[r].found /\ Timing(reason) = "submit"
<1>1. /\ decision' = [decision EXCEPT ![r] =
               [confidence |-> Confidence(r), reason |-> reason,
                timing |-> IF outcome[r].found THEN Timing(reason) ELSE "hold"]]
      /\ row' = [row EXCEPT ![r] = Result(outcome[r], Timing(reason))]
      /\ accounted' = [accounted EXCEPT ![r] = submit]
      /\ response' = [response EXCEPT ![r] =
                            IF submit THEN "solutions" ELSE "empty"]
      /\ pc' = [pc EXCEPT ![r] = "done"]
  BY DEF Decide
<1>2. Confidence(r) \in 790..910
  BY ConfidenceIs
<1>3. Reason(r) # "risk"
  <2>1. HighRisk(r) => SimReverted(r)
    BY <1>2 DEF HighRisk
  <2> QED
    BY <2>1 DEF Reason
<1>4. Reason(r) \notin {"reverted", "score"} =>
         ~SimReverted(r) /\ outcome[r].score # 0
  BY DEF Reason
<1>5. reason # "risk"
  BY <1>3
<1>6. submit => outcome[r].found /\ ~SimReverted(r) /\ outcome[r].score # 0
  BY <1>4 DEF Timing
<1>7. submit <=> Result(outcome[r], Timing(reason)) = "submitted"
  BY DEF Result
<1>8. submit \in BOOLEAN
  OBVIOUS
<1> HIDE DEF reason, submit
<1>9. /\ decision'[r].confidence = Confidence(r) /\ decision'[r].reason = reason
      /\ row'[r] = Result(outcome[r], Timing(reason))
      /\ accounted'[r] = submit
      /\ response'[r] = IF submit THEN "solutions" ELSE "empty"
      /\ pc'[r] = "done"
  BY <1>1 DEF TypeOK
<1> QED
  BY <1>2, <1>5, <1>6, <1>7, <1>8, <1>9

LEMMA RStep ==
    ASSUME IInv, [Next]_vars, NEW r \in Requests
    PROVE  RInv(r)'
<1> USE DEF IInv
<1>1. RInv(r) /\ TypeOK
  OBVIOUS
<1>2. currentBlock \in Nat /\ currentBlock' \in Nat /\ currentBlock' >= currentBlock
  BY <1>1, TrackerStep
<1>3. CASE Untouched(r)
  BY <1>1, <1>2, <1>3, KeepR
<1>4. CASE Index \/ UNCHANGED vars
  <2>1. Untouched(r)
    BY <1>4 DEF Index, vars, Untouched
  <2> QED
    BY <2>1, <1>3
<1>5. ASSUME NEW q \in Requests, Handler(q), q # r PROVE RInv(r)'
  BY <1>1, <1>3, <1>5, OthersUntouched
<1>6. CASE Arrive(r)
  <2>1. PICK a \in Auction :
           /\ auctionBlock' = [auctionBlock EXCEPT ![r] = a.block]
           /\ SetBlock(a.block)
           /\ \/ /\ pc' = [pc EXCEPT ![r] = "done"]
                 /\ response' = [response EXCEPT ![r] = "empty"]
              \/ /\ pc' = [pc EXCEPT ![r] = "solving"]
                 /\ UNCHANGED response
    BY <1>6 DEF Arrive
  <2>2. a.block \in Blocks \cup {0}
    BY DEF Auction
  <2>3. auctionBlock'[r] = a.block /\ currentBlock' >= a.block
    BY <1>1, <2>1, <2>2, SetBlockType DEF TypeOK
  <2>4. pc[r] = "new" /\ UNCHANGED <<outcome, sim, decision, row, accounted>>
    BY <1>6 DEF Arrive
  <2>5. outcome[r] = NoOutcome /\ row[r] = "none" /\ ~accounted[r]
        /\ decision[r] = NoDecision /\ response[r] = "none"
    BY <1>1, <2>4 DEF RInv, Shape
  <2>6. \/ pc'[r] = "done" /\ response'[r] = "empty"
        \/ pc'[r] = "solving" /\ response'[r] = "none"
    BY <1>1, <2>1, <2>5 DEF TypeOK
  <2>7. Shape(r)'
    BY <2>4, <2>5, <2>6 DEF Shape
  <2>8. Tracked(r)'
    BY <2>3, <2>2, <1>2, Constants DEF Tracked
  <2>9. Served(r)' /\ Fresh(r)'
    BY <2>4, <2>5, <2>6 DEF Served, Fresh, NoOutcome, NoDecision
  <2> QED
    BY <2>7, <2>8, <2>9 DEF RInv
<1>7. ASSUME /\ pc[r] # "done" /\ pc'[r] \in {"call", "simulate", "decide"}
             /\ UNCHANGED <<auctionBlock, decision, response, row, accounted>>
             /\ outcome'[r] \in Outcomes
             /\ pc'[r] \in {"simulate", "call"} => outcome'[r].found
      PROVE  RInv(r)'
  <2>1. Shape(r)'
    BY <1>1, <1>7 DEF RInv, Shape
  <2>2. auctionBlock[r] \in Nat
    <3>1. auctionBlock[r] \in Blocks \cup {0}
      BY DEF TypeOK
    <3>2. Blocks \cup {0} \subseteq Nat
      BY Constants
    <3> QED
      BY <3>1, <3>2
  <2>3. Tracked(r)'
    BY <1>1, <1>2, <1>7, <2>2 DEF RInv, Tracked
  <2>4. Served(r)'
    BY <1>1, <1>7 DEF RInv, Shape, Served
  <2>5. Fresh(r)'
    BY <1>1, <1>7 DEF RInv, Shape, Fresh, NoDecision
  <2> QED
    BY <2>1, <2>3, <2>4, <2>5 DEF RInv
<1>8. CASE Solved(r)
  BY <1>1, <1>7, <1>8 DEF Solved, TypeOK
<1>9. CASE SimulateLocally(r)
  <2>1. outcome[r] \in Outcomes
    BY <1>1, <1>9 DEF SimulateLocally, RInv, Shape, NoOutcome
  <2> QED
    BY <1>1, <1>7, <1>9, <2>1 DEF SimulateLocally, Simulated, TypeOK
<1>10. CASE SimulateCall(r)
  <2>1. outcome[r] \in Outcomes /\ outcome[r].found
    BY <1>1, <1>10 DEF SimulateCall, RInv, Shape, NoOutcome
  <2> QED
    BY <1>1, <1>7, <1>10, <2>1 DEF SimulateCall, TypeOK
<1>11. CASE CallAnswered(r) \/ CallFails(r)
  <2>1. outcome[r] \in Outcomes
    BY <1>1, <1>11 DEF CallAnswered, CallFails, RInv, Shape, NoOutcome
  <2> QED
    BY <1>1, <1>7, <1>11, <2>1 DEF CallAnswered, CallFails, Simulated, TypeOK
<1>12. CASE Decide(r)
  <2>1. UNCHANGED <<auctionBlock, outcome, sim>>
    BY <1>12 DEF Decide
  <2>2. outcome[r].score \in Nat
    BY <1>1, Constants DEF TypeOK, Outcome
  <2>3. /\ outcome[r].found => decision'[r].confidence >= 790
        /\ decision'[r].reason # "risk"
        /\ response'[r] = "solutions" <=> row'[r] = "submitted"
        /\ response'[r] = "solutions" <=> accounted'[r]
        /\ response'[r] = "solutions" =>
              outcome[r].found /\ outcome[r].score # 0 /\ ~SimReverted(r)
        /\ pc'[r] = "done"
    BY <1>1, <1>12, DecideIs DEF RInv
  <2>4. Shape(r)'
    BY <1>1, <2>1, <2>3 DEF RInv, Shape
  <2>5. auctionBlock[r] \in Nat
    <3>1. auctionBlock[r] \in Blocks \cup {0}
      BY DEF TypeOK
    <3>2. Blocks \cup {0} \subseteq Nat
      BY Constants
    <3> QED
      BY <3>1, <3>2
  <2>6. Tracked(r)'
    BY <1>1, <1>2, <2>1, <2>5 DEF RInv, Tracked
  <2>7. Served(r)'
    BY <2>1, <2>2, <2>3 DEF Served, SimReverted
  <2>8. Fresh(r)'
    BY <2>1, <2>3 DEF Fresh
  <2> QED
    BY <2>4, <2>6, <2>7, <2>8 DEF RInv
<1> QED
  BY <1>4, <1>5, <1>6, <1>8, <1>9, <1>10, <1>11, <1>12 DEF Next, Handler

-----------------------------------------------------------------------------
\* One more request is counted.
LEMMA OneMore ==
    ASSUME NEW A \in SUBSET Requests, NEW r \in Requests, r \notin A
    PROVE  Cardinality(A \cup {r}) = Cardinality(A) + 1
<1>1. IsFiniteSet(A)
  BY FS_Subset, RouteAssumption
<1> QED
  BY <1>1, FS_AddElement

\* Steps other than solving and deciding leave these counters and what they
\* count alone.
LEMMA CountersKept ==
    ASSUME IInv, NEW r \in Requests, NEW s \in Known,
           Arrive(r) \/ SimulateLocally(r) \/ SimulateCall(r)
             \/ CallAnswered(r) \/ CallFails(r)
    PROVE  Counters(s)'
<1> USE DEF IInv
<1>1. TypeOK /\ Counters(s) /\ Shape(r)
  BY DEF RInv
<1>2. CASE Arrive(r)
  <2>1. /\ \A q \in Requests \ {r} : pc'[q] = pc[q] /\ response'[q] = response[q]
        /\ pc[r] = "new" /\ response'[r] \in {"none", "empty"}
        /\ UNCHANGED <<outcome, tally>>
    BY <1>1, <1>2 DEF Arrive, TypeOK, Shape
  <2>2. outcome[r] = NoOutcome /\ response[r] = "none"
    BY <1>1, <2>1 DEF Shape
  <2>3. ~outcome[r].found
    BY <2>2 DEF NoOutcome
  <2>4. GeneratedFor(s)' = GeneratedFor(s)
    BY <2>1 DEF GeneratedFor
  <2>5. ApprovedFor(s)' = ApprovedFor(s)
    BY <2>1, <2>3 DEF ApprovedFor
  <2>6. ServedFor(s)' = ServedFor(s)
    BY <2>1, <2>2 DEF ServedFor
  <2> QED
    BY <1>1, <2>1, <2>4, <2>5, <2>6 DEF Counters
<1>3. CASE ~Arrive(r)
  <2>1. /\ \A q \in Requests : pc'[q] = "done" <=> pc[q] = "done"
        /\ UNCHANGED <<outcome, response>>
    BY <1>1, <1>3 DEF SimulateLocally, SimulateCall, CallAnswered, CallFails,
                      Simulated, TypeOK
  <2>2. \A st \in {"generated", "policyApproved", "submitted"} :
           tally'[s][st] = tally[s][st]
    <3>1. CASE SimulateCall(r)
      BY <3>1 DEF SimulateCall
    <3>2. ASSUME NEW v, Simulated(r, v)
          PROVE  \A st \in {"generated", "policyApproved", "submitted"} :
                    tally'[s][st] = tally[s][st]
      <4>1. tally \in [Known -> [Stages -> Nat]]
        BY <1>1 DEF TypeOK
      <4>2. tally' \in {tally, Counted(tally, outcome[r].produced, "simPassed"),
                        Counted(tally, {outcome[r].winner}, "simFailed")}
        BY <3>2 DEF Simulated
      <4> QED
        BY <4>1, <4>2, CountedIs DEF Stages
    <3> QED
      BY <1>3, <3>1, <3>2 DEF SimulateLocally, CallAnswered, CallFails
  <2>3. /\ GeneratedFor(s)' = GeneratedFor(s)
        /\ ApprovedFor(s)' = ApprovedFor(s)
        /\ ServedFor(s)' = ServedFor(s)
    BY <2>1 DEF GeneratedFor, ApprovedFor, ServedFor
  <2> QED
    BY <1>1, <2>2, <2>3 DEF Counters
<1> QED
  BY <1>2, <1>3

\* Solving counts the strategies that ran.
LEMMA CountersSolved ==
    ASSUME IInv, NEW r \in Requests, NEW s \in Known, Solved(r)
    PROVE  Counters(s)'
<1> USE DEF IInv
<1>1. TypeOK /\ Counters(s) /\ Shape(r)
  BY DEF RInv
<1>2. PICK o \in Outcomes :
        /\ outcome' = [outcome EXCEPT ![r] = o]
        /\ tally' = Counted(tally, Generated(o), "generated")
        /\ pc' = [pc EXCEPT ![r] = IF o.found THEN "simulate" ELSE "decide"]
  BY DEF Solved
<1>3. pc[r] = "solving" /\ UNCHANGED response
  BY DEF Solved
<1>4. outcome[r].ran = {} /\ response[r] = "none"
  BY <1>1, <1>3 DEF Shape, NoOutcome
<1>5. /\ outcome'[r] = o /\ \A q \in Requests \ {r} : outcome'[q] = outcome[q]
      /\ \A q \in Requests : pc'[q] = "done" <=> pc[q] = "done"
      /\ pc[r] # "done"
  BY <1>1, <1>2, <1>3 DEF TypeOK
<1>6. tally \in [Known -> [Stages -> Nat]]
  BY <1>1 DEF TypeOK
<1>7. /\ tally'[s]["generated"] =
            IF s \in o.ran THEN tally[s]["generated"] + 1 ELSE tally[s]["generated"]
      /\ tally'[s]["policyApproved"] = tally[s]["policyApproved"]
      /\ tally'[s]["submitted"] = tally[s]["submitted"]
  BY <1>2, <1>6, CountedIs DEF Stages, Generated
<1>8. ApprovedFor(s)' = ApprovedFor(s) /\ ServedFor(s)' = ServedFor(s)
  BY <1>3, <1>4, <1>5 DEF ApprovedFor, ServedFor
<1>9. Cardinality(GeneratedFor(s)') =
         IF s \in o.ran THEN Cardinality(GeneratedFor(s)) + 1
                        ELSE Cardinality(GeneratedFor(s))
  <2>1. r \notin GeneratedFor(s) /\ GeneratedFor(s) \in SUBSET Requests
    BY <1>4 DEF GeneratedFor
  <2>2. GeneratedFor(s)' = IF s \in o.ran THEN GeneratedFor(s) \cup {r}
                                          ELSE GeneratedFor(s)
    BY <1>4, <1>5 DEF GeneratedFor
  <2> QED
    BY <2>1, <2>2, OneMore
<1> QED
  BY <1>1, <1>7, <1>8, <1>9 DEF Counters

\* Deciding counts the winner as approved, and as submitted if it is served.
LEMMA CountersDecided ==
    ASSUME IInv, NEW r \in Requests, NEW s \in Known, Decide(r)
    PROVE  Counters(s)'
<1> USE DEF IInv
<1> DEFINE o == outcome[r]
           timing == Timing(IF o.found THEN Reason(r) ELSE "none")
           submit == o.found /\ timing = "submit"
           approved == IF o.found THEN Counted(tally, {o.winner}, "policyApproved")
                                  ELSE tally
<1>1. TypeOK /\ Counters(s) /\ Shape(r)
  BY DEF RInv
<1>2. /\ pc[r] = "decide" /\ UNCHANGED outcome
      /\ tally' = IF submit THEN Counted(approved, {o.winner}, "submitted")
                            ELSE approved
      /\ response' = [response EXCEPT ![r] = IF submit THEN "solutions"
                                                       ELSE "empty"]
      /\ pc' = [pc EXCEPT ![r] = "done"]
  BY DEF Decide
<1>3. submit \in BOOLEAN /\ (submit => o.found)
  OBVIOUS
<1>4. tally \in [Known -> [Stages -> Nat]]
  BY <1>1 DEF TypeOK
<1>5. /\ approved \in [Known -> [Stages -> Nat]]
      /\ approved[s]["generated"] = tally[s]["generated"]
      /\ approved[s]["policyApproved"] =
            IF o.found /\ s = o.winner THEN tally[s]["policyApproved"] + 1
                                       ELSE tally[s]["policyApproved"]
      /\ approved[s]["submitted"] = tally[s]["submitted"]
  BY <1>4, CountedIs DEF Stages
<1> HIDE DEF approved, timing, submit
<1>6. /\ tally'[s]["generated"] = approved[s]["generated"]
      /\ tally'[s]["policyApproved"] = approved[s]["policyApproved"]
      /\ tally'[s]["submitted"] =
            IF submit /\ s = o.winner THEN approved[s]["submitted"] + 1
                                      ELSE approved[s]["submitted"]
  BY <1>2, <1>5, CountedIs DEF Stages
<1>7. /\ response'[r] = (IF submit THEN "solutions" ELSE "empty")
      /\ response[r] = "none" /\ pc'[r] = "done"
      /\ \A q \in Requests \ {r} : pc'[q] = pc[q] /\ response'[q] = response[q]
  BY <1>1, <1>2 DEF TypeOK, Shape
<1>8. GeneratedFor(s)' = GeneratedFor(s)
  BY <1>2 DEF GeneratedFor
<1>9. Cardinality(ApprovedFor(s)') =
         IF o.found /\ s = o.winner THEN Cardinality(ApprovedFor(s)) + 1
                                    ELSE Cardinality(ApprovedFor(s))
  <2>1. r \notin ApprovedFor(s) /\ ApprovedFor(s) \in SUBSET Requests
    BY <1>2 DEF ApprovedFor
  <2>2. ApprovedFor(s)' = IF o.found /\ s = o.winner
                          THEN ApprovedFor(s) \cup {r} ELSE ApprovedFor(s)
    BY <1>2, <1>7 DEF ApprovedFor
  <2> QED
    BY <2>1, <2>2, OneMore
<1>10. Cardinality(ServedFor(s)') =
          IF submit /\ s = o.winner THEN Cardinality(ServedFor(s)) + 1
                                    ELSE Cardinality(ServedFor(s))
  <2>1. r \notin ServedFor(s) /\ ServedFor(s) \in SUBSET Requests
    BY <1>7 DEF ServedFor
  <2>2. ServedFor(s)' = IF submit /\ s = o.winner
                        THEN ServedFor(s) \cup {r} ELSE ServedFor(s)
    BY <1>2, <1>7 DEF ServedFor
  <2> QED
    BY <2>1, <2>2, OneMore
<1> QED
  BY <1>1, <1>5, <1>6, <1>8, <1>9, <1>10 DEF Counters

LEMMA StepIInv == ASSUME IInv, [Next]_vars PROVE IInv'
<1>1. TypeOK'
  BY TypeStep DEF IInv, RInv
<1>2. \A r \in Requests : RInv(r)'
  BY RStep
<1>3. ASSUME NEW s \in Known PROVE Counters(s)'
  <2>1. CASE Index \/ UNCHANGED vars
    <3>1. UNCHANGED <<tally, outcome, pc, response>>
      BY <2>1 DEF Index, vars
    <3> QED
      BY <3>1 DEF IInv, Counters, GeneratedFor, ApprovedFor, ServedFor
  <2> QED
    BY <2>1, CountersKept, CountersSolved, CountersDecided DEF Next, Handler
<1> QED
  BY <1>1, <1>2, <1>3 DEF IInv

\* The counted sets are nested, so the counters are.
LEMMA CountersFunnel == ASSUME IInv PROVE Funnel
<1> SUFFICES ASSUME NEW s \in Known
             PROVE  /\ tally[s]["policyApproved"] <= tally[s]["generated"]
                    /\ tally[s]["submitted"] <= tally[s]["policyApproved"]
                    /\ tally[s]["submitted"] = Cardinality(ServedFor(s))
  BY DEF Funnel, ServedFor
<1>1. Counters(s) /\ TypeOK /\ \A r \in Requests : RInv(r)
  BY DEF IInv
<1>2. s # "none"
  BY Constants DEF Strategies
<1>3. ApprovedFor(s) \subseteq GeneratedFor(s)
  <2>1. ASSUME NEW r \in Requests, outcome[r].found, outcome[r].winner = s
        PROVE  s \in outcome[r].ran
    <3>1. outcome[r] \in Outcomes
      BY <1>1, <2>1 DEF RInv, Shape, NoOutcome
    <3> QED
      BY <1>2, <2>1, <3>1, OutcomeAssumption
  <2> QED
    BY <2>1 DEF ApprovedFor, GeneratedFor
<1>4. ServedFor(s) \subseteq ApprovedFor(s)
  <2>1. ASSUME NEW r \in Requests, response[r] = "solutions"
        PROVE  pc[r] = "done" /\ outcome[r].found
    <3>1. pc[r] = "done" /\ outcome[r].score > 0
      BY <1>1, <2>1 DEF RInv, Shape, Served
    <3>2. outcome[r] \in Outcomes \cup {NoOutcome}
      BY <1>1 DEF RInv, Shape
    <3>3. outcome[r] # NoOutcome
      BY <3>1 DEF NoOutcome
    <3> QED
      BY <3>1, <3>2, <3>3, OutcomeAssumption
  <2> QED
    BY <2>1 DEF ServedFor, ApprovedFor
<1>5. GeneratedFor(s) \subseteq Requests
  BY DEF GeneratedFor
<1>6. IsFiniteSet(GeneratedFor(s)) /\ IsFiniteSet(ApprovedFor(s))
  BY <1>3, <1>5, FS_Subset, RouteAssumption
<1>7. /\ Cardinality(ApprovedFor(s)) <= Cardinality(GeneratedFor(s))
      /\ Cardinality(ServedFor(s)) <= Cardinality(ApprovedFor(s))
  BY <1>3, <1>4, <1>6, FS_Subset
<1> QED
  BY <1>1, <1>7 DEF Counters

LEMMA Invariance == Spec => []IInv
  BY InitIInv, StepIInv, PTL DEF Spec

\* The handler's variables keep their types for any requests and outcomes.
THEOREM TypeCorrect == Spec => []TypeOK
  BY Invariance, PTL DEF IInv

\* solve.rs: however many requests run at once, a solution leaves the handler
\* only with a positive score and unreverted, and row, accounting and response
\* agree on it.
THEOREM ServedAndRecordedHolds == Spec => []ServedAndRecorded
<1>1. IInv => ServedAndRecorded
  BY DEF IInv, RInv, Served, ServedAndRecorded
<1> QED
  BY <1>1, Invariance, PTL

\* Behind the run that refutes StaleLowersConfidence: with the input of
\* solve.rs:277-283 the confidence never drops below 0.79, for any thresholds
\* and any movement of the chain.
THEOREM StalenessUnseenHolds == Spec => []StalenessUnseen
<1>1. IInv => StalenessUnseen
  BY DEF IInv, RInv, Fresh, StalenessUnseen
<1> QED
  BY <1>1, Invariance, PTL

\* attribution.rs: the counters of every known strategy form a funnel, and the
\* last of them counts the answers served.
THEOREM FunnelHolds == Spec => []Funnel
  BY CountersFunnel, Invariance, PTL
=============================================================================
