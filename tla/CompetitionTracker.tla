------------------------- MODULE CompetitionTracker -------------------------
(***************************************************************************)
(* How the solver learns who won: every solved request queues a lookup of  *)
(* its auction, a background task drains the queue, asks the CoW API, and  *)
(* writes the answer to the replay database and to the dashboard's         *)
(* results (competition.rs, replay.rs, and the two tasks the solve handler *)
(* spawns in routes/solve.rs).                                             *)
(*                                                                         *)
(* The driver sends some auctions twice, so a request is an auction and a  *)
(* copy number.  A crash loses everything but the database; main.rs then   *)
(* loads the results from it, if it can be read, before it starts the poll *)
(* task.                                                                   *)
(* Ages are counted up to the value at which they stop to matter.          *)
(***************************************************************************)
EXTENDS Integers, Sequences, SequencesExt, FiniteSetsExt

CONSTANTS
    Auctions,
    Copies,        \* bound: how often the driver sends one auction
    MaxRequests,   \* bound: requests in all
    Delay,         \* COMPETITION_POLL_DELAY_SECS
    QueueCap,      \* the queue's cap           (10_000)
    ResultsCap,    \* the results' cap          (10_000)
    Trim,          \* results let go at the cap (1000)
    HistoryLimit,  \* rows loaded at startup    (2000)
    MaxCrashes     \* bound: crashes

ASSUME TrackerAssumption ==
    /\ {Copies, MaxRequests, Delay, QueueCap, ResultsCap, Trim, HistoryLimit,
        MaxCrashes} \subseteq Nat
    /\ Delay > 0
    /\ 0 < Trim /\ Trim <= ResultsCap + 1

Requests == Auctions \X (1..Copies)

VARIABLES
    recording,  \* requests whose record_auction task has not run yet
    enqueuing,  \* requests whose queue_lookup task has not run yet
    queue,      \* PENDING_QUEUE of [req, age, retries]: the age up to Delay, at most one retry
    batch,      \* `ready`: what the poll task took from the queue
    loopAge,    \* time since the poll task read `now`
    poll,       \* where the poll task is, with the API's answer
    db,         \* rows [auction, winner] of auction_log, oldest received_at first
    results,    \* RESULTS of [req, winner]; copy 0 came from the database
    settled,    \* auctions whose competition the API can tell (external)
    crashes,
    fate,       \* history: why a request has neither lookup nor result
    forgotten   \* history: auctions the results let go or were never given

vars == <<recording, enqueuing, queue, batch, loopAge, poll, db, results,
          settled, crashes, fate, forgotten>>

Null == "null"
Winners == {"none", "solver"}

Lesser(a, b) == IF a < b THEN a ELSE b
Older(l) == [l EXCEPT !.age = Lesser(@ + 1, Delay)]
Aged(s) == [i \in DOMAIN s |-> Older(s[i])]

Init ==
    /\ recording = {} /\ enqueuing = {}
    /\ queue = <<>> /\ batch = <<>>
    /\ loopAge = 0
    /\ poll = "idle"
    /\ db = <<>> /\ results = <<>>
    /\ settled = {}
    /\ crashes = 0
    /\ fate = [r \in Requests |-> "unsent"]
    /\ forgotten = {}

-----------------------------------------------------------------------------
\* The solve handler spawns both tasks and returns.
Solve(r) ==
    /\ fate[r] = "unsent"
    /\ Cardinality({q \in Requests : fate[q] # "unsent"}) < MaxRequests
    /\ r[2] > 1 => fate[<<r[1], r[2] - 1>>] # "unsent"
    /\ fate' = [fate EXCEPT ![r] = "tracked"]
    /\ recording' = recording \cup {r}
    /\ enqueuing' = enqueuing \cup {r}
    /\ UNCHANGED <<queue, batch, loopAge, poll, db, results, settled, crashes,
                   forgotten>>

\* INSERT OR REPLACE: the columns it does not name, the winner among them,
\* become NULL, and received_at makes the row the newest.  The auction is
\* the key of its row.
Recorded(a) ==
    LET rows == {i \in DOMAIN db : db[i].auction = a}
    IN  Append(IF rows = {} THEN db ELSE RemoveAt(db, CHOOSE i \in rows : TRUE),
               [auction |-> a, winner |-> Null])

\* Errors of the database are logged and dropped.
Record(r) ==
    /\ r \in recording
    /\ recording' = recording \ {r}
    /\ db' \in {db, Recorded(r[1])}
    /\ UNCHANGED <<enqueuing, queue, batch, loopAge, poll, results, settled,
                   crashes, fate, forgotten>>

Fresh(r) == [req |-> r, age |-> 0, retries |-> 0]

\* Mutant: at the cap, room is made and the new lookup forgotten.
EnqueueReturns(r) ==
    /\ r \in enqueuing
    /\ enqueuing' = enqueuing \ {r}
    /\ queue' = IF Len(queue) > QueueCap THEN Tail(queue) ELSE Append(queue, Fresh(r))
    /\ fate' = IF Len(queue) > QueueCap
               THEN [fate EXCEPT ![Head(queue).req] = "evicted"] ELSE fate
    /\ UNCHANGED <<recording, batch, loopAge, poll, db, results, settled,
                   crashes, forgotten>>

\* queue_lookup: at the cap, the oldest lookup makes room.
Enqueue(r) ==
    /\ r \in enqueuing
    /\ enqueuing' = enqueuing \ {r}
    /\ queue' = Append(IF Len(queue) > QueueCap THEN Tail(queue) ELSE queue,
                       Fresh(r))
    /\ fate' = IF Len(queue) > QueueCap
               THEN [fate EXCEPT ![Head(queue).req] = "evicted"] ELSE fate
    /\ UNCHANGED <<recording, batch, loopAge, poll, db, results, settled,
                   crashes, forgotten>>

-----------------------------------------------------------------------------
\* The first n lookups of the queue are old enough, the next is not.
Due(n) ==
    /\ \A i \in 1..n : queue[i].age >= Delay
    /\ n < Len(queue) => queue[n + 1].age < Delay

\* One round of the poll loop takes them, until the first that is too young.
Drain ==
    /\ poll = "idle" /\ batch = <<>>
    /\ \E n \in 1..Len(queue) :
         /\ Due(n)
         /\ batch' = SubSeq(queue, 1, n)
         /\ queue' = SubSeq(queue, n + 1, Len(queue))
    /\ loopAge' = 0
    /\ UNCHANGED <<recording, enqueuing, poll, db, results, settled, crashes,
                   fate, forgotten>>

\* fetch_competition asks for the next lookup of the batch.
Ask ==
    /\ poll = "idle" /\ batch # <<>>
    /\ poll' = "asked"
    /\ UNCHANGED <<recording, enqueuing, queue, batch, loopAge, db, results,
                   settled, crashes, fate, forgotten>>

This == Head(batch).req
Answered(a) == a \in settled

\* UPDATE auction_log: no row, no effect; its errors are dropped.
Updated(a, w) ==
    [i \in DOMAIN db |-> IF db[i].auction = a THEN [db[i] EXCEPT !.winner = w]
                                              ELSE db[i]]
Write(w) ==
    /\ db' \in {db, Updated(This[1], w)}
    /\ poll' = w
    /\ UNCHANGED <<recording, enqueuing, queue, batch, loopAge, results,
                   settled, crashes, fate, forgotten>>

\* Ok(Some): the winner goes to the replay database first.
AnswerSome ==
    /\ poll = "asked" /\ Answered(This[1])
    /\ Write("solver")

\* Mutant: an error of the API counts as "did not settle".
AnswerNoneOnError ==
    /\ poll = "asked" /\ Head(batch).retries = 1
    /\ Write("none")

\* Ok(None) at the second attempt: no settlement.
AnswerNone ==
    /\ poll = "asked" /\ ~Answered(This[1]) /\ Head(batch).retries = 1
    /\ Write("none")

\* Mutant: the retry is not marked as one.
RequeueForever ==
    /\ poll = "asked" /\ ~Answered(This[1]) /\ Head(batch).retries = 0
    /\ queue' = Append(queue, [Fresh(This) EXCEPT !.age = loopAge])
    /\ batch' = Tail(batch)
    /\ poll' = "idle"
    /\ UNCHANGED <<recording, enqueuing, loopAge, db, results, settled,
                   crashes, fate, forgotten>>

\* Ok(None) at the first attempt: back to the queue, as if queued when this
\* round began (`retry.queued_at = now`), whatever the queue's length.
Requeue ==
    /\ poll = "asked" /\ ~Answered(This[1]) /\ Head(batch).retries = 0
    /\ queue' = Append(queue, [Fresh(This) EXCEPT !.age = loopAge,
                                                  !.retries = 1])
    /\ batch' = Tail(batch)
    /\ poll' = "idle"
    /\ UNCHANGED <<recording, enqueuing, loopAge, db, results, settled,
                   crashes, fate, forgotten>>

\* Err: an error or a timeout of the client; the lookup is dropped.
AnswerError ==
    /\ poll = "asked"
    /\ batch' = Tail(batch)
    /\ poll' = "idle"
    /\ fate' = [fate EXCEPT ![This] = "failed"]
    /\ UNCHANGED <<recording, enqueuing, queue, loopAge, db, results, settled,
                   crashes, forgotten>>

\* How many of the oldest results the next one pushes out: the cap is only
\* looked at for a winner.
Excess == IF poll = "solver" /\ Len(results) > ResultsCap THEN Trim ELSE 0

\* The dashboard's results come second.
Push ==
    /\ poll \in Winners
    /\ LET kept == SubSeq(results, Excess + 1, Len(results))
           out  == Range(SubSeq(results, 1, Excess))
       IN /\ results' = Append(kept, [req |-> This, winner |-> poll])
          /\ fate' = [r \in Requests |->
                        IF \E e \in out : e.req = r THEN "trimmed" ELSE fate[r]]
          /\ forgotten' = forgotten \cup {e.req[1] : e \in out}
    /\ batch' = Tail(batch)
    /\ poll' = "idle"
    /\ UNCHANGED <<recording, enqueuing, queue, loopAge, db, settled, crashes>>

-----------------------------------------------------------------------------
\* load_competition_history: the newest rows that have a winner, in order.
Won == {i \in DOMAIN db : db[i].winner # Null}
Place(i) == Cardinality({j \in Won : j <= i})
Settlements ==
    [k \in 1..Cardinality(Won) |-> db[CHOOSE i \in Won : Place(i) = k]]
Skipped == IF Len(Settlements) > HistoryLimit
           THEN Len(Settlements) - HistoryLimit ELSE 0
Loaded(s) == [i \in DOMAIN s |-> [req |-> <<s[i].auction, 0>>,
                                  winner |-> s[i].winner]]

\* Mutant: the history keeps the oldest rows instead of the newest.
HistoryOldest == Loaded(SubSeq(Settlements, 1, Len(Settlements) - Skipped))

History == Loaded(SubSeq(Settlements, Skipped + 1, Len(Settlements)))

\* The process dies and starts again: bootstrap_from_replay ends before the
\* poll task and the server start.  If the database cannot be read, the error
\* is logged and the results stay empty.
Restart ==
    /\ crashes < MaxCrashes
    /\ crashes' = crashes + 1
    /\ recording' = {} /\ enqueuing' = {}
    /\ queue' = <<>> /\ batch' = <<>>
    /\ loopAge' = 0
    /\ poll' = "idle"
    /\ \/ /\ results' = History
          /\ forgotten' = {Settlements[i].auction : i \in 1..Skipped}
       \/ /\ results' = <<>>
          /\ forgotten' = {db[i].auction : i \in Won}
    /\ fate' = [r \in Requests |->
                  IF fate[r] = "tracked" THEN "crashed" ELSE fate[r]]
    /\ UNCHANGED <<db, settled>>

\* External: the API can tell the competition of auction a from now on.
Settle(a) ==
    /\ a \notin settled
    /\ settled' = settled \cup {a}
    /\ UNCHANGED <<recording, enqueuing, queue, batch, loopAge, poll, db,
                   results, crashes, fate, forgotten>>

Tick ==
    /\ queue' = Aged(queue) /\ batch' = Aged(batch)
    /\ loopAge' = IF batch = <<>> THEN loopAge ELSE Lesser(loopAge + 1, Delay)
    /\ UNCHANGED <<recording, enqueuing, poll, db, results, settled, crashes,
                   fate, forgotten>>

Poller == Drain \/ Ask \/ AnswerSome \/ AnswerNone \/ Requeue \/ AnswerError
              \/ Push
Handlers == \E r \in Requests : Solve(r) \/ Record(r) \/ Enqueue(r)

Next == Handlers \/ Poller \/ Restart \/ Tick \/ \E a \in Auctions : Settle(a)

\* Time passes, the spawned tasks get to run, and the poll task neither dies
\* nor blocks: its client gives up after ten seconds.
Fairness ==
    /\ WF_vars(Tick)
    /\ WF_vars(Poller)
    /\ \A r \in Requests : WF_vars(Enqueue(r))

Spec == Init /\ [][Next]_vars /\ Fairness
-----------------------------------------------------------------------------
Times(r, s) == Cardinality({i \in DOMAIN s : s[i].req = r})

\* A solved request is followed by exactly one lookup, which is still to be
\* queued, waiting, being looked up or answered, until it is evicted, dropped
\* after an error, lost in a crash or trimmed: retries and duplicates of the
\* auction never make it two, or none.
OneLookup ==
    \A r \in Requests :
        Times(r, queue) + Times(r, batch) + Times(r, results)
            + (IF r \in enqueuing THEN 1 ELSE 0)
        = (IF fate[r] = "tracked" THEN 1 ELSE 0)

\* The dashboard knows every winner the replay database holds: the answer is
\* among the results or about to be pushed, even after a crash between the
\* two writes, unless the results had to let entries of the auction go, or the
\* start that should have loaded it did not: because its row was older than
\* the newest HistoryLimit ones, or because no row could be read.
ReplayInResults ==
    \A row \in Range(db) :
        \/ row.winner = Null
        \/ row.auction \in forgotten
        \/ \E e \in Range(results) :
               e.req[1] = row.auction /\ e.winner = row.winner
        \/ poll = row.winner /\ This[1] = row.auction

\* Once the replay database holds a settlement, only recording a duplicate of
\* the auction can take it away: a late lookup of another copy never turns it
\* into "no settlement".
SettlementKept ==
    [][\A row \in Range(db) :
          \/ row.winner # "solver"
          \/ row \in Range(db')
          \/ \E r \in recording \ recording' : r[1] = row.auction]_vars

\* No lookup waits for ever behind the queue, its retries or the API: it ends
\* in a result, or in one of the ways lookups are dropped.
LookupsEnd ==
    \A r \in Requests :
        r \in enqueuing ~> Times(r, results) = 1 \/ fate[r] # "tracked"
=============================================================================
