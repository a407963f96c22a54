----------------------------- MODULE Monitoring -----------------------------
(***************************************************************************)
(* The counters of the service and the task that watches them              *)
(* (monitoring/mod.rs), the alerts it sends (alerts.rs), and the replay    *)
(* database from which a restart takes the counters again (replay.rs).     *)
(*                                                                         *)
(* The handlers of concurrent requests change one atomic counter after     *)
(* another.  Time goes in minutes, the period of the task; within a minute *)
(* the task, the alerts it spawns and the handlers get their turn, while a *)
(* row of the database may take longer to be written.                      *)
(***************************************************************************)
EXTENDS Integers, FiniteSets

CONSTANTS
    Handlers,       \* handlers that may run at once
    Quiet,          \* minutes without an auction that are reported (5)
    Hush,           \* minutes for which an alert is not repeated   (5)
    Hour,           \* minutes of a throughput window               (60)
    MinAuctions,    \* auctions before the win rate is judged       (100)
    Rate,           \* one win in Rate auctions is enough           (100)
    MaxTime,        \* bound: minutes
    MaxServed,      \* bound: requests
    MaxCrashes      \* bound

ASSUME MonitoringAssumption ==
    /\ {Quiet, Hush, Hour} \subseteq Nat \ {0}
    /\ {MinAuctions, Rate, MaxTime, MaxServed, MaxCrashes} \subseteq Nat
    /\ IsFiniteSet(Handlers)

Results == {"submitted", "held", "empty"}

Keys == {"no_auctions", "low_win_rate"}

VARIABLES
    now,            \* the minute
    phase,          \* "down", "boot" before bootstrap_from_replay, "up"
    received,       \* auctions_received
    tally,          \* solutions_submitted, solutions_held, solutions_empty
    lastAuction,    \* last_auction_sec, 0 before the first auction
    window,         \* auctions_this_hour
    lastHour,       \* last_hour_auctions
    handler,        \* how far record_solve is
    result,         \* what each handler records
    rows,           \* rows of the replay database by result
    latest,         \* its latest received_at
    unwritten,      \* rows that are still to be inserted, by result
    failed,         \* history: rows whose insertion failed since the start
    replaced,       \* history: rows a later request of the auction replaced since the start
    task,           \* where the background task is
    wake,           \* when it wakes up
    lastHourly,     \* when it last closed a window
    taken,          \* the count it has swapped out of the window
    spawned,        \* alert tasks that have not run yet
    muted,          \* DEDUP: until when a key is suppressed
    fired,          \* history: when an alert last got through, -Hush for never
    closed,         \* history: the sum of the windows closed since the start
    restored,       \* history: the count that the start took from the database
    unread,         \* history: the rows that the start could not read
    served,         \* history: all requests
    lost,           \* history: the requests that restarts forgot
    crashes

counters == <<received, tally, lastAuction, window>>
database == <<rows, latest, unwritten, failed, replaced>>
watch    == <<task, wake, lastHourly, taken, lastHour, closed>>
alerts   == <<spawned, muted, fired>>
history  == <<restored, unread, served, lost, crashes>>

vars == <<now, phase, counters, handler, result, database, watch, alerts, history>>

Zero == [r \in Results |-> 0]

Total(t) == t["submitted"] + t["held"] + t["empty"]

-----------------------------------------------------------------------------
(* A request, once it is decided: its row is given to a task, and          *)
(* record_solve counts it.                                                 *)

Received(h, r) ==
    /\ phase = "up" /\ handler[h] = "idle" /\ served < MaxServed
    /\ received' = received + 1 /\ served' = served + 1
    /\ unwritten' = [unwritten EXCEPT ![r] = @ + 1]
    /\ handler' = [handler EXCEPT ![h] = "received"] /\ result' = [result EXCEPT ![h] = r]
    /\ UNCHANGED <<now, phase, tally, lastAuction, window, rows, latest, failed, replaced, watch, alerts,
                   restored, unread, lost, crashes>>

Stamped(h) ==
    /\ handler[h] = "received"
    /\ lastAuction' = now
    /\ handler' = [handler EXCEPT ![h] = "stamped"]
    /\ UNCHANGED <<now, phase, received, tally, window, result, database, watch, alerts, history>>

Windowed(h) ==
    /\ handler[h] = "stamped"
    /\ window' = window + 1
    /\ handler' = [handler EXCEPT ![h] = "windowed"]
    /\ UNCHANGED <<now, phase, received, tally, lastAuction, result, database, watch, alerts, history>>

Classified(h) ==
    /\ handler[h] = "windowed"
    /\ tally' = [tally EXCEPT ![result[h]] = @ + 1]
    /\ handler' = [handler EXCEPT ![h] = "idle"] /\ result' = [result EXCEPT ![h] = "empty"]
    /\ UNCHANGED <<now, phase, received, lastAuction, window, database, watch, alerts, history>>

\* The task of a row stamps and inserts it, in place of the row that an
\* earlier request for the auction left, or logs that it cannot.
Insert(r) ==
    /\ unwritten[r] > 0
    /\ unwritten' = [unwritten EXCEPT ![r] = @ - 1]
    /\ \/ rows' = [rows EXCEPT ![r] = @ + 1] /\ latest' = now /\ UNCHANGED <<failed, replaced>>
       \/ \E q \in Results :
            /\ rows[q] > 0
            /\ rows' = [[rows EXCEPT ![q] = @ - 1] EXCEPT ![r] = @ + 1] /\ latest' = now
            /\ replaced' = replaced + 1 /\ UNCHANGED failed
       \/ failed' = failed + 1 /\ UNCHANGED <<rows, latest, replaced>>
    /\ UNCHANGED <<now, phase, counters, handler, result, watch, alerts, history>>

-----------------------------------------------------------------------------
(* The background task and the alerts.                                     *)

\* check_alerts.  Its loads are one read here: a request that comes between
\* them only raises the rate it sees.
Alarms ==
    {k \in Keys :
        \/ k = "no_auctions" /\ lastAuction > 0 /\ now - lastAuction >= Quiet
        \/ k = "low_win_rate" /\ received >= MinAuctions /\ tally["submitted"] * Rate < received}

Check ==
    /\ phase # "down" /\ task = "asleep" /\ now >= wake
    /\ spawned' = [k \in Keys |-> spawned[k] + IF k \in Alarms THEN 1 ELSE 0]
    /\ IF now - lastHourly >= Hour
       THEN task' = "closing" /\ lastHourly' = now /\ UNCHANGED wake
       ELSE task' = "asleep" /\ wake' = now + 1 /\ UNCHANGED lastHourly
    /\ UNCHANGED <<now, phase, counters, handler, result, database, taken, lastHour, closed, muted, fired, history>>

\* Mutant: the count is read and the window is only cleared when it is stored.
SwapLate == taken' = window /\ UNCHANGED window

\* rotate_hour_window: the count is swapped for 0, then stored.
Swap == taken' = window /\ window' = 0

TakeWindow ==
    /\ task = "closing"
    /\ Swap
    /\ task' = "storing"
    /\ UNCHANGED <<now, phase, received, tally, lastAuction, handler, result, database, wake, lastHourly, lastHour, closed,
                   alerts, history>>

StoreWindow ==
    /\ task = "storing"
    /\ lastHour' = taken /\ closed' = closed + taken /\ taken' = 0
    /\ task' = "asleep" /\ wake' = now + 1
    /\ UNCHANGED <<now, phase, counters, handler, result, database, lastHourly, alerts, history>>

\* Mutants: suppressed a minute too long, and a minute too short.
SuppressedLong(k) == now <= muted[k]

MuteShort == now + Hush - 1

Suppressed(k) == now < muted[k]

Mute == now + Hush

\* send_alert: the key is looked up and marked under one lock, before it is
\* known whether the message can be sent.
Alert(k) ==
    /\ spawned[k] > 0
    /\ spawned' = [spawned EXCEPT ![k] = @ - 1]
    /\ IF Suppressed(k) THEN UNCHANGED <<muted, fired>>
       ELSE muted' = [muted EXCEPT ![k] = Mute] /\ fired' = [fired EXCEPT ![k] = now]
    /\ UNCHANGED <<now, phase, counters, handler, result, database, watch, history>>

-----------------------------------------------------------------------------
(* The minutes, a crash and a restart.                                     *)

\* All that was due is done.
Settled ==
    \/ phase = "down"
    \/ /\ phase = "up" /\ task = "asleep" /\ wake > now
       /\ \A k \in Keys : spawned[k] = 0
       /\ \A h \in Handlers : handler[h] = "idle"

Minute ==
    /\ Settled /\ now < MaxTime
    /\ now' = now + 1
    /\ UNCHANGED <<phase, counters, handler, result, database, watch, alerts, history>>

Crash ==
    /\ phase # "down" /\ crashes < MaxCrashes
    /\ phase' = "down" /\ crashes' = crashes + 1
    /\ lost' = lost + Total(unwritten) + failed + replaced /\ unwritten' = Zero /\ failed' = 0 /\ replaced' = 0
    /\ received' = 0 /\ tally' = Zero /\ lastAuction' = 0 /\ window' = 0 /\ lastHour' = 0
    /\ closed' = 0 /\ restored' = 0 /\ unread' = 0 /\ taken' = 0 /\ task' = "asleep"
    /\ handler' = [h \in Handlers |-> "idle"] /\ result' = [h \in Handlers |-> "empty"]
    /\ spawned' = [k \in Keys |-> 0] /\ muted' = [k \in Keys |-> 0] /\ fired' = [k \in Keys |-> -Hush]
    /\ UNCHANGED <<now, rows, latest, wake, lastHourly, served>>

\* main spawns the background task first.
Start ==
    /\ phase = "down"
    /\ phase' = "boot"
    /\ lastHourly' = now /\ wake' = now + 1
    /\ UNCHANGED <<now, counters, handler, result, database, task, taken, lastHour, closed, alerts, history>>

\* Mutant: held auctions are forgotten.
LoadedServed == rows["submitted"] + rows["empty"]

Loaded == Total(rows)

\* bootstrap_from_replay, before the server listens: a database that cannot be
\* read leaves the counters as they are, and its rows where they are.
Bootstrap ==
    /\ phase = "boot"
    /\ phase' = "up"
    /\ \/ /\ IF Loaded > 0
             THEN received' = Loaded /\ tally' = rows /\ lastAuction' = latest /\ restored' = Loaded
             ELSE UNCHANGED <<received, tally, lastAuction, restored>>
          /\ UNCHANGED unread
       \/ unread' = Total(rows) /\ UNCHANGED <<received, tally, lastAuction, restored>>
    /\ UNCHANGED <<now, window, handler, result, database, watch, alerts, served, lost, crashes>>

Init ==
    /\ now = 1 /\ phase = "down" /\ crashes = 0
    /\ received = 0 /\ tally = Zero /\ lastAuction = 0 /\ window = 0 /\ lastHour = 0
    /\ handler = [h \in Handlers |-> "idle"] /\ result = [h \in Handlers |-> "empty"]
    /\ rows = Zero /\ latest = 0 /\ unwritten = Zero /\ failed = 0 /\ replaced = 0
    /\ task = "asleep" /\ wake = 1 /\ lastHourly = 1 /\ taken = 0
    /\ spawned = [k \in Keys |-> 0] /\ muted = [k \in Keys |-> 0] /\ fired = [k \in Keys |-> -Hush]
    /\ closed = 0 /\ restored = 0 /\ unread = 0 /\ served = 0 /\ lost = 0

Next ==
    \/ \E h \in Handlers : (\E r \in Results : Received(h, r)) \/ Stamped(h) \/ Windowed(h) \/ Classified(h)
    \/ \E r \in Results : Insert(r)
    \/ Check \/ TakeWindow \/ StoreWindow
    \/ \E k \in Keys : Alert(k)
    \/ Minute \/ Crash \/ Start \/ Bootstrap

Spec == Init /\ [][Next]_vars

-----------------------------------------------------------------------------
\* The requests that record_solve has received but not classified, and those
\* it has not counted in the window.
Busy == {h \in Handlers : handler[h] # "idle"}

Uncounted == {h \in Handlers : handler[h] \in {"received", "stamped"}}

\* No request falls between two throughput windows: those closed since the
\* start, the one being closed, the open one and the requests on their way to
\* it are all that was received (rotate_hour_window against record_solve).
WindowsAddUp == received = restored + closed + taken + window + Cardinality(Uncounted)

\* A restart forgets the requests whose row was not written, could not be, or
\* gave way to a later request for its auction, and, when the database cannot
\* be read, those of its rows until a restart that reads them; it forgets no
\* others, and the outcomes add up to the requests, whatever is being counted
\* (bootstrap_from_replay, load_bootstrap_metrics, record_auction, record_solve).
RestartKeepsCounts ==
    phase = "up" => received = served - lost - unread /\ Total(tally) + Cardinality(Busy) = received

\* An alert that got through is not repeated for Hush minutes, however many
\* tasks are spawned for it (send_alert).
AlertsSpaced ==
    [][\A k \in Keys : fired'[k] # fired[k] => fired'[k] - fired[k] >= Hush \/ phase' = "down"]_vars

\* While the driver is silent no Hush minutes pass without an alert, whatever
\* was alerted before, from the first check after a start on (check_alerts and
\* send_alert under run_background_task).  Nothing is claimed in the minute in
\* which the task closes a window.
SilenceReported ==
    Settled /\ phase = "up" /\ wake = now + 1 /\ now > lastHourly /\ lastAuction > 0 /\ now - lastAuction >= Quiet
        => now - fired["no_auctions"] < Hush
==============================================================================
