-------------------------- MODULE MonitoringProofs --------------------------
(***************************************************************************)
(* Theorems about Monitoring, for any handlers, periods and bounds.        *)
(*                                                                         *)
(* Nothing is counted while the service is down or starts (Fresh); every   *)
(* request is in a row, on its way to one, or lost (RowsAddUp); an alert   *)
(* is suppressed from the minute it last got through (MutedSince); and a   *)
(* minute that was checked has its alert or a task that will send it.      *)
(***************************************************************************)
EXTENDS Monitoring, FiniteSetTheorems, TLAPS

TypeOK ==
    /\ now \in Nat /\ phase \in {"down", "boot", "up"}
    /\ {received, lastAuction, window, latest, failed, replaced, taken, closed} \subseteq Nat
    /\ {restored, unread, served, lost} \subseteq Nat
    /\ {wake, lastHourly} \subseteq Nat
    /\ {tally, rows, unwritten} \subseteq [Results -> Nat]
    /\ handler \in [Handlers -> {"idle", "received", "stamped", "windowed"}]
    /\ result \in [Handlers -> Results]
    /\ task \in {"asleep", "closing", "storing"}
    /\ spawned \in [Keys -> Nat]
    /\ muted \in [Keys -> Int] /\ fired \in [Keys -> Int]

\* The counters start from nothing.
Fresh ==
    phase # "up" =>
        /\ received = 0 /\ tally = Zero /\ window = 0 /\ taken = 0 /\ closed = 0 /\ restored = 0 /\ unread = 0
        /\ unwritten = Zero /\ failed = 0 /\ replaced = 0
        /\ \A h \in Handlers : handler[h] = "idle"

RowsAddUp == served = lost + Total(rows) + Total(unwritten) + failed + replaced

TakenOnce == task # "storing" => taken = 0

MutedSince == \A k \in Keys : muted[k] = fired[k] + Hush

CountInv == TypeOK /\ Fresh /\ TakenOnce /\ RowsAddUp /\ WindowsAddUp /\ RestartKeepsCounts

USE DEF counters, database, watch, alerts, history, vars

LEMMA Constants ==
    /\ Quiet \in Nat /\ Quiet >= 1 /\ Hush \in Nat /\ Hush >= 1 /\ Hour \in Nat /\ Hour >= 1
    /\ IsFiniteSet(Handlers)
BY MonitoringAssumption

LEMMA TotalType == ASSUME NEW t \in [Results -> Nat] PROVE Total(t) \in Nat
BY DEF Total, Results

LEMMA TotalZero == Zero \in [Results -> Nat] /\ Total(Zero) = 0
BY DEF Total, Zero, Results

\* One more or one less of a result changes the total by one.
LEMMA TotalStep ==
    ASSUME NEW t \in [Results -> Nat], NEW r \in Results
    PROVE  /\ [t EXCEPT ![r] = @ + 1] \in [Results -> Nat]
           /\ Total([t EXCEPT ![r] = @ + 1]) = Total(t) + 1
           /\ t[r] > 0 => /\ [t EXCEPT ![r] = @ - 1] \in [Results -> Nat]
                          /\ Total([t EXCEPT ![r] = @ - 1]) = Total(t) - 1
BY DEF Total, Results

\* A row in place of another leaves the total alone.
LEMMA TotalSwap ==
    ASSUME NEW t \in [Results -> Nat], NEW q \in Results, NEW r \in Results, t[q] > 0
    PROVE  /\ [[t EXCEPT ![q] = @ - 1] EXCEPT ![r] = @ + 1] \in [Results -> Nat]
           /\ Total([[t EXCEPT ![q] = @ - 1] EXCEPT ![r] = @ + 1]) = Total(t)
<1> DEFINE less == [t EXCEPT ![q] = @ - 1]
<1>1. less \in [Results -> Nat] /\ Total(less) = Total(t) - 1
  BY TotalStep
<1>2. [less EXCEPT ![r] = @ + 1] \in [Results -> Nat] /\ Total([less EXCEPT ![r] = @ + 1]) = Total(less) + 1
  <2> HIDE DEF less
  <2> QED
    BY <1>1, TotalStep
<1>3. Total(t) \in Nat
  BY TotalType
<1> QED
  BY <1>1, <1>2, <1>3

\* Handlers in given states, counted.
LEMMA CountStep ==
    ASSUME NEW S, S \subseteq Handlers, NEW T, NEW h \in Handlers
    PROVE  /\ Cardinality(S) \in Nat
           /\ T = S \cup {h} /\ h \notin S => Cardinality(T) = Cardinality(S) + 1
           /\ T = S \ {h} /\ h \in S => Cardinality(T) = Cardinality(S) - 1
<1>1. IsFiniteSet(S)
  BY Constants, FS_Subset
<1> QED
  BY <1>1, FS_CardinalityType, FS_AddElement, FS_RemoveElement

LEMMA CountType ==
    /\ Cardinality(Busy) \in Nat /\ Cardinality(Uncounted) \in Nat
    /\ Cardinality({}) = 0
<1>1. Busy \subseteq Handlers /\ Uncounted \subseteq Handlers
  BY DEF Busy, Uncounted
<1> QED
  BY <1>1, Constants, FS_Subset, FS_CardinalityType, FS_EmptySet

LEMMA InitCount == Init => CountInv
<1> SUFFICES ASSUME Init PROVE CountInv
  OBVIOUS
<1>1. Zero \in [Results -> Nat] /\ Total(Zero) = 0
  BY TotalZero
<1>2. TypeOK
  BY <1>1, Constants DEF Init, TypeOK, Results, Keys
<1>3. Fresh /\ TakenOnce /\ RestartKeepsCounts
  BY DEF Init, Fresh, TakenOnce, RestartKeepsCounts
<1>4. RowsAddUp
  BY <1>1 DEF Init, RowsAddUp
<1>5. Uncounted = {}
  BY DEF Init, Uncounted
<1>6. WindowsAddUp
  BY <1>5, CountType DEF Init, WindowsAddUp
<1> QED
  BY <1>2, <1>3, <1>4, <1>6 DEF CountInv

-----------------------------------------------------------------------------
\* The types, one step per action.
LEMMA TypeStep == ASSUME TypeOK, [Next]_vars PROVE TypeOK'
<1> USE Constants, TotalZero DEF TypeOK, Keys
<1>1. ASSUME NEW h \in Handlers, NEW r \in Results, Received(h, r) PROVE TypeOK'
  BY <1>1, TotalStep DEF Received
<1>2. ASSUME NEW h \in Handlers, Stamped(h) PROVE TypeOK'
  BY <1>2 DEF Stamped
<1>3. ASSUME NEW h \in Handlers, Windowed(h) PROVE TypeOK'
  BY <1>3 DEF Windowed
<1>4. ASSUME NEW h \in Handlers, Classified(h) PROVE TypeOK'
  <2>1. "empty" \in Results /\ result[h] \in Results
    BY DEF Results
  <2> QED
    BY <1>4, <2>1, TotalStep DEF Classified
<1>5. ASSUME NEW r \in Results, Insert(r) PROVE TypeOK'
  <2>1. \A q \in Results :
            rows[q] > 0 => [[rows EXCEPT ![q] = @ - 1] EXCEPT ![r] = @ + 1] \in [Results -> Nat]
    BY TotalSwap
  <2> QED
    BY <1>5, <2>1, TotalStep DEF Insert
<1>6. CASE Check
  BY <1>6 DEF Check
<1>7. CASE TakeWindow
  BY <1>7 DEF TakeWindow, Swap
<1>8. CASE StoreWindow
  BY <1>8 DEF StoreWindow
<1>9. ASSUME NEW k \in Keys, Alert(k) PROVE TypeOK'
  BY <1>9 DEF Alert, Mute
<1>10. CASE Minute
  BY <1>10 DEF Minute
<1>11. CASE Crash
  <2>1. Total(unwritten) \in Nat
    BY TotalType
  <2> QED
    BY <1>11, <2>1 DEF Crash, Results
<1>12. CASE Start
  BY <1>12 DEF Start
<1>13. CASE Bootstrap
  BY <1>13, TotalType DEF Bootstrap, Loaded
<1>14. CASE UNCHANGED vars
  BY <1>14
<1> QED
  BY <1>1, <1>2, <1>3, <1>4, <1>5, <1>6, <1>7, <1>8, <1>9, <1>10, <1>11, <1>12, <1>13, <1>14 DEF Next

\* Nothing is counted before the restart has loaded the rows.
LEMMA FreshStep == ASSUME TypeOK, Fresh, [Next]_vars PROVE Fresh'
<1> USE Constants DEF TypeOK, Fresh
<1>1. ASSUME NEW h \in Handlers, NEW r \in Results, Received(h, r) PROVE Fresh'
  BY <1>1 DEF Received
<1>2. ASSUME NEW h \in Handlers, Stamped(h) \/ Windowed(h) \/ Classified(h) PROVE Fresh'
  BY <1>2 DEF Stamped, Windowed, Classified
<1>3. ASSUME NEW r \in Results, Insert(r) PROVE Fresh'
  BY <1>3 DEF Insert, Zero
<1>4. CASE Check \/ TakeWindow \/ StoreWindow \/ \E k \in Keys : Alert(k)
  BY <1>4 DEF Check, TakeWindow, Swap, StoreWindow, Alert
<1>5. CASE Minute \/ Crash \/ Start \/ Bootstrap \/ UNCHANGED vars
  BY <1>5 DEF Minute, Crash, Start, Bootstrap
<1> QED
  BY <1>1, <1>2, <1>3, <1>4, <1>5 DEF Next

\* A count is only in the task's hands between the swap and the store.
LEMMA TakenStep == ASSUME TypeOK, TakenOnce, [Next]_vars PROVE TakenOnce'
BY DEF TypeOK, TakenOnce, Next, Received, Stamped, Windowed, Classified, Insert, Check, TakeWindow, StoreWindow,
       Alert, Minute, Crash, Start, Bootstrap

\* A request is in a row, on its way to one, or lost.
LEMMA RowsStep == ASSUME TypeOK, RowsAddUp, [Next]_vars PROVE RowsAddUp'
<1> USE Constants DEF TypeOK, RowsAddUp
<1>1. Total(rows) \in Nat /\ Total(unwritten) \in Nat
  BY TotalType
<1>2. ASSUME NEW h \in Handlers, NEW r \in Results, Received(h, r) PROVE RowsAddUp'
  <2>1. Total(unwritten') = Total(unwritten) + 1
    BY <1>2, TotalStep DEF Received
  <2> QED
    BY <1>1, <1>2, <2>1 DEF Received
<1>3. ASSUME NEW h \in Handlers, Stamped(h) \/ Windowed(h) \/ Classified(h) PROVE RowsAddUp'
  BY <1>3 DEF Stamped, Windowed, Classified
<1>4. ASSUME NEW r \in Results, Insert(r) PROVE RowsAddUp'
  <2>1. Total(unwritten') = Total(unwritten) - 1
    BY <1>4, TotalStep DEF Insert
  <2>2. CASE rows' = [rows EXCEPT ![r] = @ + 1] /\ UNCHANGED <<failed, replaced>>
    <3>1. Total(rows') = Total(rows) + 1
      BY <2>2, TotalStep
    <3> QED
      BY <1>1, <1>4, <2>1, <2>2, <3>1 DEF Insert
  <2>3. CASE failed' = failed + 1 /\ UNCHANGED <<rows, replaced>>
    BY <1>1, <1>4, <2>1, <2>3 DEF Insert
  <2>4. ASSUME NEW q \in Results, rows[q] > 0, rows' = [[rows EXCEPT ![q] = @ - 1] EXCEPT ![r] = @ + 1],
               replaced' = replaced + 1, UNCHANGED failed
        PROVE  RowsAddUp'
    <3>1. Total(rows') = Total(rows)
      BY <2>4, TotalSwap
    <3> QED
      BY <1>1, <1>4, <2>1, <2>4, <3>1 DEF Insert
  <2> QED
    BY <1>4, <2>2, <2>3, <2>4 DEF Insert
<1>5. CASE Check \/ TakeWindow \/ StoreWindow \/ \E k \in Keys : Alert(k)
  BY <1>5 DEF Check, TakeWindow, StoreWindow, Alert
<1>6. CASE Crash
  BY <1>1, <1>6, TotalZero DEF Crash
<1>7. CASE Minute \/ Start \/ Bootstrap \/ UNCHANGED vars
  BY <1>7 DEF Minute, Start, Bootstrap
<1> QED
  BY <1>2, <1>3, <1>4, <1>5, <1>6, <1>7 DEF Next

-----------------------------------------------------------------------------
\* The windows: a request leaves Uncounted in the step that counts it, and the
\* swap takes the whole window.
LEMMA WindowsStep == ASSUME TypeOK, Fresh, TakenOnce, WindowsAddUp, [Next]_vars PROVE WindowsAddUp'
<1> USE Constants, CountType DEF TypeOK, WindowsAddUp
<1>0. Uncounted \subseteq Handlers
  BY DEF Uncounted
<1>1. ASSUME NEW h \in Handlers, NEW r \in Results, Received(h, r) PROVE WindowsAddUp'
  <2>1. Uncounted' = Uncounted \cup {h} /\ h \notin Uncounted
    BY <1>1 DEF Received, Uncounted
  <2> QED
    BY <1>0, <1>1, <2>1, CountStep DEF Received
<1>2. ASSUME NEW h \in Handlers, Stamped(h) PROVE WindowsAddUp'
  <2>1. Uncounted' = Uncounted
    BY <1>2 DEF Stamped, Uncounted
  <2> QED
    BY <1>2, <2>1 DEF Stamped
<1>3. ASSUME NEW h \in Handlers, Windowed(h) PROVE WindowsAddUp'
  <2>1. Uncounted' = Uncounted \ {h} /\ h \in Uncounted
    BY <1>3 DEF Windowed, Uncounted
  <2> QED
    BY <1>0, <1>3, <2>1, CountStep DEF Windowed
<1>4. ASSUME NEW h \in Handlers, Classified(h) PROVE WindowsAddUp'
  <2>1. Uncounted' = Uncounted
    BY <1>4 DEF Classified, Uncounted
  <2> QED
    BY <1>4, <2>1 DEF Classified
<1>5. CASE TakeWindow
  <2>1. Uncounted' = Uncounted /\ taken = 0
    BY <1>5 DEF TakeWindow, Uncounted, TakenOnce
  <2> QED
    BY <1>5, <2>1 DEF TakeWindow, Swap
<1>6. CASE StoreWindow
  <2>1. Uncounted' = Uncounted
    BY <1>6 DEF StoreWindow, Uncounted
  <2> QED
    BY <1>6, <2>1 DEF StoreWindow
<1>7. CASE Crash
  <2>1. Uncounted' = {}
    BY <1>7 DEF Crash, Uncounted
  <2> QED
    BY <1>7, <2>1 DEF Crash
<1>8. CASE Bootstrap
  <2>1. Uncounted' = Uncounted
    BY <1>8 DEF Bootstrap, Uncounted
  <2> QED
    BY <1>8, <2>1, TotalType DEF Bootstrap, Fresh, Loaded
<1>9. CASE Check \/ Minute \/ Start \/ UNCHANGED vars \/ (\E k \in Keys : Alert(k)) \/ \E r \in Results : Insert(r)
  <2>1. Uncounted' = Uncounted
    BY <1>9 DEF Check, Minute, Start, Alert, Insert, Uncounted
  <2> QED
    BY <1>9, <2>1 DEF Check, Minute, Start, Alert, Insert
<1> QED
  BY <1>1, <1>2, <1>3, <1>4, <1>5, <1>6, <1>7, <1>8, <1>9 DEF Next

-----------------------------------------------------------------------------
\* Once the service is up, the outcomes and the handlers under way add up.
LEMMA CountsStep ==
    ASSUME TypeOK, Fresh, RowsAddUp, RestartKeepsCounts, [Next]_vars
    PROVE  RestartKeepsCounts'
<1> USE Constants, CountType DEF TypeOK
<1>0. Busy \subseteq Handlers /\ Total(tally) \in Nat
  BY TotalType DEF Busy
<1>1. ASSUME NEW h \in Handlers, NEW r \in Results, Received(h, r) PROVE RestartKeepsCounts'
  <2>1. Busy' = Busy \cup {h} /\ h \notin Busy
    BY <1>1 DEF Received, Busy
  <2>2. Cardinality(Busy') = Cardinality(Busy) + 1
    BY <1>0, <2>1, CountStep
  <2> QED
    BY <1>0, <1>1, <2>2 DEF Received, RestartKeepsCounts
<1>2. ASSUME NEW h \in Handlers, Stamped(h) \/ Windowed(h) PROVE RestartKeepsCounts'
  <2>1. Busy' = Busy
    BY <1>2 DEF Stamped, Windowed, Busy
  <2> QED
    BY <1>2, <2>1 DEF Stamped, Windowed, RestartKeepsCounts
<1>3. ASSUME NEW h \in Handlers, Classified(h) PROVE RestartKeepsCounts'
  <2>1. Busy' = Busy \ {h} /\ h \in Busy
    BY <1>3 DEF Classified, Busy
  <2>2. Cardinality(Busy') = Cardinality(Busy) - 1
    BY <1>0, <2>1, CountStep
  <2>3. Total(tally') = Total(tally) + 1
    BY <1>3, TotalStep DEF Classified
  <2> QED
    BY <1>0, <1>3, <2>2, <2>3 DEF Classified, RestartKeepsCounts
<1>4. CASE Bootstrap
  <2>1. Busy = {} /\ Busy' = {}
    BY <1>4 DEF Bootstrap, Busy, Fresh
  <2>2. served - lost = Total(rows)
    BY <1>4, TotalType, TotalZero DEF Bootstrap, Fresh, RowsAddUp
  <2>3. served' = served /\ lost' = lost /\ unread = 0 /\ received = 0 /\ tally = Zero /\ Total(rows) \in Nat
    BY <1>4, TotalType DEF Bootstrap, Fresh
  <2>4. CASE Total(rows) > 0 /\ received' = Total(rows) /\ tally' = rows /\ unread' = unread
    BY <2>1, <2>2, <2>3, <2>4 DEF RestartKeepsCounts
  <2>5. CASE Total(rows) = 0 /\ UNCHANGED <<received, tally, unread>>
    BY <2>1, <2>2, <2>3, <2>5, TotalZero DEF RestartKeepsCounts
  <2>6. CASE unread' = Total(rows) /\ UNCHANGED <<received, tally>>
    BY <2>1, <2>2, <2>3, <2>6, TotalZero DEF RestartKeepsCounts
  <2> QED
    BY <1>4, <2>3, <2>4, <2>5, <2>6 DEF Bootstrap, Loaded
<1>5. CASE Crash \/ Start
  BY <1>5 DEF Crash, Start, RestartKeepsCounts
<1>6. CASE Check \/ TakeWindow \/ StoreWindow \/ Minute \/ UNCHANGED vars \/ (\E k \in Keys : Alert(k))
             \/ \E r \in Results : Insert(r)
  <2>1. Busy' = Busy
    BY <1>6 DEF Check, TakeWindow, StoreWindow, Minute, Alert, Insert, Busy
  <2> QED
    BY <1>6, <2>1 DEF Check, TakeWindow, StoreWindow, Minute, Alert, Insert, RestartKeepsCounts
<1> QED
  BY <1>1, <1>2, <1>3, <1>4, <1>5, <1>6 DEF Next

\* Every variable keeps its type, whatever requests, crashes and failures of
\* the database come.
THEOREM TypeCorrect == Spec => []TypeOK
<1>1. Init => TypeOK
  BY InitCount DEF CountInv
<1>2. TypeOK /\ [Next]_vars => TypeOK'
  BY TypeStep
<1> QED
  BY <1>1, <1>2, PTL DEF Spec

LEMMA CountInvariant == Spec => []CountInv
<1>1. CountInv /\ [Next]_vars => CountInv'
  BY TypeStep, FreshStep, TakenStep, RowsStep, WindowsStep, CountsStep DEF CountInv
<1> QED
  BY InitCount, <1>1, PTL DEF Spec

\* No request falls between two throughput windows, however the handlers and
\* the task are interleaved (rotate_hour_window against record_solve).
THEOREM WindowsAddUpHolds == Spec => []WindowsAddUp
<1>1. CountInv => WindowsAddUp
  BY DEF CountInv
<1> QED
  BY CountInvariant, <1>1, PTL

\* A restart forgets exactly the requests whose row was not written, gave way
\* to a later one or could not be read, and the outcomes add up to the
\* requests (bootstrap_from_replay, record_auction, record_solve).
THEOREM RestartKeepsCountsHolds == Spec => []RestartKeepsCounts
<1>1. CountInv => RestartKeepsCounts
  BY DEF CountInv
<1> QED
  BY CountInvariant, <1>1, PTL

-----------------------------------------------------------------------------
LEMMA MutedStep == ASSUME TypeOK, MutedSince, [Next]_vars PROVE MutedSince'
<1> USE Constants DEF TypeOK, MutedSince
<1>1. ASSUME NEW k \in Keys, Alert(k) PROVE MutedSince'
  BY <1>1 DEF Alert, Mute
<1>2. CASE Crash
  BY <1>2 DEF Crash
<1>3. CASE UNCHANGED <<muted, fired>>
  BY <1>3
<1> QED
  BY <1>1, <1>2, <1>3 DEF Next, Received, Stamped, Windowed, Classified, Insert, Check, TakeWindow, StoreWindow,
                          Minute, Start, Bootstrap

LEMMA AlertsStep ==
    ASSUME TypeOK, MutedSince, [Next]_vars, NEW k \in Keys, fired'[k] # fired[k]
    PROVE  fired'[k] - fired[k] >= Hush \/ phase' = "down"
<1> USE Constants DEF TypeOK, MutedSince
<1>1. ASSUME NEW j \in Keys, Alert(j) PROVE fired'[k] - fired[k] >= Hush
  <2>1. j = k /\ ~Suppressed(k) /\ fired'[k] = now
    BY <1>1 DEF Alert
  <2> QED
    BY <2>1 DEF Suppressed
<1>2. CASE Crash
  BY <1>2 DEF Crash
<1>3. fired' # fired
  OBVIOUS
<1> QED
  BY <1>1, <1>2, <1>3 DEF Next, Received, Stamped, Windowed, Classified, Insert, Check, TakeWindow, StoreWindow,
                          Minute, Start, Bootstrap

\* An alert that got through is not repeated for Hush minutes within one run
\* of the service, however many tasks were spawned for it (send_alert).
THEOREM AlertsSpacedHolds == Spec => AlertsSpaced
<1>1. Init => TypeOK /\ MutedSince
  BY InitCount, Constants DEF CountInv, Init, MutedSince
<1>2. TypeOK /\ MutedSince /\ [Next]_vars => (TypeOK /\ MutedSince)'
  BY TypeStep, MutedStep
<1>3. TypeOK /\ MutedSince /\ [Next]_vars
        => [\A k \in Keys : fired'[k] # fired[k] => fired'[k] - fired[k] >= Hush \/ phase' = "down"]_vars
  BY AlertsStep
<1> QED
  BY <1>1, <1>2, <1>3, PTL DEF Spec, AlertsSpaced

-----------------------------------------------------------------------------
\* The task's clock; a window is closed, and a start finished, within the
\* minute.
Punctual ==
    /\ phase # "down" => lastHourly <= now /\ wake <= now + 1
    /\ phase = "boot" => lastHourly = now
    /\ task # "asleep" => phase # "down" /\ lastHourly = now

\* A silent minute that was checked has its alert, or a task to send it.
Watched ==
    phase # "down" /\ wake = now + 1 /\ now > lastHourly /\ lastAuction > 0 /\ now - lastAuction >= Quiet
        => spawned["no_auctions"] > 0 \/ now - fired["no_auctions"] < Hush

LEMMA PunctualStep == ASSUME TypeOK, Punctual, [Next]_vars PROVE Punctual'
<1> USE Constants DEF TypeOK, Punctual
<1>1. CASE Check
  BY <1>1 DEF Check
<1>2. CASE TakeWindow \/ StoreWindow
  BY <1>2 DEF TakeWindow, StoreWindow
<1>3. CASE Minute
  BY <1>3 DEF Minute, Settled
<1>4. CASE Crash \/ Start \/ Bootstrap
  BY <1>4 DEF Crash, Start, Bootstrap
<1>5. CASE UNCHANGED <<now, phase, lastHourly, wake, task>>
  BY <1>5
<1> QED
  BY <1>1, <1>2, <1>3, <1>4, <1>5 DEF Next, Received, Stamped, Windowed, Classified, Insert, Alert

LEMMA WatchedStep ==
    ASSUME TypeOK, Punctual, MutedSince, Watched, [Next]_vars
    PROVE  Watched'
<1> USE Constants DEF TypeOK, Watched
<1>1. "no_auctions" \in Keys
  BY DEF Keys
<1>2. ASSUME NEW h \in Handlers, Stamped(h) PROVE Watched'
  BY <1>2 DEF Stamped
<1>3. CASE Check
  BY <1>1, <1>3 DEF Check, Alarms
<1>4. ASSUME NEW k \in Keys, Alert(k) PROVE Watched'
  <2>1. CASE k = "no_auctions"
    <3>1. muted[k] = fired[k] + Hush
      BY DEF MutedSince
    <3>2. now - fired'[k] < Hush
      BY <1>4, <3>1 DEF Alert, Suppressed
    <3> QED
      BY <1>4, <2>1, <3>2 DEF Alert
  <2>2. CASE k # "no_auctions"
    BY <1>1, <1>4, <2>2 DEF Alert
  <2> QED
    BY <2>1, <2>2
<1>5. CASE TakeWindow \/ StoreWindow
  BY <1>5 DEF TakeWindow, StoreWindow, Punctual
<1>6. CASE Minute
  BY <1>6 DEF Minute, Punctual
<1>7. CASE Crash \/ Start \/ Bootstrap
  BY <1>7 DEF Crash, Start, Bootstrap, Punctual
<1>8. CASE UNCHANGED <<now, phase, lastHourly, wake, lastAuction, spawned, fired>>
  BY <1>8
<1> QED
  BY <1>2, <1>3, <1>4, <1>5, <1>6, <1>7, <1>8 DEF Next, Received, Windowed, Classified, Insert

\* No Hush minutes of a driver's silence pass without an alert, whatever was
\* alerted before (check_alerts and send_alert under run_background_task).
THEOREM SilenceReportedHolds == Spec => []SilenceReported
<1> DEFINE Inv == TypeOK /\ Punctual /\ MutedSince /\ Watched
<1>1. Init => Inv
  BY InitCount, Constants DEF CountInv, Init, Punctual, MutedSince, Watched
<1>2. Inv /\ [Next]_vars => Inv'
  BY TypeStep, PunctualStep, MutedStep, WatchedStep
<1>3. Inv => SilenceReported
  BY DEF Watched, SilenceReported, Settled, Keys
<1> QED
  BY <1>1, <1>2, <1>3, PTL DEF Spec
=============================================================================
