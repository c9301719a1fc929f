----------------------------- MODULE AlertFlood -----------------------------
(***************************************************************************)
(* Net-wide alerts (session/orchestrator.py): a warning that everybody in  *)
(* earshot shows and relays.  Nothing acknowledges it; the originator sends *)
(* a few copies, and a table of the message ids seen within the last hour  *)
(* tells a repetition from a new alert.                                    *)
(*                                                                         *)
(* The table lives in an object that is built anew whenever the control    *)
(* channel is opened, and so does the counter the ids are made from; a     *)
(* relay takes its jitter from the same counter.  Callsigns are taken to   *)
(* have different CRCs, and the clock is left out: an id may be forgotten  *)
(* at any time, as an alert may wait for hours behind a payload.           *)
(***************************************************************************)
EXTENDS Naturals, FiniteSets

CONSTANTS Station,
          Sender,      \* stations whose operators send alerts
          Hears,       \* <<a, b>>: b may hear what a transmits
          Ttl,         \* ALERT_TTL, 3 in the code
          Copies,      \* ALERT_REPEATS, 3 in the code
          MaxAlerts,   \* bound: alerts sent
          MaxCounter,  \* bound: 65535 in the code
          MaxReopens   \* bound: times a control channel is opened anew

AlertAssumption ==
    /\ Sender \subseteq Station /\ Hears \subseteq Station \X Station
    /\ Ttl \in Nat /\ Copies \in Nat /\ MaxCounter \in Nat

VARIABLES
    counter,   \* _alert_counter
    seen,      \* _seen_alerts
    queue,     \* _alert_queue
    alerts,    \* alerts sent so far
    reopens,
    shown,     \* history: alerts the station has shown
    heard      \* history: alerts of others it has received a copy of

vars == <<counter, seen, queue, alerts, reopens, shown, heard>>

Init ==
    /\ counter = [s \in Station |-> 0] /\ seen = [s \in Station |-> {}]
    /\ queue = [s \in Station |-> {}] /\ alerts = 0 /\ reopens = 0
    /\ shown = [s \in Station |-> {}] /\ heard = [s \in Station |-> {}]

Counted(n) == IF n < MaxCounter THEN n + 1 ELSE n

\* Mutant: all stations count in one range.
SharedId(s) == <<"any", Counted(counter[s])>>
\* _next_alert_id
NextId(s) == <<s, Counted(counter[s])>>

SendAlert(s) ==
    /\ s \in Sender /\ alerts < MaxAlerts /\ counter[s] < MaxCounter
    /\ alerts' = alerts + 1
    /\ counter' = [counter EXCEPT ![s] = Counted(@)]
    /\ seen' = [seen EXCEPT ![s] = @ \cup {NextId(s)}]
    /\ LET frame == [from |-> s, no |-> alerts + 1, id |-> NextId(s), ttl |-> Ttl]
       IN queue' = [queue EXCEPT ![s] = @ \cup {<<frame, n>> : n \in 1..Copies}]
    /\ shown' = [shown EXCEPT ![s] = @ \cup {alerts + 1}]
    /\ UNCHANGED <<reopens, heard>>

\* Mutant: a relay passes on what it has heard.
SameFrame(f) == {<<f, 1>>}
Onward(f) == IF f.ttl > 1 THEN {<<[f EXCEPT !.ttl = @ - 1], 1>>} ELSE {}

\* _rx_alert of the stations that hear the frame.
News(r, f) == f.from # r /\ f.id \notin seen[r]
Relays(r, f) == News(r, f) /\ Onward(f) # {}

Heard(s, f, listeners) ==
    LET newTo == {r \in listeners : News(r, f)} IN
    /\ seen' = [r \in Station |-> IF r \in newTo THEN seen[r] \cup {f.id} ELSE seen[r]]
    /\ shown' = [r \in Station |-> IF r \in newTo THEN shown[r] \cup {f.no} ELSE shown[r]]
    /\ counter' = [r \in Station |-> IF r \in listeners /\ Relays(r, f)
                                     THEN Counted(counter[r]) ELSE counter[r]]
    /\ heard' = [r \in Station |-> IF r \in listeners /\ r # f.from
                                   THEN heard[r] \cup {f.no} ELSE heard[r]]

\* _tick_alerts: a copy that is due is heard by some of the neighbours.
Transmit(s) ==
    /\ \E copy \in queue[s], listeners \in SUBSET {r \in Station : <<s, r>> \in Hears} :
         /\ Heard(s, copy[1], listeners)
         /\ queue' = [r \in Station |->
                        IF r = s THEN queue[s] \ {copy}
                        ELSE IF r \in listeners /\ News(r, copy[1])
                             THEN queue[r] \cup Onward(copy[1]) ELSE queue[r]]
    /\ UNCHANGED <<alerts, reopens>>

Forget(s) ==
    /\ \E id \in seen[s] : seen' = [seen EXCEPT ![s] = @ \ {id}]
    /\ UNCHANGED <<counter, queue, alerts, reopens, shown, heard>>

\* start_control_channel, or a restart of the program.
Reopen(s) ==
    /\ reopens < MaxReopens /\ reopens' = reopens + 1
    /\ counter' = [counter EXCEPT ![s] = 0] /\ seen' = [seen EXCEPT ![s] = {}]
    /\ queue' = [queue EXCEPT ![s] = {}]
    /\ UNCHANGED <<alerts, shown, heard>>

Next == \E s \in Station : SendAlert(s) \/ Transmit(s) \/ Forget(s) \/ Reopen(s)

Spec == Init /\ [][Next]_vars

\* The stations go on ticking while the control channel is theirs.
Fairness == \A s \in Station : WF_vars(Transmit(s))
FairSpec == Spec /\ Fairness

----------------------------------------------------------------------------
\* "A newer alert still comes through" (docs/RELEASE_NOTES_0.6.34.md), and test
\* test_alert_reaches_every_station_exactly_once: whoever hears an alert shows it.
NewAlertsComeThrough == \A s \in Station : heard[s] \subseteq shown[s]

\* That is so until a control channel is opened anew, whoever sends, relays and
\* forgets in whatever order: only then an id is used twice within the hour.
HeardIsShown == reopens = 0 => NewAlertsComeThrough

\* The flood ends even if the stations forget it while it lasts, because the
\* hop limit is counted down as well.
AlertsEnd == []<>(\A s \in Station : queue[s] = {})
=============================================================================
