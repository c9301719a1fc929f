----------------------------- MODULE TunedRadio -----------------------------
(***************************************************************************)
(* The dial of the one radio of a station (operations.py): sessions that    *)
(* move it to the next hop's frequency or to an agreed working channel and  *)
(* back, the sweep of an alert over the frequencies of the route table, and *)
(* the channel scanner.  Frequency and mode are one channel here.  Sessions *)
(* are called by the thread of the user interface and end on that of their  *)
(* payload too; the sweep and every tuning of the scanner are workers.      *)
(* Nobody asks who has the radio: each remembers the channel it found.      *)
(* The channel shown by the last poll is taken for the current one, and the *)
(* keying gap a session agrees on is left out.                              *)
(***************************************************************************)
EXTENDS Naturals

CONSTANTS Session, Outgoing,    \* sessions, and those this station sends in
          Channel, Home,        \* channels; the one the operator listens on
          Way,                  \* the channel each session goes to, or Nowhere
          Nowhere, Ui,
          MaxTours, MaxFaults   \* bounds: sweeps and scans, errors of the radio

RadioAssumption ==
    /\ Outgoing \subseteq Session
    /\ Home \in Channel /\ Nowhere \notin Channel /\ Ui \notin Session
    /\ Way \in [Session -> (Channel \ {Home}) \cup {Nowhere}]
    /\ MaxTours \in Nat /\ MaxFaults \in Nat

VARIABLES
    split,      \* separate_working_channels
    dial,       \* where the radio is tuned
    previous,   \* _qsy_previous
    session,    \* "none", "preparing", "open", "payload" or "over"
    thread,     \* where the payload thread of each session is
    on,         \* the channel it went to
    restoring,  \* who is in _qsy_restore, before or after the tuning
    sweep,      \* the worker alert-sweep
    scanner,    \* _scanner_home while the scanner is on
    tasks,      \* pending workers scanner-tune and scanner-home
    crossed,    \* two of them had the radio at once (history)
    lost,       \* a return failed, or the channel could not be read (history)
    count       \* tours (sweeps and scans) and errors so far

sessions == <<session, thread, on, restoring>>
others == <<sweep, scanner, tasks>>
vars == <<split, dial, previous, sessions, others, crossed, lost, count>>

NoSweep == [at |-> "off", home |-> Nowhere, left |-> {}]

Init ==
    /\ split \in BOOLEAN /\ dial = Home /\ previous = Nowhere
    /\ session = [s \in Session |-> "none"] /\ thread = [s \in Session |-> "off"]
    /\ on = [s \in Session |-> Nowhere]
    /\ restoring = [a \in Session \cup {Ui} |-> "no"]
    /\ sweep = NoSweep /\ scanner = Nowhere /\ tasks = {}
    /\ crossed = FALSE /\ lost = FALSE
    /\ count = [tours |-> 0, faults |-> 0]

Holding == {"ready", "working", "backing", "unwinding"}
PayloadActive == \E s \in Session : thread[s] \in Holding
Locked == PayloadActive \/ \E s \in Session : thread[s] = "refused"
SessionActive == \E s \in Session : session[s] \in {"open", "payload"}
UiFree == restoring[Ui] = "no"
Counted(what) == count' = [count EXCEPT ![what] = @ + 1]
CatFails == count.faults < MaxFaults /\ Counted("faults")
Goto(s, place) == thread' = [thread EXCEPT ![s] = place]
Becomes(s, state) == session' = [session EXCEPT ![s] = state]
Restores(a) == restoring' = [restoring EXCEPT ![a] = "tune"]

----------------------------------------------------------------------------
(* Moving the radio for a session, and back                                *)

\* Mutant: the channel the radio is on now is the one to return to.
LastChannel == dial
\* _qsy_to_channel: where a session found the radio when nobody else had
\* moved it.
CallingChannel == IF previous = Nowhere THEN dial ELSE previous

\* It succeeds, or fails before the channel was read, or before or after the
\* frequency was set.
Moved(to) == previous' = CallingChannel /\ dial' = to /\ UNCHANGED count
MoveFails(to) ==
    /\ CatFails
    /\ \/ UNCHANGED <<previous, dial>>
       \/ previous' = CallingChannel /\ dial' \in {dial, to}

\* _qsy_restore ...
Retune(a) ==
    /\ restoring[a] = "tune" /\ restoring' = [restoring EXCEPT ![a] = "clear"]
    /\ \/ previous = Nowhere /\ UNCHANGED <<dial, lost, count>>
       \/ previous # Nowhere /\ dial' = previous /\ UNCHANGED <<lost, count>>
       \/ previous # Nowhere /\ CatFails /\ lost' = TRUE /\ UNCHANGED dial
    /\ UNCHANGED <<split, previous, session, thread, on, others>>

\* ... forgets the channel after the lock of the radio was released.
Forget(a) ==
    /\ restoring[a] = "clear" /\ restoring' = [restoring EXCEPT ![a] = "no"]
    /\ previous' = Nowhere
    /\ UNCHANGED <<split, dial, session, thread, on, others, lost, count>>

----------------------------------------------------------------------------
(* Sessions                                                                *)

\* send_queued: without working channels the radio moves before the message
\* is announced, if the destination is a direct neighbour on another frequency.
Send(s) ==
    /\ s \in Outgoing /\ session[s] = "none" /\ UiFree /\ scanner = Nowhere
    /\ IF split \/ Way[s] = Nowhere
       THEN Becomes(s, "preparing") /\ UNCHANGED <<dial, previous, restoring, count>>
       ELSE \/ Moved(Way[s]) /\ Becomes(s, "preparing") /\ UNCHANGED restoring
            \/ MoveFails(Way[s]) /\ Restores(Ui) /\ UNCHANGED session
    /\ UNCHANGED <<split, thread, on, others, lost>>

\* _announce_prepared_mail, unless the server took the message meanwhile.
Announce(s) ==
    /\ session[s] = "preparing" /\ UiFree
    /\ Becomes(s, "open") \/ Becomes(s, "over")
    /\ UNCHANGED <<split, dial, previous, thread, on, restoring, others,
                   lost, count>>

Offered(s) ==
    /\ s \notin Outgoing /\ session[s] = "none" /\ UiFree /\ ~PayloadActive
    /\ Becomes(s, "open")
    /\ UNCHANGED <<split, dial, previous, thread, on, restoring, others,
                   lost, count>>

\* START_VARA was sent or heard: the payload thread starts.
Start(s) ==
    /\ session[s] = "open" /\ UiFree /\ ~PayloadActive /\ thread[s] = "off"
    /\ Becomes(s, "payload") /\ Goto(s, "queued")
    /\ UNCHANGED <<split, dial, previous, on, restoring, others, lost, count>>

\* _session_event for a session that was confirmed, has failed or was cancelled.
Ended(s, a) ==
    /\ Becomes(s, "over")
    /\ IF s \in Outgoing /\ previous # Nowhere THEN Restores(a) ELSE UNCHANGED restoring

\* The operator cancels, the peer confirms, a timer or a watchdog fires.
End(s) ==
    /\ UiFree /\ session[s] \in {"open", "payload"} /\ Ended(s, Ui)
    /\ UNCHANGED <<split, dial, previous, thread, on, others, lost, count>>

\* The payload threads come one after the other.  One that was cancelled does
\* not suspend the control channel, but unwinds all the same.
Acquire(s) ==
    /\ thread[s] = "queued" /\ ~Locked
    /\ Goto(s, IF session[s] = "over" THEN "refused" ELSE "ready")
    /\ IF session[s] = "over" /\ split THEN Restores(s) ELSE UNCHANGED restoring
    /\ UNCHANGED <<split, dial, previous, session, on, others, lost, count>>

\* _payload_send_qsy and _payload_receive_qsy
Goes(s) == Way[s] # Nowhere /\ (split \/ s \in Outgoing)

Qsy(s) ==
    /\ thread[s] = "ready"
    /\ \/ ~Goes(s) /\ Goto(s, "working") /\ UNCHANGED <<dial, previous, on, restoring, count>>
       \/ /\ Goes(s) /\ Moved(Way[s]) /\ Goto(s, "working")
          /\ on' = [on EXCEPT ![s] = Way[s]] /\ UNCHANGED restoring
       \/ Goes(s) /\ MoveFails(Way[s]) /\ Goto(s, "backing") /\ Restores(s) /\ UNCHANGED on
    /\ UNCHANGED <<split, session, others, lost>>

\* A working channel that was agreed on is needed, a route frequency is not.
NotThere(s) ==
    /\ thread[s] = "backing" /\ restoring[s] = "no"
    /\ IF split THEN Goto(s, "unwinding") /\ Restores(s)
       ELSE Goto(s, "working") /\ UNCHANGED restoring
    /\ UNCHANGED <<split, dial, previous, session, on, others, lost, count>>

\* The transfer ends; on_unqsy returns to the calling channel.
Finish(s) ==
    /\ thread[s] = "working" /\ Goto(s, "unwinding")
    /\ on' = [on EXCEPT ![s] = Nowhere]
    /\ IF split THEN Restores(s) ELSE UNCHANGED restoring
    /\ UNCHANGED <<split, dial, previous, session, others, lost, count>>

\* on_release; the control channel resumes.
Release(s) ==
    /\ thread[s] \in {"unwinding", "refused"} /\ restoring[s] = "no"
    /\ Goto(s, "telling")
    /\ UNCHANGED <<split, dial, previous, session, on, restoring, others,
                   lost, count>>

\* done(): a failure ends the session, after a success it waits for the peer.
Tell(s) ==
    /\ thread[s] = "telling" /\ Goto(s, "off")
    /\ \/ session[s] = "over" /\ UNCHANGED <<session, restoring>>
       \/ session[s] = "payload" /\ Becomes(s, "open") /\ UNCHANGED <<restoring>>
       \/ session[s] = "payload" /\ Ended(s, s)
    /\ UNCHANGED <<split, dial, previous, on, others, lost, count>>

----------------------------------------------------------------------------
(* The sweep of an alert over the channels of the route table              *)

Elsewhere == Channel \ {dial}

StartSweep ==
    /\ UiFree /\ scanner = Nowhere /\ sweep.at = "off"
    /\ count.tours < MaxTours /\ Counted("tours")
    /\ sweep' = [NoSweep EXCEPT !.at = "reading", !.left = Elsewhere]
    /\ UNCHANGED <<split, dial, previous, sessions, scanner, tasks, lost>>

\* _read_channel: if it fails there is nothing to return to.
ReadHome ==
    /\ sweep.at = "reading"
    /\ \/ sweep' = [sweep EXCEPT !.at = "looking", !.home = dial] /\ UNCHANGED <<lost, count>>
       \/ CatFails /\ lost' = TRUE /\ sweep' = [sweep EXCEPT !.at = "looking"]
    /\ UNCHANGED <<split, dial, previous, sessions, scanner, tasks>>

\* Before each channel: another control channel, or a payload, ends the sweep.
MayGoOn == ~PayloadActive
LookRound ==
    /\ sweep.at = "looking"
    /\ \/ sweep' = [sweep EXCEPT !.at = "returning"]
       \/ sweep.left # {} /\ MayGoOn /\ sweep' = [sweep EXCEPT !.at = "tuning"]
    /\ UNCHANGED <<split, dial, previous, sessions, scanner, tasks, lost, count>>

SweepOn(c) ==
    /\ sweep.at = "tuning" /\ c \in sweep.left
    /\ sweep' = [sweep EXCEPT !.at = "looking", !.left = @ \ {c}]
    /\ \/ dial' = c /\ UNCHANGED count
       \/ CatFails /\ dial' \in {dial, c}
    /\ UNCHANGED <<split, previous, sessions, scanner, tasks, lost>>

\* _return_to_channel, whatever ended the sweep.
Return ==
    /\ sweep.at = "returning" /\ sweep' = NoSweep
    /\ \/ sweep.home = Nowhere /\ UNCHANGED <<dial, lost, count>>
       \/ sweep.home # Nowhere /\ dial' = sweep.home /\ UNCHANGED <<lost, count>>
       \/ sweep.home # Nowhere /\ CatFails /\ lost' = TRUE /\ UNCHANGED dial
    /\ UNCHANGED <<split, previous, sessions, scanner, tasks>>

----------------------------------------------------------------------------
(* The channel scanner                                                     *)

StartScanner ==
    /\ UiFree /\ scanner = Nowhere /\ ~PayloadActive /\ ~SessionActive
    /\ sweep.at = "off" /\ count.tours < MaxTours /\ Counted("tours")
    /\ scanner' = dial
    /\ UNCHANGED <<split, dial, previous, sessions, sweep, tasks, lost>>

Pending(name) == \E t \in tasks : t.name = name

\* _tick_scanner: the dwell is over.  The tuning is a worker of its own.
TickScanner(c) ==
    /\ UiFree /\ scanner # Nowhere /\ ~PayloadActive /\ ~SessionActive
    /\ sweep.at = "off" /\ tasks = {}
    /\ tasks' = {[name |-> "scanner-tune", to |-> c]}
    /\ UNCHANGED <<split, dial, previous, sessions, sweep, scanner, lost, count>>

\* A tuning that is pending is neither awaited nor withdrawn.
StopScanner ==
    /\ UiFree /\ scanner # Nowhere /\ scanner' = Nowhere
    /\ tasks' = IF Pending("scanner-home") THEN tasks
                ELSE tasks \cup {[name |-> "scanner-home", to |-> scanner]}
    /\ UNCHANGED <<split, dial, previous, sessions, sweep, lost, count>>

TuneScanner(t) ==
    /\ t \in tasks /\ tasks' = tasks \ {t}
    /\ \/ dial' = t.to /\ UNCHANGED <<lost, count>>
       \/ CatFails /\ UNCHANGED dial /\ lost' = (lost \/ t.name = "scanner-home")
    /\ UNCHANGED <<split, previous, sessions, sweep, scanner>>

----------------------------------------------------------------------------

\* Two of them have the radio: a session away from the calling channel, a
\* sweep, the scanner, a tuning or a new scan behind the return of the last; a
\* session moves it between the two steps of another's return; or, under another's
\* payload, returns it or moves it for its announcement.
Crossing ==
    LET Away == previous # Nowhere
        Carrying == \E s \in Session : thread[s] = "working" /\ on[s] # Nowhere
        Announcing == \E s \in Session : session[s] = "preparing" /\ Way[s] # Nowhere
        Sweeping == sweep.at # "off"
        Scanning == scanner # Nowhere \/ tasks # {}
        Returning == {a \in DOMAIN restoring : restoring[a] # "no"}
    IN \/ Away /\ (Sweeping \/ Scanning)
       \/ Sweeping /\ Scanning
       \/ \E t, u \in tasks : t # u
       \/ scanner # Nowhere /\ Pending("scanner-home")
       \/ Away /\ dial # previous /\ \E a \in Returning : restoring[a] = "clear"
       \/ Carrying /\ (Returning # {} \/ (~split /\ Announcing))

Step ==
    \/ \E s \in Session :
         \/ Send(s) \/ Announce(s) \/ Offered(s) \/ Start(s) \/ End(s) \/ Acquire(s)
         \/ Qsy(s) \/ NotThere(s) \/ Finish(s) \/ Release(s) \/ Tell(s)
    \/ \E a \in Session \cup {Ui} : Retune(a) \/ Forget(a)
    \/ StartSweep \/ ReadHome \/ LookRound \/ (\E c \in Channel : SweepOn(c)) \/ Return
    \/ StartScanner \/ StopScanner
    \/ \E c \in Channel : TickScanner(c)
    \/ \E t \in tasks : TuneScanner(t)

Next == Step /\ crossed' = (crossed \/ Crossing')

Spec == Init /\ [][Next]_vars

----------------------------------------------------------------------------
(* What an operator relies on                                              *)

\* Whoever moved the radio knows the way back.
HomeIsRemembered ==
    \/ dial = Home \/ previous = Home
    \/ sweep.at # "off" /\ sweep.home = Home
    \/ scanner = Home \/ [name |-> "scanner-home", to |-> Home] \in tasks

\* A payload is carried on the channel its session went to.
PayloadKeepsItsChannel ==
    \A s \in Session : thread[s] = "working" /\ session[s] = "payload" =>
        on[s] \in {Nowhere, dial}

\* operations.py, _qsy_to_channel, _return_to_channel, stop_scanner: through
\* every failure of the radio the calling channel is remembered, and payloads
\* keep theirs, unless a return itself failed, which the operator is told, or
\* two had the radio.
AloneItIsReturned ==
    crossed \/ lost \/ (HomeIsRemembered /\ PayloadKeepsItsChannel)
=============================================================================
