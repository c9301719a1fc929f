------------------------------ MODULE Services ------------------------------
(***************************************************************************)
(* The parts of a station that work beside its session orchestrator, each  *)
(* an instance of its module, and what is asked of their states.  They     *)
(* share no variable here: what one is to the other, it is as a choice of  *)
(* the other's environment.  PayloadHandoff is extended.                   *)
(***************************************************************************)
EXTENDS PayloadHandoff, Sequences

CONSTANTS
    \* OfdmLink
    N, Window, Chunk, MaxRetries, Air, MaxLosses,
    \* ServerPath
    MaxTroubles,
    \* Warships
    Player, First, Cell, Fleet, MaxAttempts, MaxErrors,
    \* AlertFlood
    Node, Sender, Hears, Ttl, Copies, MaxAlerts, MaxCounter, MaxReopens,
    \* StationLab
    Station, Trusting, Requests, Reports, MaxSessions, MaxMishaps,
    \* AudioControl
    Item, Kind, Wording

VARIABLES
    \* OfdmLink
    mode, patient, ended, spc, first, window, pending, unsent, attempt, rpc,
    started, held, rounds, toR, toS, losses,
    \* ServerPath
    kind, disk, run, server, overdue, rested, given, tried, gaveUp, torn, troubles,
    \* Warships
    game, sent, done, inbox, errors, resigned,
    \* AlertFlood
    counter, seen, queue, alerts, reopens, shown, heard,
    \* StationLab
    lab, tx, rx, air, offered, mishaps, reported, agreed,
    \* AudioControl
    place, filed, carried, withdrawn, suspended, shut, failed, payload, answers, aired

Link == INSTANCE OfdmLink WITH cancelled <- ended
Server == INSTANCE ServerPath WITH
    MaxMishaps <- MaxTroubles, mishaps <- troubles, told <- given
Game == INSTANCE Warships WITH MaxFaults <- MaxErrors, faults <- errors, tx <- sent
Flood == INSTANCE AlertFlood WITH Station <- Node
Lab == INSTANCE StationLab WITH Attempts <- Requests, net <- air
Audio == INSTANCE AudioControl WITH
    Frame <- Item, Content <- Wording, stopped <- shut

----------------------------------------------------------------------------
(* The properties of their states, as stated in the modules                *)

\* link.py, send_message: success means that every block has arrived.
SuccessIsDelivery == Link!SuccessIsDelivery
\* link.py: a failure nobody asked for has lost bursts behind it.
FailureIsExplained == Link!FailureIsExplained
\* ardos_cz/service.py, send: by the server or by radio.
OneWayAtATime == Server!OneWayAtATime
\* warships/model.py: not both players attack, and who has won, and what was
\* hit, is so.
FairPlay == Game!TurnsAgree /\ Game!VerdictsAreTrue
\* orchestrator.py, _rx_alert: an alert that is heard is shown.
HeardIsShown == Flood!HeardIsShown
NewAlertsComeThrough == Flood!NewAlertsComeThrough
\* operations.py, _on_calibration_frame: both have measured, and know it.
CompletionIsMutual == Lab!CompletionIsMutual
\* modem/audio.py, suspend: control is silent while a payload has the card.
PayloadHasTheCard == Audio!PayloadHasTheCard
\* modem/audio.py: whoever waits for a frame is told what became of it.
EveryCallerIsTold == Audio!EveryCallerIsTold
=============================================================================
