----------------------------- MODULE StationLab -----------------------------
(***************************************************************************)
(* Auto Tune (operations.py): two stations measure the sound level of the   *)
(* way between them, first from the one that offered, then the other way.  *)
(* The control channel carries the handshake, and is shut while a station  *)
(* plays its sweep of test bursts or listens to the other's.               *)
(*                                                                         *)
(* Only Quick Tune, between two stations; a token is of the right version,  *)
(* and the levels themselves are left out.  A calibration is a number.  A   *)
(* worker's completion runs with its last step: it is drained within the    *)
(* main loop's next pass, while a frame is on the air for a second.         *)
(***************************************************************************)
EXTENDS Naturals, Sequences, FiniteSets

CONSTANTS Station,      \* the two stations
          Trusting,     \* those that accept the other's offers by themselves
          Attempts,     \* CALIBRATION_OFFER_ATTEMPTS, 3 in the code
          Reports,      \* CALIBRATION_REPORT_ATTEMPTS, 3 in the code
          MaxSessions,  \* bound: calibrations offered
          MaxMishaps    \* bound: frames lost, sound cards failing, cancellations

\* An Auto Tune is between two stations.
LabAssumption == \E a, b \in Station : a # b /\ Station = {a, b}

VARIABLES
    lab,       \* station_lab and the _calibration_... attributes
    tx,        \* the worker "station-calibration"
    rx,        \* the worker "station-calibration-rx"
    net,       \* frames on their way to a station
    offered, mishaps,
    reported,  \* history: whose sweep was reported back, in which calibration
    agreed     \* history: calibrations the offering station saw complete

vars == <<lab, tx, rx, net, offered, mishaps, reported, agreed>>

Peer(s) == CHOOSE p \in Station : p # s
Resting == {"IDLE", "COMPLETE", "CANCELLED", "FAILED"}

\* A calibration as it begins at one end.
Fresh(id, st, initiator) ==
    [st |-> st, id |-> id, initiator |-> initiator, pending |-> ~initiator,
     offers |-> 0, cancel |-> FALSE, turn |-> FALSE, turns |-> 0, done |-> FALSE,
     dones |-> 0, reverse |-> FALSE, rxDone |-> FALSE]
NoJob == [at |-> "none", id |-> 0, tries |-> 0, ready |-> FALSE]

Init ==
    /\ lab = [s \in Station |-> [Fresh(0, "IDLE", FALSE) EXCEPT !.pending = FALSE]]
    /\ tx = [s \in Station |-> NoJob] /\ rx = [s \in Station |-> "none"]
    /\ net = [s \in Station |-> <<>>]
    /\ offered = 0 /\ mishaps = 0 /\ reported = {} /\ agreed = {}

\* _payload_active is set by _suspend_control before it drains what is still to
\* be sent; then, until _resume_control, nothing is heard and frames wait.
Active(s) == tx[s].at = "sweep" \/ rx[s] # "none"
Shut(s) == tx[s].at = "sweep" \/ rx[s] = "listening"

\* A worker that need not wait goes on before a frame has come in, or
\* an operator has done something more.
Goes(s) ==
    \/ tx[s].at = "probe"
    \/ tx[s].at = "flush" /\ net[Peer(s)] = <<>>
    \/ tx[s].at = "wait" /\ tx[s].ready
Prompt == \A s \in Station : ~Goes(s)

Frame(of, id) == [of |-> of, id |-> id]
Sent(s, f) == [net EXCEPT ![Peer(s)] = Append(@, f)]
Answered(s, f) == [net EXCEPT ![s] = Tail(@), ![Peer(s)] = Append(@, f)]
Taken(s) == [net EXCEPT ![s] = Tail(@)]
Put(s, l) == lab' = [lab EXCEPT ![s] = l]
bounds == <<offered, mishaps>>
jobs == <<tx, rx>>
Mishap == mishaps < MaxMishaps /\ mishaps' = mishaps + 1

----------------------------------------------------------------------------
(* The operator                                                            *)

Start(s) ==
    /\ offered < MaxSessions /\ offered' = offered + 1
    /\ Prompt /\ ~Active(s) /\ lab[s].st \in Resting
    /\ Put(s, [Fresh(offered + 1, "OFFERING", TRUE) EXCEPT !.offers = 1])
    /\ net' = Sent(s, Frame("OFFER", offered + 1))
    /\ UNCHANGED <<jobs, mishaps, reported, agreed>>

\* An offer can still be accepted after it was cancelled.
Accept(s) ==
    /\ lab[s].pending
    /\ Put(s, [lab[s] EXCEPT !.pending = FALSE, !.st = "PREPARING"])
    /\ net' = Sent(s, Frame("ACCEPT", lab[s].id))
    /\ UNCHANGED <<jobs, bounds, reported, agreed>>

Reject(s) ==
    /\ lab[s].pending
    /\ Put(s, [lab[s] EXCEPT !.pending = FALSE, !.st = "IDLE", !.id = 0])
    /\ net' = Sent(s, Frame("BUSY", lab[s].id))
    /\ UNCHANGED <<jobs, bounds, reported, agreed>>

Cancelled(l, st) ==
    [l EXCEPT !.cancel = TRUE, !.turn = FALSE, !.done = FALSE, !.st = st]

Cancel(s) ==
    /\ Mishap /\ Prompt
    /\ lab[s].st \notin {"IDLE", "COMPLETE"}
    /\ Put(s, Cancelled(lab[s], "CANCELLED"))
    /\ net' = Sent(s, Frame("CANCEL", lab[s].id))
    /\ UNCHANGED <<jobs, offered, reported, agreed>>

----------------------------------------------------------------------------
(* _tick_station_calibration: a step of the handshake is repeated, and then *)
(* given up.                                                              *)

Repeat(s, l, of) == Put(s, l) /\ net' = Sent(s, Frame(of, l.id))
GiveUp(s, l) == Put(s, [l EXCEPT !.st = "FAILED"]) /\ net' = Sent(s, Frame("CANCEL", l.id))

\* Mutant: the change of direction is announced only once.
AnnouncedOnce(s) == FALSE
TurnIsDue(s) == lab[s].turn

Tick(s) ==
    LET l == lab[s] IN
    /\ \/ /\ TurnIsDue(s)
          /\ IF l.turns < Attempts THEN Repeat(s, [l EXCEPT !.turns = @ + 1], "TURN")
             ELSE GiveUp(s, [l EXCEPT !.turn = FALSE])
       \/ /\ ~l.turn /\ l.done
          /\ IF l.dones < Attempts THEN Repeat(s, [l EXCEPT !.dones = @ + 1], "DONE")
             ELSE GiveUp(s, [l EXCEPT !.done = FALSE])
       \/ /\ ~l.turn /\ ~l.done /\ l.st = "OFFERING"
          /\ IF l.offers < Attempts THEN Repeat(s, [l EXCEPT !.offers = @ + 1], "OFFER")
             ELSE GiveUp(s, l)
    /\ UNCHANGED <<jobs, bounds, reported, agreed>>

----------------------------------------------------------------------------
(* _on_calibration_frame                                                   *)

\* workers.submit takes no job of a name that is still active.
Free(s) == tx[s].at = "none"
Run(s) == tx' = [tx EXCEPT ![s] = [NoJob EXCEPT !.at = "probe", !.id = lab[s].id]]

\* _calibration_offer
HearOffer(s, f) ==
    LET l == lab[s]
        new == Fresh(f.id, "APPROVAL", FALSE) IN
    /\ IF f.id = l.id /\ l.pending THEN net' = Taken(s) /\ UNCHANGED lab
       ELSE IF f.id = l.id /\ ~l.initiator /\ l.st \in {"PREPARING", "MEASURING", "REPORT"}
       THEN net' = Answered(s, Frame("ACCEPT", f.id)) /\ UNCHANGED lab
       ELSE IF Active(s) \/ l.st \notin Resting
       THEN net' = Answered(s, Frame("BUSY", f.id)) /\ UNCHANGED lab
       ELSE IF s \in Trusting
       THEN /\ Put(s, [new EXCEPT !.pending = FALSE, !.st = "PREPARING"])
            /\ net' = Answered(s, Frame("ACCEPT", f.id))
       ELSE Put(s, new) /\ net' = Taken(s)
    /\ UNCHANGED <<tx, rx, agreed>>

HearAccept(s) ==
    /\ net' = Taken(s) /\ UNCHANGED <<rx, agreed>>
    /\ IF lab[s].st # "OFFERING" THEN UNCHANGED <<lab, tx>>
       ELSE IF Free(s) THEN Put(s, [lab[s] EXCEPT !.st = "PREPARING", !.offers = 0]) /\ Run(s)
       ELSE Put(s, [lab[s] EXCEPT !.st = "FAILED", !.offers = 0]) /\ UNCHANGED tx

HearProbe(s) ==
    LET l == [lab[s] EXCEPT !.turn = @ /\ ~lab[s].initiator] IN
    /\ UNCHANGED <<tx, agreed>>
    /\ IF l.st \notin {"PREPARING", "MEASURING"} THEN net' = Taken(s) /\ UNCHANGED <<lab, rx>>
       ELSE IF l.rxDone
       THEN Put(s, l) /\ net' = Answered(s, Frame("REPORT", l.id)) /\ UNCHANGED rx
       ELSE IF rx[s] # "none" THEN Put(s, l) /\ net' = Taken(s) /\ UNCHANGED rx
       ELSE /\ Put(s, [l EXCEPT !.st = "MEASURING"]) /\ net' = Taken(s)
            /\ rx' = [rx EXCEPT ![s] = "starting"]

HearReport(s) ==
    /\ net' = Taken(s) /\ tx' = [tx EXCEPT ![s].ready = tx[s].at \notin {"none", "probe"}]
    /\ UNCHANGED <<lab, rx, agreed>>

HearEnd(s, st) ==
    /\ Put(s, Cancelled(lab[s], st)) /\ net' = Taken(s) /\ UNCHANGED <<tx, rx, agreed>>

\* CAL_DONE, with the marker TURN, DONE or COMPLETE
HearMarker(s, f) ==
    LET l == lab[s] IN
    IF f.of = "TURN" /\ ~l.initiator
    THEN /\ IF l.reverse
            THEN /\ UNCHANGED <<lab, tx>>
                 /\ net' = IF l.st = "COMPLETE" THEN Answered(s, Frame("DONE", l.id)) ELSE Taken(s)
            ELSE /\ Put(s, [l EXCEPT !.reverse = TRUE, !.st = "PREPARING"]) /\ net' = Taken(s)
                 /\ IF Free(s) THEN Run(s) ELSE UNCHANGED tx
         /\ UNCHANGED <<rx, agreed>>
    ELSE /\ UNCHANGED <<tx, rx>>
         /\ IF f.of = "DONE" /\ l.initiator
            THEN /\ Put(s, [l EXCEPT !.turn = FALSE, !.st = "COMPLETE"])
                 /\ net' = Answered(s, Frame("COMPLETE", l.id)) /\ agreed' = agreed \cup {l.id}
            ELSE /\ UNCHANGED agreed
                 /\ IF f.of = "COMPLETE" /\ l.done
                    THEN Put(s, [l EXCEPT !.done = FALSE, !.st = "COMPLETE"]) /\ net' = Taken(s)
                    ELSE IF l.st \in Resting \ {"IDLE"} THEN net' = Taken(s) /\ UNCHANGED lab
                    ELSE /\ Put(s, [l EXCEPT !.turn = FALSE, !.done = FALSE, !.st = "FAILED"])
                         /\ net' = Answered(s, Frame("CANCEL", l.id))

Hear(s) ==
    /\ ~Shut(s) /\ ~Shut(Peer(s)) /\ net[s] # <<>> /\ Prompt
    /\ LET f == Head(net[s]) IN
       IF f.of = "OFFER" THEN HearOffer(s, f)
       ELSE IF f.id # lab[s].id THEN net' = Taken(s) /\ UNCHANGED <<lab, tx, rx, agreed>>
       ELSE \/ f.of = "ACCEPT" /\ HearAccept(s)
            \/ f.of = "PROBE" /\ HearProbe(s)
            \/ f.of = "REPORT" /\ HearReport(s)
            \/ f.of = "BUSY" /\ HearEnd(s, "FAILED")
            \/ f.of = "CANCEL" /\ HearEnd(s, "CANCELLED")
            \/ f.of \in {"TURN", "DONE", "COMPLETE"} /\ HearMarker(s, f)
    /\ UNCHANGED <<bounds, reported>>

\* A frame is lost, or meets a station that is listening to something else.
Miss(s) ==
    /\ net[s] # <<>> /\ ~Shut(Peer(s)) /\ net' = Taken(s)
    /\ \/ Shut(s) /\ UNCHANGED mishaps
       \/ ~Shut(s) /\ Mishap
    /\ UNCHANGED <<lab, jobs, offered, reported, agreed>>

----------------------------------------------------------------------------
(* The worker of a sweep: _run_quick_station_calibration.  It writes to the *)
(* status it began with, which a later calibration has replaced, while its  *)
(* completion writes to the one there is.                                   *)

Of(s, l, st) == IF l.id = tx[s].id THEN [l EXCEPT !.st = st] ELSE l
Step(s, at) == tx' = [tx EXCEPT ![s].at = at]
Leaves(s) == tx' = [tx EXCEPT ![s] = NoJob]

Probe(s) ==
    /\ tx[s].at = "probe" /\ Step(s, "flush") /\ Put(s, Of(s, lab[s], "MEASURING"))
    /\ net' = Sent(s, Frame("PROBE", tx[s].id))
    /\ UNCHANGED <<rx, bounds, reported, agreed>>

NoReport(s) ==
    /\ net' = Sent(s, Frame("CANCEL", tx[s].id))
    /\ Leaves(s) /\ Put(s, [lab[s] EXCEPT !.st = "FAILED"])

\* _transmit_quick_calibration, once the control frames have left the radio: if
\* they do not within wait_tx_idle, nothing is played and no report waited for.
Sweep(s) ==
    /\ tx[s].at = "flush"
    /\ \/ net[Peer(s)] = <<>> /\ Step(s, "sweep") /\ UNCHANGED <<lab, net>>
       \/ net[Peer(s)] # <<>> /\ NoReport(s)
    /\ UNCHANGED <<rx, bounds, reported, agreed>>

\* A sweep that was cancelled has no result; a fault ends it without a word.
Swept(s) ==
    /\ tx[s].at = "sweep"
    /\ \/ /\ ~lab[s].cancel /\ Step(s, "wait") /\ Put(s, Of(s, lab[s], "REPORT"))
          /\ UNCHANGED <<net, mishaps>>
       \/ lab[s].cancel /\ NoReport(s) /\ UNCHANGED mishaps
       \/ /\ Mishap
          /\ Leaves(s) /\ Put(s, [lab[s] EXCEPT !.st = "FAILED"]) /\ UNCHANGED net
    /\ UNCHANGED <<rx, offered, reported, agreed>>

\* Mutant: the responder does not wait for the other end.
Content(l) == IF l.cancel THEN "CANCELLED" ELSE IF l.initiator THEN "PREPARING" ELSE "COMPLETE"
\* _station_calibration_finished
Outcome(l) ==
    IF l.cancel THEN "CANCELLED"
    ELSE IF l.initiator \/ l.done THEN "PREPARING" ELSE "COMPLETE"

\* _signal_calibration_direction_complete, and the completion
Reported(s) ==
    LET l == IF lab[s].initiator THEN [lab[s] EXCEPT !.turn = TRUE, !.turns = 1]
             ELSE [lab[s] EXCEPT !.done = TRUE, !.dones = 1] IN
    /\ tx[s].at = "wait" /\ tx[s].ready /\ Leaves(s)
    /\ reported' = reported \cup {<<s, tx[s].id>>}
    /\ Repeat(s, [l EXCEPT !.st = Outcome(l)], IF l.initiator THEN "TURN" ELSE "DONE")
    /\ UNCHANGED <<rx, bounds, agreed>>

\* The cached report is asked for again.
Unreported(s) ==
    /\ tx[s].at = "wait" /\ ~tx[s].ready
    /\ IF lab[s].cancel \/ tx[s].tries + 1 = Reports THEN NoReport(s)
       ELSE /\ tx' = [tx EXCEPT ![s].tries = @ + 1] /\ UNCHANGED lab
            /\ net' = Sent(s, Frame("PROBE", tx[s].id))
    /\ UNCHANGED <<rx, bounds, reported, agreed>>

Work(s) == Probe(s) \/ Sweep(s) \/ Swept(s) \/ Reported(s) \/ Unreported(s)

----------------------------------------------------------------------------
(* The worker that listens: _receive_quick_calibration, and its completion,*)
(* which sends a report even of a sound card that failed.  It listens for   *)
(* as long as a sweep can last, and some seconds more.                      *)

Listen(s) ==
    /\ rx[s] = "starting" /\ net[Peer(s)] = <<>> /\ rx' = [rx EXCEPT ![s] = "listening"]
    /\ UNCHANGED <<lab, tx, net, bounds, reported, agreed>>

Measure(s) ==
    /\ rx[s] = "listening" /\ tx[Peer(s)].at \notin {"probe", "flush", "sweep"}
    /\ rx' = [rx EXCEPT ![s] = "none"]
    /\ \E measured \in BOOLEAN :
         /\ IF measured THEN UNCHANGED mishaps
            ELSE Mishap
         /\ IF measured /\ (lab[s].cancel \/ lab[s].st = "CANCELLED")
            THEN UNCHANGED <<lab, net>>
            ELSE /\ Put(s, [lab[s] EXCEPT !.st = "PREPARING", !.rxDone = @ \/ measured])
                 /\ net' = Sent(s, Frame("REPORT", lab[s].id))
    /\ UNCHANGED <<tx, offered, reported, agreed>>

Next == \E s \in Station :
    \/ Start(s) \/ Accept(s) \/ Reject(s) \/ Cancel(s) \/ Tick(s) \/ Hear(s) \/ Miss(s)
    \/ Work(s) \/ Listen(s) \/ Measure(s)

Spec == Init /\ [][Next]_vars

\* The main loop goes on, and so do the workers; operators need not act.
Fairness == \A s \in Station :
    /\ WF_vars(Tick(s)) /\ WF_vars(Hear(s)) /\ WF_vars(Shut(s) /\ Miss(s))
    /\ WF_vars(Work(s)) /\ WF_vars(Listen(s)) /\ WF_vars(Measure(s))

----------------------------------------------------------------------------
\* "Both directions completed calibration.": the offering station says so when
\* each sweep has been reported on, and the other when the first has agreed.
CompletionIsMutual == \A s \in Station :
    lab[s].st = "COMPLETE" =>
        IF lab[s].initiator THEN \A t \in Station : <<t, lab[s].id>> \in reported
        ELSE lab[s].id \in agreed

\* The two do not wait for each other for ever, whatever is lost or cancelled:
\* one of them rests, has an offer to decide on, or has gone on to another
\* calibration.  That is so unless a probe that was repeated made a station listen
\* while its own sweep was to be played.  (One alone may wait for ever, if it
\* missed the CANCEL.)
Waits(s) == lab[s].st \notin Resting \cup {"APPROVAL"}
BothAtOnce(s) == tx[s].at \in {"flush", "sweep"} /\ rx[s] # "none"
NoMutualWait ==
    \/ []<>(\E s \in Station : ~Waits(s) \/ lab[s].id # lab[Peer(s)].id)
    \/ <>(\E s \in Station : BothAtOnce(s))
=============================================================================
