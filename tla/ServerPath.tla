----------------------------- MODULE ServerPath -----------------------------
(***************************************************************************)
(* The two ways one message may leave a station: through the ARDOS CZ server *)
(* (ardos_cz/service.py) or by radio, when the server refuses it, is out of *)
(* reach or does not answer for 90 seconds.  The message is the station's   *)
(* own or a relayed one, whose previous hop is owed a receipt once the      *)
(* server has delivered it (multi_radio.py keeps the receipt).              *)
(*                                                                         *)
(* The service talks to the server from one worker and looks after messages *)
(* in its tick; what it writes survives the program, what it knows does not.*)
(* The server is modelled by what its answers say: a request that gets none *)
(* was carried out or not, but is not carried out later.                    *)
(***************************************************************************)
EXTENDS Naturals

CONSTANT MaxMishaps   \* bound: crashes, failed writes, connects and copies

VARIABLES
    kind,      \* "own" or "relay"
    disk,      \* what the mailbox says of the message
    run,       \* what the program knows
    server,    \* what has become of the message at the server
    overdue,   \* 90 seconds have passed since attempted_at
    rested,    \* 60 seconds since the last automatic attempt
    told,      \* the last receipt owed has been handed to a radio
    tried, gaveUp, \* history: sent by radio; given up after 90 seconds
    torn,      \* history: a delivery was published and not filed
    mishaps

vars == <<kind, disk, run, server, overdue, rested, told, tried, gaveUp, torn,
          mishaps>>
world == <<kind, server, tried, gaveUp, torn, mishaps>>

Held == {"checking", "uploading", "unknown", "accepted"}
Final == {"delivered", "expired"}

\* job is what the worker does: "idle", or "send", "leave" or "poll"; at is its
\* place, over the result to be drained.  A tick comes before anything else.
Idle == [enabled |-> TRUE, active |-> FALSE, preparing |-> FALSE, session |-> FALSE,
         job |-> "idle", at |-> "none", over |-> "none", queue |-> FALSE,
         ticked |-> FALSE]

Init ==
    /\ kind \in {"own", "relay"}
    /\ disk = [path |-> "none", keyed |-> FALSE, due |-> FALSE, receipt |-> FALSE,
               mail |-> "waiting"]
    /\ run = Idle /\ server = "none" /\ overdue = FALSE /\ rested = TRUE
    /\ told = FALSE /\ tried = FALSE /\ gaveUp = FALSE /\ torn = FALSE /\ mishaps = 0

Mishap == mishaps < MaxMishaps /\ mishaps' = mishaps + 1

----------------------------------------------------------------------------
(* Sending.  A state of the station is a record with its disk, run and the  *)
(* clocks, so that what a tick does can be composed.                        *)

Now == [disk |-> disk, run |-> run, overdue |-> overdue, rested |-> rested,
        tried |-> tried, gaveUp |-> gaveUp]
Becomes(s) ==
    /\ disk' = s.disk /\ run' = s.run /\ overdue' = s.overdue /\ rested' = s.rested
    /\ tried' = s.tried /\ gaveUp' = s.gaveUp

\* Mutant: mail the server may have is sent by radio as well.
AnyPath(s) == TRUE
MayRadio(s) == s.disk.path \notin Held

\* Operations.send_queued once the server has been asked.
ByRadio(s) ==
    IF MayRadio(s) /\ ~s.run.preparing /\ ~s.run.session
    THEN [s EXCEPT !.run.session = TRUE, !.tried = TRUE] ELSE s

\* send: whether the server takes it, radio may go ahead, or neither.
Verdict(s, leave) ==
    IF s.disk.path \in Held \ {"checking"} THEN "handled"
    ELSE IF ~leave /\ s.disk.path = "rf_fallback" THEN "radio"
    ELSE IF ~s.run.enabled THEN IF leave THEN "no" ELSE "radio"
    ELSE IF s.run.active THEN IF leave \/ kind = "relay" THEN "no" ELSE "radio"
    ELSE IF s.disk.mail = "sent" THEN IF leave THEN "no" ELSE "radio"
    ELSE IF s.run.preparing \/ s.run.session THEN "no" ELSE "server"

ToServer(s, leave) ==
    LET again == kind = "relay" /\ s.disk.path # "checking" IN
    [s EXCEPT !.disk.path = IF kind = "relay" THEN "checking" ELSE @,
              !.overdue = IF again THEN FALSE ELSE @,
              !.run.preparing = TRUE, !.run.active = TRUE,
              !.run.job = IF leave THEN "leave" ELSE "send", !.run.at = "offer"]

Send(s, leave) ==
    IF Verdict(s, leave) = "server" THEN ToServer(s, leave) ELSE s

\* send_queued, from the automatic delivery or the operator.
SendQueued ==
    /\ run.ticked /\ disk.mail # "sent"
    /\ Becomes(IF Verdict(Now, FALSE) = "radio" THEN ByRadio(Now) ELSE Send(Now, FALSE))
    /\ UNCHANGED <<kind, server, told, torn, mishaps>>

\* The operator leaves own mail at the server.
Leave ==
    /\ run.ticked /\ kind = "own" /\ Verdict(Now, TRUE) = "server"
    /\ Becomes(Send(Now, TRUE))
    /\ UNCHANGED <<kind, server, told, torn, mishaps>>

\* accept_relay: the previous hop sends a message it has had no receipt for.
Again ==
    /\ run.ticked /\ kind = "relay" /\ run.enabled /\ ~run.session /\ Mishap
    /\ IF disk.path = "delivered"
       THEN /\ disk' = [disk EXCEPT !.due = TRUE] /\ told' = FALSE
            /\ UNCHANGED <<run, overdue, rested, tried, gaveUp>>
       ELSE /\ disk.mail # "sent" /\ UNCHANGED told
            /\ LET s == IF disk.path \in Held THEN Now
                        ELSE [Now EXCEPT !.disk.path = "checking", !.overdue = FALSE]
               IN Becomes(Send(s, FALSE))
    /\ UNCHANGED <<kind, server, torn>>

----------------------------------------------------------------------------
(* The worker                                                              *)

At(place) == run' = [run EXCEPT !.at = place]
\* "left": mail left at the server, which done never takes to the radio.
Ends(result) ==
    run' = [run EXCEPT !.job = "idle", !.at = "none",
                       !.over = IF run.job = "leave" THEN "left" ELSE result]

\* No heartbeat, or the destination is offline.
Refused ==
    /\ run.at = "offer" /\ Ends("error")
    /\ UNCHANGED <<disk, world, overdue, rested, told>>

Upload ==
    /\ run.at = "offer" /\ At("put")
    /\ disk' = [disk EXCEPT !.path = "uploading", !.keyed = TRUE] /\ overdue' = FALSE
    /\ UNCHANGED <<world, rested, told>>

Taken == server' = IF server = "none" THEN "accepted" ELSE server

\* The answer to the PUT comes, is a refusal, or stays out.
Put ==
    /\ run.at = "put"
    /\ \/ Taken /\ At("publish") /\ UNCHANGED disk
       \/ /\ server = "none" /\ Ends("error") /\ UNCHANGED server
          /\ disk' = [disk EXCEPT !.path = "rejected"]
       \/ /\ Taken \/ UNCHANGED server
          /\ Ends("error") /\ disk' = [disk EXCEPT !.path = "unknown"]
    /\ UNCHANGED <<kind, overdue, rested, told, tried, gaveUp, torn, mishaps>>

\* _poll asks after a message it has a key for.
Ask ==
    /\ run.at = "ask"
    /\ IF disk.keyed /\ disk.path \in Held \cup {"rf_fallback"}
       THEN At("answer") ELSE Ends("ok")
    /\ UNCHANGED <<disk, world, overdue, rested, told>>

\* A message the server does not know: the radio is free to take it.
Unknown(s) == IF kind = "relay" THEN "rf_fallback" ELSE "not_accepted"

Answer ==
    /\ run.at = "answer"
    /\ \/ server = "none" /\ Ends("ok") /\ disk' = [disk EXCEPT !.path = Unknown(disk)]
       \/ server # "none" /\ At("publish") /\ UNCHANGED disk
       \/ Ends("error") /\ UNCHANGED disk
    /\ UNCHANGED <<world, overdue, rested, told>>

\* _publish_receipt: a relayed message's previous hop is owed a receipt ...
OwesReceipt(reply) ==
    kind = "relay" /\ reply = "delivered" /\ disk.path # "delivered"
Publish ==
    /\ run.at = "publish" /\ At("status")
    /\ disk' = [disk EXCEPT !.path = server, !.due = @ \/ OwesReceipt(server)]
    /\ told' = (told /\ ~OwesReceipt(server))
    /\ UNCHANGED <<world, overdue, rested>>

\* ... and the mail is filed, unless that cannot be written.
Filed(path) == CASE path = "delivered" -> "sent"
                 [] path = "expired" -> "failed"
                 [] OTHER -> disk.mail
File ==
    /\ run.at = "status"
    /\ \/ /\ disk' = [disk EXCEPT !.mail = IF @ = "sent" THEN @ ELSE Filed(disk.path)]
          /\ Ends("ok") /\ UNCHANGED <<torn, mishaps>>
       \/ Mishap /\ torn' = TRUE /\ Ends("error") /\ UNCHANGED disk
    /\ UNCHANGED <<kind, server, overdue, rested, told, tried, gaveUp>>

Worker == Refused \/ Upload \/ Put \/ Ask \/ Answer \/ Publish \/ File

----------------------------------------------------------------------------
(* tick: one pass over what is due                                         *)

\* done, of a send; _finish only, of a poll.
Drained(s) ==
    LET failed == s.run.over = "error"
        t == [s EXCEPT !.run.over = "none", !.run.active = FALSE, !.run.preparing = FALSE]
        u == [t EXCEPT !.rested = FALSE,
                       !.disk.path = IF failed /\ kind = "relay"
                                        /\ @ \in {"checking", "rejected"}
                                     THEN "rf_fallback" ELSE @]
    IN IF s.run.over = "none" THEN s
       ELSE IF ~s.run.preparing THEN t
       ELSE IF failed THEN ByRadio(u) ELSE u

\* _queue_rf_receipts, and transmit_receipt of the coordinator.
Receipts(s) ==
    IF s.disk.path = "delivered" /\ s.disk.due
    THEN [s EXCEPT !.disk.receipt = TRUE, !.run.queue = TRUE, !.disk.mail = "sent",
                   !.disk.due = FALSE, !.run.session = FALSE]
    ELSE s

FellBack(s) ==
    IF ~s.run.active /\ s.overdue /\ s.disk.path \in {"checking", "uploading", "unknown"}
    THEN [s EXCEPT !.disk.path = "rf_fallback", !.gaveUp = TRUE] ELSE s

\* Mutant: retained mail waits for the server to come back.
OnlineOnly(s) == FALSE
Retained(s) ==
    /\ ~s.run.active /\ kind = "relay" /\ s.disk.path = "rf_fallback"
    /\ s.disk.mail # "sent" /\ s.rested
Resent(s) == IF Retained(s) THEN ByRadio([s EXCEPT !.rested = FALSE]) ELSE s

\* Relayed mail whose offer broke off, or that waits and was never offered.
Offered(s) ==
    /\ kind = "relay" /\ s.disk.mail # "sent"
    /\ s.disk.path = "checking" \/ (s.disk.path = "none" /\ s.disk.mail = "waiting")
\* It is offered first, then the server is polled, or own mail sent.
Connected(s) ==
    IF ~s.run.enabled \/ s.run.active THEN {s}
    ELSE IF Offered(s) /\ Verdict(s, FALSE) = "server" THEN {ToServer(s, FALSE)}
    ELSE {[s EXCEPT !.run.active = TRUE, !.run.job = "poll", !.run.at = "ask"],
          IF kind = "own" /\ s.disk.mail = "waiting" /\ s.disk.path \notin Held /\ s.rested
          THEN Send([s EXCEPT !.rested = FALSE], FALSE) ELSE s}

Tick ==
    \* In this order; the sets make TLC evaluate each stage once.
    /\ \E drained \in {Drained(Now)} : \E paid \in {Receipts(drained)} :
       \E late \in {FellBack(paid)} : \E resent \in {Resent(late)} :
       \E s \in Connected(resent) :
         Becomes([s EXCEPT !.run.ticked = TRUE])
    /\ UNCHANGED <<kind, server, told, torn, mishaps>>

\* flush_receipts, in the tick of the coordinator.
Flush ==
    /\ run.queue
    /\ run' = [run EXCEPT !.queue = FALSE] /\ disk' = [disk EXCEPT !.receipt = FALSE]
    /\ told' = TRUE
    /\ UNCHANGED <<world, overdue, rested>>

----------------------------------------------------------------------------
(* The clock, the radio, the server and the operator                       *)

Time ==
    /\ ~overdue \/ ~rested
    /\ overdue' = TRUE /\ rested' = TRUE
    /\ UNCHANGED <<disk, run, world, told>>

RadioEnds ==
    /\ run.session /\ run' = [run EXCEPT !.session = FALSE]
    /\ \E mail \in {"waiting", "failed", "sent"} :
         disk' = [disk EXCEPT !.mail = IF @ = "sent" THEN @ ELSE mail]
    /\ UNCHANGED <<world, overdue, rested, told>>

ServerMoves ==
    /\ server = "accepted" /\ server' \in Final
    /\ UNCHANGED <<disk, run, kind, overdue, rested, told, tried, gaveUp, torn, mishaps>>

\* disconnect and connect.
Toggle ==
    /\ Mishap /\ run' = [run EXCEPT !.enabled = ~@]
    /\ UNCHANGED <<disk, kind, server, overdue, rested, told, tried, gaveUp, torn>>

\* Mutant: receipts that were queued are not read back.
Nothing(queue) == FALSE
Reloaded(queue) == queue
\* The program dies, within a tick perhaps, and starts again.
Crash ==
    /\ Mishap
    /\ \/ UNCHANGED disk
       \/ /\ disk.path = "delivered" /\ disk.due
          /\ disk' = [disk EXCEPT !.receipt = TRUE]
    /\ run' = [Idle EXCEPT !.enabled = run.enabled, !.queue = Reloaded(disk'.receipt)]
    /\ torn' = (torn \/ run.at = "status") /\ rested' = TRUE
    /\ UNCHANGED <<kind, server, overdue, told, tried, gaveUp>>

Next ==
    \/ SendQueued \/ Leave \/ Again \/ Worker \/ Tick \/ Flush
    \/ Time \/ RadioEnds \/ ServerMoves \/ Toggle \/ Crash
Spec == Init /\ [][Next]_vars

\* The worker and the ticks run, requests time out, time passes.
Fairness ==
    /\ WF_vars(Worker) /\ WF_vars(Tick) /\ WF_vars(Flush)
    /\ WF_vars(Time) /\ WF_vars(RadioEnds)
FairSpec == Spec /\ Fairness

----------------------------------------------------------------------------
(* What the two ways promise together                                      *)

\* "Only a definitive rejection permits immediate RF fallback" (service.py, run):
\* a message goes by radio only if the server does not have it, or has left the
\* station in doubt for 90 seconds; neither an answer that stays out, a poll under
\* way, a restart nor a change of the connection opens the second way.  One
\* moment is excepted: a delivery that is known but not filed yet.
OneWayAtATime ==
    [][run'.session /\ ~run.session
         => server \notin {"accepted", "delivered"} \/ gaveUp'
            \/ torn \/ disk.path = "delivered"]_vars

\* Relayed mail the service has taken up does not get stuck between the two,
\* whatever the server answers, whenever it is switched off and wherever the
\* program dies; only mail whose refusal was the last thing written waits for
\* the automatic delivery, which needs its next hop heard.
RelayMovesOn ==
    (kind = "relay" /\ disk.path # "none")
        ~> (tried \/ server # "none" \/ (disk.path = "rejected" /\ ~run.preparing))

\* A receipt that is owed is handed to a radio in the end, also after a restart.
ReceiptIsGiven == (disk.due \/ disk.receipt) ~> told
=============================================================================
