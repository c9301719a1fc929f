----------------------------- MODULE MCServices -----------------------------
(***************************************************************************)
(* Instances for TLC of the parts of a station that work beside its session *)
(* orchestrator.  They share no state in these models, so one run checks    *)
(* them one after the other: a behaviour is one of the part chosen at the   *)
(* start, while the variables of the others keep their initial values.      *)
(*                                                                         *)
(* The values the .cfg files give: a link with three blocks, windows of two *)
(* and trains of single blocks; two crashes, failed writes, repetitions or  *)
(* changes of the server's connection; a board of two cells with one ship   *)
(* each; a chain of three stations whose ends send one alert each, or one   *)
(* sends two; two calibrations; two equal announcements, a shot and the     *)
(* identifier in the transmit queue.                                       *)
(***************************************************************************)
EXTENDS Services

VARIABLE part

Both(edges) == edges \cup {<<e[2], e[1]>> : e \in edges}

Players == {"a", "b"}
Cells == {1, 2}
OneShip == [p \in Players |-> {{1}}]

Line == {"a", "b", "c"}
LineHears == Both({<<"a", "b">>, <<"b", "c">>})
LineEnds == {"a", "c"}

Two == {"a", "b"}
OneTrusts == {"b"}

Frames == {"have", "again", "shot", "id"}
Kinds == [f \in Frames |->
            CASE f = "shot" -> "shot" [] f = "id" -> "morse" [] OTHER -> "request"]
Contents == [f \in Frames |-> IF f = "again" THEN "have" ELSE f]

ASSUME /\ Link!LinkAssumption /\ HandoffAssumption
       /\ Flood!AlertAssumption /\ Audio!AudioAssumption /\ Lab!LabAssumption
       /\ Game!GameAssumption

link == <<mode, patient, ended, spc, first, window, pending, unsent, attempt,
          rpc, started, held, rounds, toR, toS, losses>>
path == <<kind, disk, run, server, overdue, rested, given, tried, gaveUp, torn,
          troubles>>
warships == <<game, sent, done, inbox, errors, resigned>>
flood == <<counter, seen, queue, alerts, reopens, shown, heard>>
tuning == <<lab, tx, rx, air, offered, mishaps, reported, agreed>>
sending == <<place, filed, carried, withdrawn, suspended, shut, failed, payload,
             answers, aired>>
parts == <<part, link, vars, path, warships, flood, tuning, sending>>

PartsInit ==
    /\ part \in {"link", "handoff", "server", "game", "alerts", "lab", "audio"}
    /\ Link!Init /\ Init /\ Server!Init /\ Game!Init
    /\ Flood!Init /\ Lab!Init /\ Audio!Init
    /\ part # "link" => mode = "superframe" /\ patient
    /\ part # "server" => kind = "own"

PartsNext ==
    \/ /\ part = "link" /\ Link!Next
       /\ UNCHANGED <<part, vars, path, warships, flood, tuning, sending>>
    \/ /\ part = "handoff" /\ Next
       /\ UNCHANGED <<part, link, path, warships, flood, tuning, sending>>
    \/ /\ part = "server" /\ Server!Next
       /\ UNCHANGED <<part, link, vars, warships, flood, tuning, sending>>
    \/ /\ part = "game" /\ Game!Next
       /\ UNCHANGED <<part, link, vars, path, flood, tuning, sending>>
    \/ /\ part = "alerts" /\ Flood!Next
       /\ UNCHANGED <<part, link, vars, path, warships, tuning, sending>>
    \/ /\ part = "lab" /\ Lab!Next
       /\ UNCHANGED <<part, link, vars, path, warships, flood, sending>>
    \/ /\ part = "audio" /\ Audio!Next
       /\ UNCHANGED <<part, link, vars, path, warships, flood, tuning>>

PartsSpec == PartsInit /\ [][PartsNext]_parts

\* Some questions are asked of one part alone.
AlertSpec == PartsInit /\ part = "alerts" /\ [][PartsNext]_parts

----------------------------------------------------------------------------
(* The properties, as stated in the modules.  The temporal ones assume the *)
(* fairness of their own part: where another part runs it is not given.    *)

\* link.py: both ends of a transfer come to an end.
LinkEnds == part = "link" /\ Link!Fairness => Link!LinkEnds
\* operations.py, _tick_payload_handoff: control gets the radio back.
RadioComesBack == part = "handoff" /\ Fairness => ControlComesBack
\* ardos_cz/service.py, tick: relayed mail is not left between the two ways.
RelayMovesOn == part = "server" /\ Server!Fairness => Server!RelayMovesOn
\* multi_radio.py, flush_receipts: receipts that are owed are sent.
ReceiptIsGiven == part = "server" /\ Server!Fairness => Server!ReceiptIsGiven
\* orchestrator.py, _tick_alerts: the flood of an alert dies out.
AlertsEnd == part = "alerts" /\ Flood!Fairness => Flood!AlertsEnd
\* operations.py, _tick_station_calibration: not both wait for the other.
NoMutualWait == part = "lab" /\ Lab!Fairness => Lab!NoMutualWait
=============================================================================
