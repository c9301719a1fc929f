----------------------------- MODULE MCStation -----------------------------
(***************************************************************************)
(* Instances for TLC of two parts of a station that its threads share: the  *)
(* mailbox, which is extended, and the dial of the radio.  As in MCServices *)
(* a behaviour is one of the part chosen at the start.  Over the dial goes  *)
(* one message each way, with one sweep or scan and one error of the radio. *)
(***************************************************************************)
EXTENDS SharedState

VARIABLE part

\* What the radio is used for: messages sent and heard, sweeps, the scanner.
Sessions == {"mine", "theirs"}
Mine == {"mine"}
Channels == {"home", "route", "work"}
Away == [s \in Sessions |-> IF s = "mine" THEN "route" ELSE "work"]

ASSUME Radio!RadioAssumption

radio == <<split, dial, previous, session, thread, on, restoring, sweep, scanner,
           tasks, crossed, lost, count>>
parts == <<part, vars, radio>>

StationInit ==
    /\ part \in {"mail", "radio"} /\ Init /\ Radio!Init
    /\ part # "mail" => \A i \in Foreign : held[i] = Missing
    /\ part # "radio" => split

StationNext ==
    \/ part = "mail" /\ Next /\ UNCHANGED <<part, radio>>
    \/ part = "radio" /\ Radio!Next /\ UNCHANGED <<part, vars>>

StationSpec == StationInit /\ [][StationNext]_parts

\* A message is heard and an alert is swept, and nothing else.
SweptSpec ==
    /\ StationInit /\ part = "radio"
    /\ [][StationNext /\ session'["mine"] = "none" /\ UNCHANGED scanner]_parts
=============================================================================
