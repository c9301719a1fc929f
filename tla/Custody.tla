------------------------------ MODULE Custody ------------------------------
(***************************************************************************)
(* What store and forward promises about one message, whatever the radio   *)
(* does and however often stations repeat themselves: a station takes the  *)
(* message from another one that has it and keeps its copy for ever, it    *)
(* stops trying to send it only when another station has a copy, and a     *)
(* delivery is reported only when the destination has the message.         *)
(***************************************************************************)
CONSTANTS Station, Origin, Dest

VARIABLES
    holders,   \* stations with the message in some mailbox folder
    owners,    \* those whose copy waits to be sent, and the destination
    told       \* stations that report the message delivered

vars == <<holders, owners, told>>

Init == holders = {Origin} /\ owners = {Origin} /\ told = {}

\* A copy of the message is filed to be sent on, or to be read.
Accept(s) ==
    /\ holders \ {s} # {}
    /\ holders' = holders \cup {s} /\ owners' = owners \cup {s}

\* A station files its copy under Sent.
Release(s) ==
    /\ s # Dest /\ holders \ {s} # {}
    /\ owners' = owners \ {s} /\ UNCHANGED holders

\* What stations report may change; a new report is only made of the truth.
Report ==
    /\ told' \in SUBSET Station
    /\ told' \subseteq told \/ Dest \in owners'

Next ==
    /\ \/ \E s \in Station : Accept(s) \/ Release(s)
       \/ UNCHANGED <<holders, owners>>
    /\ Report

Spec == Init /\ [][Next]_vars

----------------------------------------------------------------------------
\* Who has to send or to show the message has it, and it is never lost.
Kept == owners \subseteq holders /\ Origin \in holders

\* While nobody else has the message its author still tries to send it.
AuthorTries == holders = {Origin} => Origin \in owners

\* A reported delivery is a delivery.
ReportsAreTrue == told # {} => Dest \in owners
=============================================================================
