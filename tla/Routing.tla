------------------------------ MODULE Routing ------------------------------
(***************************************************************************)
(* What the discovery engines of the stations do: one query through a net, *)
(* which is Discovery, extended, and what one station keeps as routes to a *)
(* destination over time, and what is asked of these.                      *)
(***************************************************************************)
EXTENDS Discovery

CONSTANTS
    \* LiveRoutes
    Layout, Life

VARIABLES
    \* LiveRoutes
    link, known, asked, setup, layout

Live == INSTANCE LiveRoutes WITH Self <- Origin

\* discovery.py, derive_routes: live routes do not outlast what confirms them.
LiveRoutesAreCurrent == Live!LiveRoutesAreCurrent
\* discovery.py, approve: what the operator has approved stays approved.
ApprovalsStand == Live!ApprovalsStand
=============================================================================
