----------------------------- MODULE MCDirected -----------------------------
(***************************************************************************)
(* The instances of MCOrchestrator whose routes lead somewhere.  They      *)
(* satisfy the hypotheses of MessageIsOwned and HopsArePaid, the theorems  *)
(* of OrchestratorProofs about who keeps the message and what its hops     *)
(* cost, and those of two stations satisfy the hypothesis of               *)
(* HandoffIsSettled and ListenersAreHeard.                                 *)
(***************************************************************************)
EXTENDS MCOrchestrator, FiniteSets

Upto == 0..Cardinality(Station)

\* Every next hop is closer to the destination, and all ways are equally long.
ASSUME NetLeadsHome == \E distance \in [Station -> Upto] : Approaches(distance)
ASSUME WaysAreLevel == \E level \in [Station -> Upto] : level \in Levels

\* A net of two stations is a net of one hop.
ASSUME PairIsOneHop == Cardinality(Station) = 2 => OneHopNet
=============================================================================
