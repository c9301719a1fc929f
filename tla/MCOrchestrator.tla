--------------------------- MODULE MCOrchestrator ---------------------------
(***************************************************************************)
(* Instances of Orchestrator for TLC: two stations in range of each other, *)
(* and a chain a - r - d with routes that are known, that come and go, or  *)
(* that only the origin looks for.                                         *)
(***************************************************************************)
EXTENDS Orchestrator

All(set, value) == [s \in set |-> value]
Both(edges) == edges \cup {<<e[2], e[1]>> : e \in edges}

Pair == {"a", "d"}
PairLink == Both({<<"a", "d">>})
PairHeard == All(Pair, {{"d"}})
PairNoBackup == All(Pair, NoStation)
PairNo == All(Pair, FALSE)
PairOff == All(Pair, "off")
PairAsks == [s \in Pair |-> IF s = "a" THEN "assisted" ELSE "off"]
PairUpgrade == [s \in Pair |-> IF s = "a" THEN {"G1T1", "G1T2", A500}
                               ELSE {NoToken, "G1T1", A500}]

Chain == {"a", "r", "d"}
ChainLink == Both({<<"a", "r">>, <<"r", "d">>})
ChainHeard == [s \in Chain |-> IF s = "a" THEN {{"r"}} ELSE {{"d"}}]
ChainNoBackup == All(Chain, NoStation)
ChainYes == All(Chain, TRUE)
ChainNo == All(Chain, FALSE)
ChainOff == All(Chain, "off")
ChainVara == All(Chain, {NoToken})

LiveHeard == [s \in Chain |-> IF s = "a" THEN {{}, {"r"}} ELSE {{}, {"d"}}]
AtOrigin(there, elsewhere) == [s \in Chain |-> IF s = "a" THEN there ELSE elsewhere]
OriginSearches == AtOrigin("automatic", "off")
OriginLooks == AtOrigin(TRUE, FALSE)
LiveBackup == [s \in Chain |-> IF s = "a" THEN AnyHop ELSE NoStation]
LiveDiscovery == [s \in Chain |-> IF s = "a" THEN "assisted"
                                  ELSE IF s = "r" THEN "automatic" ELSE "off"]
=============================================================================
