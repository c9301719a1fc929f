----------------------------- MODULE LiveRoutes -----------------------------
(***************************************************************************)
(* What one station's discovery engine (routing/discovery.py) knows of the *)
(* ways to one destination: routes learned from replies to a query, kept as *)
(* long as they prove good, and routes derived from link adverts, in which *)
(* stations say whom they hear; these need every link of a way confirmed   *)
(* from both its ends.  Mail of the station's own only goes by routes that *)
(* are approved, by the operator or, in automatic use, by the station.     *)
(*                                                                         *)
(* Evidence ages: a lifetime is counted in Life steps of the clock.  The   *)
(* rank of routes is left out, so that any of several may be the best.     *)
(***************************************************************************)
EXTENDS Naturals, FiniteSets, SequencesExt

CONSTANTS Self, Target,
          Layout,    \* nets that may lie between them: the ways through them, as
                     \* sequences of stations, and neighbours replies come from
          Life       \* DEFAULT_ROUTE_LIFETIME, in steps of the clock

LiveAssumption ==
    /\ Self # Target /\ Life \in Nat \ {0}
    /\ \A net \in Layout : \A way \in net.ways :
        /\ Len(way) \in Nat \ {0, 1} /\ IsInjective(way)
        /\ way[1] = Self /\ way[Len(way)] = Target

VARIABLES
    link,     \* live_topology: how long <<a, b>>, "a hears b", is still believed
    known,    \* the routes to Target; those with no time left are only shown
    asked,    \* the query: "none", "waiting" or "found"
    setup,    \* settings
    layout    \* the net, which stays as it is

vars == <<link, known, asked, setup, layout>>

Way == layout.ways
Replier == layout.repliers

Hops(way) == {<<way[i], way[i + 1]>> : i \in 1..(Len(way) - 1)}
Hears == UNION {Hops(way) \cup Hops(Reverse(way)) : way \in Way}
Fresh(life) == [life |-> life, by |-> "nobody", failed |-> FALSE]
Advert(h) == <<"link-advert", h>>
Rreq(h) == <<"rreq", h>>
AutoUse(set) == set.auto /\ set.assisted

Init ==
    /\ layout \in Layout /\ link = [l \in Hears |-> 0]
    /\ known = <<>> /\ asked = "none"
    /\ setup \in [assisted : {TRUE}, auto : BOOLEAN, adverts : {TRUE}]

Active(rs) == {k \in DOMAIN rs : rs[k].life > 0}
Adverts(rs) == {k \in DOMAIN rs : k[1] = "link-advert"}
Without(rs, ks) == [k \in DOMAIN rs \ ks |-> rs[k]]

----------------------------------------------------------------------------
(* LiveTopologyStore: the ways that are confirmed in both directions       *)

Lasts(ls, way) == Min({ls[l] : l \in Hops(way) \cup Hops(Reverse(way))})
\* The ways that are confirmed now.
Confirmed(ls) == {way \in Way : Lasts(ls, way) > 0}
Through(ways, h) == {way \in ways : way[2] = h}

\* Mutant: a derived route lasts as long as any other.
FullLife(ls, way) == Life
Evidence(ls, way) == Lasts(ls, way)

\* Mutant: a route that was approved is approved automatically.
ByStation(old, auto) ==
    IF auto \/ (old.life > 0 /\ old.by # "nobody") THEN "station" ELSE "nobody"
\* replace_source: approvals of routes still in force are preserved.
Approval(old, auto) ==
    IF old.life > 0 /\ old.by = "operator" THEN "operator"
    ELSE IF auto THEN "station"
    ELSE IF old.life > 0 THEN old.by ELSE "nobody"

Old(rs, k) == IF k \in DOMAIN rs THEN rs[k] ELSE Fresh(0)
\* _rebuild_live_routes: the best way through each first hop.
Derived(rs, ls, h, life) ==
    [Fresh(life) EXCEPT !.by = Approval(Old(rs, Advert(h)), AutoUse(setup))]
Rebuild(rs, ls) ==
    LET hops == {way[2] : way \in Confirmed(ls)} IN
    \E best \in {f \in [hops -> Confirmed(ls)] : \A h \in hops : f[h][2] = h} :
        /\ link' = ls
        /\ known' = [k \in (DOMAIN rs \ Adverts(rs)) \cup {Advert(h) : h \in hops} |->
                       IF k[1] = "rreq" THEN rs[k]
                       ELSE Derived(rs, ls, k[2], Evidence(ls, best[k[2]]))]

Record(heard) == [l \in DOMAIN link |-> IF l \in heard THEN Life ELSE link[l]]

\* _receive_link_advert: one neighbour of one station.
HearAdvert ==
    /\ setup.assisted /\ setup.adverts
    /\ \E l \in DOMAIN link : l[1] # Self /\ Rebuild(known, Record({l}))
    /\ UNCHANGED <<asked, setup>>

\* advertise_neighbors: those the station has heard itself.
Advertise ==
    /\ setup.assisted /\ setup.adverts
    /\ \E ls \in SUBSET {l \in DOMAIN link : l[1] = Self} :
         ls # {} /\ Rebuild(known, Record(ls))
    /\ UNCHANGED <<asked, setup>>

\* _prune: links that lapsed some time ago are forgotten.
PruneLinks ==
    /\ \E l \in DOMAIN link : link[l] = 0
    /\ Rebuild(known, link)
    /\ UNCHANGED <<asked, setup>>

----------------------------------------------------------------------------
(* DynamicRouteStore, and who may approve                                  *)

Set(rs, k, r) == [j \in DOMAIN rs \cup {k} |-> IF j = k THEN r ELSE rs[j]]

\* learn: a route that is still in force keeps its approval and its failures.
Learned(h) ==
    LET old == Old(known, Rreq(h)) IN
    Set(known, Rreq(h), IF old.life > 0 THEN [old EXCEPT !.life = Life] ELSE Fresh(Life))

\* _sync_auto_approvals
Synced(rs, set) ==
    [k \in DOMAIN rs |->
        IF AutoUse(set) /\ rs[k].life > 0 /\ ~rs[k].failed
        THEN IF rs[k].by = "nobody" THEN [rs[k] EXCEPT !.by = "station"] ELSE rs[k]
        ELSE IF rs[k].by = "station" THEN [rs[k] EXCEPT !.by = "nobody"] ELSE rs[k]]

\* approve: the best route, and no other, wherever it came from.
Approved(rs, k, by) ==
    [j \in DOMAIN rs |-> [rs[j] EXCEPT !.by = IF j = k THEN by ELSE "nobody"]]

\* start, and a query that ends without a reply.
Ask ==
    /\ asked = "none" /\ setup.assisted /\ asked' = "waiting"
    /\ UNCHANGED <<link, known, setup>>

GiveUp ==
    /\ asked = "waiting" /\ asked' = "none"
    /\ UNCHANGED <<link, known, setup>>

\* _receive_rrep at the origin of the query, and at a relay.
Reply(h) ==
    /\ setup.assisted /\ asked # "none"
    /\ known' = Learned(h) /\ asked' = "found"
    /\ UNCHANGED <<link, setup>>

RelayReply(h) ==
    /\ setup.assisted
    /\ known' = Synced(Learned(h), setup)
    /\ UNCHANGED <<link, asked, setup>>

\* tick, once the time for more replies has passed.
Settle ==
    /\ asked = "found" /\ asked' = "none"
    /\ IF AutoUse(setup) /\ Active(known) # {}
       THEN \E k \in Active(known) : known' = Approved(known, k, "station")
       ELSE UNCHANGED known
    /\ UNCHANGED <<link, setup>>

Approve ==
    /\ \E k \in Active(known) : known' = Approved(known, k, "operator")
    /\ UNCHANGED <<link, asked, setup>>

\* A session over h has had its confirmation, or has failed.
Success(h) ==
    /\ known' = [k \in DOMAIN known |->
                   IF k = Rreq(h) THEN [known[k] EXCEPT !.life = Life, !.failed = FALSE]
                   ELSE known[k]]
    /\ UNCHANGED <<link, asked, setup>>

Failure(h) ==
    /\ known' = [k \in DOMAIN known |->
                   IF k = Rreq(h) THEN [known[k] EXCEPT !.by = "nobody", !.failed = TRUE]
                   ELSE known[k]]
    /\ UNCHANGED <<link, asked, setup>>

----------------------------------------------------------------------------
(* The clock and the operator                                              *)

Older(n) == IF n > 0 THEN n - 1 ELSE 0
Time ==
    /\ link' = [l \in DOMAIN link |-> Older(link[l])]
    /\ known' = [k \in DOMAIN known |-> [known[k] EXCEPT !.life = Older(@)]]
    /\ UNCHANGED <<asked, setup>>

\* Routes without time left disappear from view.
PruneRoutes ==
    /\ \E k \in DOMAIN known \ Active(known) : known' = Without(known, {k})
    /\ UNCHANGED <<link, asked, setup>>

ClearRoutes ==
    /\ known' = <<>>
    /\ UNCHANGED <<link, asked, setup>>

Unheard == [l \in DOMAIN link |-> 0]
ClearTopology ==
    /\ link' = Unheard /\ known' = Without(known, Adverts(known))
    /\ UNCHANGED <<asked, setup>>

\* configure: switching assisted mode off cancels queries, switching adverts off
\* forgets what they said.
Configure ==
    \E new \in [assisted : BOOLEAN, auto : BOOLEAN, adverts : BOOLEAN] :
        LET off == setup.adverts /\ ~new.adverts
            left == IF off THEN Without(known, Adverts(known)) ELSE known
        IN /\ setup' = new
           /\ asked' = IF setup.assisted /\ ~new.assisted THEN "none" ELSE asked
           /\ link' = IF off THEN Unheard ELSE link
           /\ known' = Synced(left, new)

\* retain_observations: a new engine, when the control channel is opened anew.
Reopen ==
    /\ asked' = "none" /\ known' = Synced(known, setup)
    /\ UNCHANGED <<link, setup>>

Step ==
    \/ HearAdvert \/ Advertise \/ PruneLinks \/ Ask \/ GiveUp \/ Settle \/ Approve
    \/ \E h \in Replier : Reply(h) \/ RelayReply(h) \/ Success(h) \/ Failure(h)
    \/ Time \/ PruneRoutes \/ ClearRoutes \/ ClearTopology \/ Configure \/ Reopen
Next == Step /\ UNCHANGED layout

Spec == Init /\ [][Next]_vars

----------------------------------------------------------------------------
\* A route derived from adverts is offered only while all links of some way through
\* that hop are confirmed from both sides (derive_routes), whatever is heard again,
\* forgotten, cleared or switched off in the meantime.
LiveRoutesAreCurrent ==
    \A k \in Adverts(known) \cap Active(known) :
        \E way \in Through(Way, k[2]) : known[k].life <= Lasts(link, way)

\* "Turning the flag or Assisted mode off removes only automatic approvals" (STATUS.md).
\* What the operator has approved stays approved, through adverts, replies, settings
\* and a new engine, until it lapses, fails or is cleared, the operator approves
\* another, or a query of the station's own ends in automatic use; what the station
\* has approved does not outlast automatic use.
Stands(k) ==
    \/ k \in Active(known') /\ known'[k].by = "operator"
    \/ k \in Active(known') /\ known'[k].failed
    \/ k \in DOMAIN known' \ Active(known')
    \/ known' = <<>> \/ (k[1] = "link-advert" /\ Through(Confirmed(link'), k[2]) = {})
    \/ \E j \in DOMAIN known' : known'[j].by = "operator"
    \/ asked = "found" /\ asked' = "none"
ApprovalStep ==
    /\ \A k \in Active(known) : known[k].by = "operator" => Stands(k)
    /\ \A k \in DOMAIN known' : known'[k].by = "station" => AutoUse(setup')
ApprovalsStand == [][ApprovalStep]_vars
=============================================================================
