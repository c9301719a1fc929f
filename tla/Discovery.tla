----------------------------- MODULE Discovery -----------------------------
(***************************************************************************)
(* One multi-hop route query of guardian/routing/discovery.py in a net of  *)
(* stations.  The origin floods an RREQ in rings of growing TTL.  Each     *)
(* station that hears it keeps a breadcrumb, the neighbour it heard the    *)
(* query from, and repeats the query once per improvement.  The target     *)
(* answers with an RREP that follows the breadcrumbs back; every station   *)
(* it passes learns a route to the target.                                 *)
(*                                                                         *)
(* The clock is left out: a scheduled frame, a settled reply or the end of *)
(* a ring may come at any moment, and a breadcrumb may expire at any       *)
(* moment, because the query is stretched with the airtime of the modem    *)
(* (operations.py, _scale_session_timeouts) and by payloads that suspend   *)
(* the control channel while DISCOVERY_MEMORY is fixed.  A frame refused   *)
(* by the airtime budget is one that nobody hears.                         *)
(***************************************************************************)
EXTENDS Naturals

CONSTANTS
    Node, NoNode, Origin, Target,
    Link,        \* <<a, b>>: b may hear what a transmits
    Order,       \* the callsigns in the order strings compare
    Forwarder,   \* stations that forward queries and relay messages
    Penalty,     \* what snr_penalty may make of one reception
    MaxTtl,      \* discovery_ttl of the origin
    Forgetful,   \* stations whose breadcrumb expires or whose audio is reopened
    Fickle       \* stations whose operator switches discovery off and on

ASSUME NodeAssumption ==
    /\ NoNode \notin Node
    /\ Origin \in Node /\ Target \in Node /\ Origin # Target
    /\ Link \subseteq Node \X Node
    /\ Order \in [Node -> Nat]
    /\ Forwarder \subseteq Node /\ Forgetful \subseteq Node /\ Fickle \subseteq Node

ASSUME MetricAssumption ==
    /\ Penalty \subseteq 0..3
    /\ MaxTtl \in 2..8

VARIABLES
    mode,      \* normalized discovery mode, per station
    crumb,     \* the breadcrumb of the query, per station
    sched,     \* _scheduled: frames waiting for their jitter, per station
    air,       \* frames heard and not yet handled
    query,     \* the origin's PendingQuery and how it ended
    routes,    \* metric of the route to the target via a neighbour, or 0
    forgot     \* stations that have lost a breadcrumb of this query

vars == <<mode, crumb, sched, air, query, routes, forgot>>

----------------------------------------------------------------------------
\* One nibble of the flags byte.
Nibble(n) == IF n > 15 THEN 15 ELSE n

AtLeastOne(n) == IF n < 1 THEN 1 ELSE n

\* DynamicRoute.metric of a route that has not failed yet.
Metric(hops, pen) == AtLeastOne(hops) * 16 + pen

Less(a, b) == IF a < b THEN 0 ELSE a - b

Frame == [type : {"RREQ", "RREP"}, src : Node, hop : Node,
          ttl : 1..15, hops : 0..15, pen : 0..15]

Rreq(src, ttl, hops, pen) ==
    [type |-> "RREQ", src |-> src, hop |-> Origin,
     ttl |-> ttl, hops |-> hops, pen |-> pen]

Rrep(src, hop, ttl, hops, pen) ==
    [type |-> "RREP", src |-> src, hop |-> hop,
     ttl |-> ttl, hops |-> hops, pen |-> pen]

Breadcrumb == [prev : Node \cup {NoNode}, hops : 0..15, pen : 0..15, ttl : 0..15]

NoCrumb == [prev |-> NoNode, hops |-> 0, pen |-> 0, ttl |-> 0]

Has(s) == crumb[s].prev # NoNode

Scheduled == [kind : {"RREQ", "RREP", "RREP-RETRY"}, frame : Frame]

Query == [state : {"idle", "asking", "settling", "found", "failed", "dropped"},
          ttl : 0..8, via : Node \cup {NoNode}, metric : Nat]

Pending == query.state \in {"asking", "settling"}

On(s) == mode[s] = "assisted"

Relays(s) == s \in Forwarder

\* Breadcrumb.rank: hops, then penalty, then the callsign of the neighbour.
Lower(a, b) ==
    \/ a.hops < b.hops
    \/ a.hops = b.hops /\ a.pen < b.pen
    \/ a.hops = b.hops /\ a.pen = b.pen /\ Order[a.prev] < Order[b.prev]

----------------------------------------------------------------------------
Init ==
    /\ mode = [s \in Node |-> "assisted"]
    /\ crumb = [s \in Node |-> NoCrumb]
    /\ sched = [s \in Node |-> {}]
    /\ air = {}
    /\ query = [state |-> "idle", ttl |-> 0, via |-> NoNode, metric |-> 0]
    /\ routes = [s \in Node |-> [n \in Node |-> 0]]
    /\ forgot = {}

\* Those in range that do more than ignore the frame: a reply is directed, and
\* the origin knows its own query.
Audience(f) ==
    {n \in Node : /\ <<f.src, n>> \in Link
                  /\ IF f.type = "RREP" THEN n = f.hop ELSE n # Origin}

\* Any of the audience may miss the frame, all of them when _transmit refuses it.
Heard(f) == {[to : hearers, frame : {f}] : hearers \in SUBSET Audience(f)}

----------------------------------------------------------------------------
\* The origin.

Ask(ttl) ==
    /\ query' = [query EXCEPT !.state = "asking", !.ttl = ttl]
    /\ \E new \in Heard(Rreq(Origin, ttl, 0, 0)) : air' = air \cup new

Start ==
    /\ query.state = "idle" /\ On(Origin)
    /\ Ask(2)
    /\ UNCHANGED <<mode, crumb, sched, routes, forgot>>

\* Mutant: the widest ring is asked for again.
ExpandForEver ==
    /\ query.state = "asking" /\ query.ttl <= MaxTtl
    /\ Ask(IF query.ttl + 2 > MaxTtl THEN MaxTtl ELSE query.ttl + 2)
    /\ UNCHANGED <<mode, crumb, sched, routes, forgot>>

\* The ring has gone unanswered: the next one is wider by two.
Expand ==
    /\ query.state = "asking" /\ query.ttl < MaxTtl
    /\ Ask(IF query.ttl + 2 > MaxTtl THEN MaxTtl ELSE query.ttl + 2)
    /\ UNCHANGED <<mode, crumb, sched, routes, forgot>>

Ended(outcome) == query' = [query EXCEPT !.state = outcome]

GiveUp ==
    /\ query.state = "asking" /\ query.ttl >= MaxTtl
    /\ Ended("failed")
    /\ UNCHANGED <<mode, crumb, sched, air, routes, forgot>>

Settle ==
    /\ query.state = "settling"
    /\ Ended("found")
    /\ UNCHANGED <<mode, crumb, sched, air, routes, forgot>>

----------------------------------------------------------------------------
\* A query is heard.

\* What the copy heard offers as a breadcrumb.
Candidate(f, snr) ==
    [prev |-> f.src, hops |-> Nibble(f.hops + 1), pen |-> Nibble(f.pen + snr),
     ttl |-> f.ttl]

\* Mutant: the breadcrumb is the last copy heard.
LastWins(s, c) == TRUE

Better(s, c) == ~Has(s) \/ Lower(c, crumb[s])

Expanded(s, c) == Has(s) /\ c.ttl > crumb[s].ttl

\* A better copy replaces the breadcrumb, a wider ring only refreshes it.
Kept(s, c) == IF Better(s, c) THEN c ELSE [crumb[s] EXCEPT !.ttl = c.ttl]

\* Mutant: the hop limit of the reply counts the relays, not the hops.
ReplyOneShort(s, c) == Rrep(s, c.prev, AtLeastOne(Less(c.hops, 1)), c.hops, c.pen)

Reply(s, c) == Rrep(s, c.prev, AtLeastOne(c.hops), c.hops, c.pen)

\* Mutant: the relay does not spend TTL.
FreeRelay(s, c, ttl) == Rreq(s, ttl, c.hops, c.pen)

Onward(s, c, ttl) == Rreq(s, ttl - 1, c.hops, c.pen)

\* _schedule replaces what waits for the same query; the target adds one repeat.
Reaction(s, c, ttl) ==
    IF s = Target
      THEN [kind : {"RREP", "RREP-RETRY"}, frame : {Reply(s, c)}]
    ELSE IF Relays(s) /\ ttl > 1
      THEN [kind : {"RREQ"}, frame : {Onward(s, c, ttl)}]
    ELSE sched[s]

Improves(s, c) == Better(s, c) \/ Expanded(s, c)

ReceiveRreq(s, f, snr) ==
    LET c == Candidate(f, snr) IN
    /\ IF Improves(s, c)
         THEN /\ crumb' = [crumb EXCEPT ![s] = Kept(s, c)]
              /\ sched' = [sched EXCEPT ![s] = Reaction(s, Kept(s, c), f.ttl)]
         ELSE UNCHANGED <<crumb, sched>>
    /\ UNCHANGED <<query, routes>>

----------------------------------------------------------------------------
\* A reply is heard by the station it names.

\* Mutant: only the origin remembers the route.
LearnAtOrigin(s, via, metric) ==
    routes' = IF s = Origin THEN [routes EXCEPT ![s][via] = metric] ELSE routes

Learn(s, via, metric) == routes' = [routes EXCEPT ![s][via] = metric]

Arrive(f) ==
    LET metric == Metric(f.hops, f.pen) IN
    /\ Learn(Origin, f.src, metric)
    /\ query' = IF query.state = "asking" \/ metric < query.metric
                  THEN [query EXCEPT !.state = "settling", !.via = f.src,
                                     !.metric = metric]
                  ELSE query

\* The part of the way that is left beyond the relay.
Remaining(s, f) ==
    Metric(Less(f.hops, crumb[s].hops), Less(f.pen, crumb[s].pen))

Passes(s, f) == Relays(s) /\ f.ttl > 1

Forwarded(s, f) == Rrep(s, crumb[s].prev, f.ttl - 1, f.hops, f.pen)

----------------------------------------------------------------------------
\* receive: a station that is off consumes the frame without a trace.
Ignored(s, f) ==
    \/ ~On(s)
    \/ f.type = "RREP" /\ IF s = Origin THEN ~Pending ELSE ~Has(s)

Receive(s) ==
    /\ \E m \in air :
        /\ m.to = s
        /\ LET f == m.frame IN
           \/ /\ Ignored(s, f)
              /\ air' = air \ {m}
              /\ UNCHANGED <<crumb, sched, query, routes>>
           \/ /\ ~Ignored(s, f) /\ f.type = "RREQ"
              /\ air' = air \ {m}
              /\ \E snr \in Penalty : ReceiveRreq(s, f, snr)
           \/ /\ ~Ignored(s, f) /\ f.type = "RREP" /\ s = Origin
              /\ air' = air \ {m}
              /\ Arrive(f)
              /\ UNCHANGED <<crumb, sched>>
           \/ /\ ~Ignored(s, f) /\ f.type = "RREP" /\ s # Origin
              /\ Learn(s, f.src, Remaining(s, f))
              /\ IF Passes(s, f)
                   THEN \E new \in Heard(Forwarded(s, f)) : air' = (air \ {m}) \cup new
                   ELSE air' = air \ {m}
              /\ UNCHANGED <<crumb, sched, query>>
    /\ UNCHANGED <<mode, forgot>>

\* Mutant: a frame that was due stays scheduled.
TransmitAgain(s) ==
    /\ \E item \in sched[s] : \E new \in Heard(item.frame) : air' = air \cup new
    /\ UNCHANGED <<mode, crumb, sched, query, routes, forgot>>

\* The jitter of a scheduled frame has passed.
Transmit(s) ==
    /\ \E item \in sched[s] :
        /\ sched' = [sched EXCEPT ![s] = @ \ {item}]
        /\ \E new \in Heard(item.frame) : air' = air \cup new
    /\ UNCHANGED <<mode, crumb, query, routes, forgot>>

----------------------------------------------------------------------------
\* What happens to a station meanwhile.

\* _prune: the breadcrumb is older than DISCOVERY_MEMORY.
Expire(s) ==
    /\ s \in Forgetful /\ Has(s)
    /\ crumb' = [crumb EXCEPT ![s] = NoCrumb]
    /\ forgot' = forgot \cup {s}
    /\ UNCHANGED <<mode, sched, air, query, routes>>

\* A new engine takes over the routes learned, and nothing that was under way.
Reopen(s) ==
    /\ s \in Forgetful
    /\ Has(s) \/ sched[s] # {} \/ (s = Origin /\ Pending)
    /\ crumb' = [crumb EXCEPT ![s] = NoCrumb]
    /\ sched' = [sched EXCEPT ![s] = {}]
    /\ forgot' = forgot \cup {s}
    /\ IF s = Origin /\ Pending THEN Ended("dropped") ELSE UNCHANGED query
    /\ UNCHANGED <<mode, air, routes>>

SwitchOff(s) ==
    /\ s \in Fickle /\ On(s)
    /\ mode' = [mode EXCEPT ![s] = "off"]
    /\ sched' = [sched EXCEPT ![s] = {}]
    /\ IF s = Origin /\ Pending THEN Ended("failed") ELSE UNCHANGED query
    /\ UNCHANGED <<crumb, air, routes, forgot>>

SwitchOn(s) ==
    /\ s \in Fickle /\ ~On(s)
    /\ mode' = [mode EXCEPT ![s] = "assisted"]
    /\ UNCHANGED <<crumb, sched, air, query, routes, forgot>>

Deadline == Expand \/ GiveUp \/ Settle

Next ==
    \/ Start \/ Deadline
    \/ \E s \in Node :
        Receive(s) \/ Transmit(s) \/ Expire(s) \/ Reopen(s) \/ SwitchOff(s) \/ SwitchOn(s)

Spec == Init /\ [][Next]_vars

\* Stations go on ticking and pumping, and deadlines pass.
FairSpec ==
    /\ Spec
    /\ WF_vars(Deadline)
    /\ \A s \in Node : WF_vars(Receive(s)) /\ WF_vars(Transmit(s))

----------------------------------------------------------------------------
TypeOK ==
    /\ mode \in [Node -> {"assisted", "off"}]
    /\ crumb \in [Node -> Breadcrumb]
    /\ sched \in [Node -> SUBSET Scheduled]
    /\ air \in SUBSET [to : Node, frame : Frame]
    /\ query \in Query
    /\ routes \in [Node -> [Node -> Nat]]
    /\ forgot \in SUBSET Node

\* Breadcrumbs lead back to the origin: each points to a station nearer to it,
\* so that they form no loop, whatever better copies and wider rings replaced
\* meanwhile.  Only a station that has lost its breadcrumb breaks the chain.
BreadcrumbsLeadBack ==
    \A s \in Node : Has(s) =>
        LET p == crumb[s].prev IN
        p = Origin \/ p \in forgot \/ (Has(p) /\ crumb[p].hops < crumb[s].hops)

\* A reply on its way always has hop limit left for the breadcrumbs before it,
\* although these may have been replaced since the target counted them.
RepliesComeHome ==
    forgot = {} => \A m \in air :
        m.frame.type = "RREP" /\ m.to # Origin
            => Has(m.to) /\ crumb[m.to].hops < m.frame.ttl

\* A learned route is a proven return path: both ends of its first hop have
\* heard each other, and that neighbour can itself go on towards the target.
RoutesAreProven ==
    \A s, n \in Node : routes[s][n] # 0 =>
        /\ <<s, n>> \in Link /\ <<n, s>> \in Link
        /\ n = Target \/ \E k \in Node : routes[n][k] # 0

\* The TTL of the ring bounds the routes it finds, and neither nibble of the
\* metric has overflowed on the way.
RingBoundsRoutes ==
    \A n \in Node : routes[Origin][n] < (query.ttl + 1) * 16

\* The flood dies out: TTL and deduplication end every loop of it.
FloodEnds == <>[](air = {} /\ \A s \in Node : sched[s] = {})

\* A query that was started is answered or given up.
QueryEnds == query.state = "asking" ~> ~Pending
=============================================================================
