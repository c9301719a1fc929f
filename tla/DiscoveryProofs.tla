-------------------------- MODULE DiscoveryProofs --------------------------
(***************************************************************************)
(* Proofs about Discovery for every net, every callsign order, every set   *)
(* of relays and every TTL the configuration allows.  None of the safety   *)
(* properties is inductive: what a station stores and learns rests on      *)
(* frames that may have been on their way for long.  IInv says of every    *)
(* such frame what it promises: a query has paid for its hops out of the   *)
(* TTL of the ring, and the stations it and a reply name have a way back   *)
(* to the origin.  These promises keep, because a breadcrumb is only ever  *)
(* replaced by one with as few hops, rings only grow and routes stay.      *)
(* The routes one station derives from adverts, and what its operator has  *)
(* approved, come at the end (LiveRoutes, as Routing instantiates it).     *)
(***************************************************************************)
EXTENDS Routing, Integers, Sequences, WellFoundedInduction, TLAPS

\* A station p is on the way back at h hops: it has a breadcrumb as good as that,
\* is the origin itself, or has lost its breadcrumb.
Leads(p, h) ==
    \/ p = Origin \/ p \in forgot
    \/ Has(p) /\ crumb[p].hops <= h

\* A query on its way has paid for its hops out of the TTL of the ring.
GoodRreq(f) ==
    /\ f.hop = Origin
    /\ f.hops + f.ttl <= query.ttl
    /\ Leads(f.src, f.hops)

\* A reply on its way comes over a proven link and has hop limit for the rest.
GoodRrep(f) ==
    /\ f.hops \in 1..query.ttl
    /\ <<f.hop, f.src>> \in Link
    /\ f.src = Target \/ \E k \in Node : routes[f.src][k] # 0
    /\ forgot = {} => Leads(f.hop, f.ttl - 1)

GoodFrame(f) ==
    /\ f \in Frame
    /\ f.type = "RREQ" => GoodRreq(f)
    /\ f.type = "RREP" => GoodRrep(f)

QueryInv ==
    /\ query \in Query
    /\ query.ttl <= MaxTtl
    /\ query.state = "idle" => query.ttl = 0

\* A breadcrumb of s was left by a neighbour on the way back.
GoodCrumb(s) ==
    /\ s # Origin
    /\ crumb[s].prev \in Node
    /\ crumb[s].hops \in 1..query.ttl
    /\ <<crumb[s].prev, s>> \in Link
    /\ Leads(crumb[s].prev, crumb[s].hops - 1)

CrumbInv ==
    /\ crumb \in [Node -> Breadcrumb]
    /\ \A s \in Node : Has(s) => GoodCrumb(s)

SchedInv ==
    /\ sched \in [Node -> SUBSET Scheduled]
    /\ \A s \in Node : \A item \in sched[s] :
        item.frame.src = s /\ GoodFrame(item.frame)

AirInv ==
    /\ air \in SUBSET [to : Node, frame : Frame]
    /\ \A m \in air : m.to \in Audience(m.frame) /\ GoodFrame(m.frame)

RoutesInv ==
    /\ routes \in [Node -> [Node -> Nat]]
    /\ RoutesAreProven
    /\ RingBoundsRoutes

RestInv ==
    /\ mode \in [Node -> {"assisted", "off"}]
    /\ forgot \in SUBSET Node

IInv == QueryInv /\ CrumbInv /\ SchedInv /\ AirInv /\ RoutesInv /\ RestInv

----------------------------------------------------------------------------
\* What no step takes back.
Advance ==
    /\ forgot \subseteq forgot'
    /\ query.ttl <= query'.ttl
    /\ \A p \in Node : \A h \in Int : Leads(p, h) => Leads(p, h)'
    /\ \A s, n \in Node : routes[s][n] # 0 => routes'[s][n] # 0

\* A frame keeps its promises as the net advances.
LEMMA FrameStays ==
    ASSUME IInv, QueryInv', Advance, NEW f, GoodFrame(f)
    PROVE  GoodFrame(f)'
<1>1. /\ f \in Frame /\ f.hops \in Int /\ f.ttl \in Int /\ f.src \in Node /\ f.hop \in Node
      /\ query.ttl \in Int /\ query'.ttl \in Int
  BY DEF GoodFrame, Frame, IInv, QueryInv, Query
<1>2. CASE f.type = "RREQ"
  <2>1. GoodRreq(f)' BY <1>1, <1>2 DEF GoodFrame, GoodRreq, Advance
  <2> QED BY <1>1, <1>2, <2>1 DEF GoodFrame
<1>3. CASE f.type = "RREP"
  <2>1. GoodRrep(f) BY <1>3 DEF GoodFrame
  <2>2. f.hops \in 1..query'.ttl BY <1>1, <2>1 DEF GoodRrep, Advance
  <2>3. f.src = Target \/ \E k \in Node : routes'[f.src][k] # 0
    BY <1>1, <2>1 DEF GoodRrep, Advance
  <2>4. forgot' = {} => Leads(f.hop, f.ttl - 1)'
    <3>1. f.ttl - 1 \in Int BY <1>1
    <3>2. forgot' = {} => forgot = {} BY DEF Advance
    <3> QED BY <1>1, <2>1, <3>1, <3>2 DEF GoodRrep, Advance
  <2>5. GoodRrep(f)' BY <2>1, <2>2, <2>3, <2>4 DEF GoodRrep
  <2> QED BY <1>1, <1>3, <2>5 DEF GoodFrame
<1> QED BY <1>1, <1>2, <1>3 DEF GoodFrame, Frame

\* Breadcrumbs that are kept or dropped go on leading back.
LEMMA CrumbsStay ==
    ASSUME IInv, QueryInv', Advance, crumb' \in [Node -> Breadcrumb],
           \A s \in Node : crumb'[s] = crumb[s] \/ crumb'[s].prev = NoNode
    PROVE  CrumbInv'
<1> SUFFICES ASSUME NEW s \in Node, Has(s)'
             PROVE  GoodCrumb(s)'
  BY DEF CrumbInv
<1>1. crumb'[s] = crumb[s] /\ Has(s) BY DEF Has
<1>2. GoodCrumb(s) BY <1>1 DEF IInv, CrumbInv
<1>3. /\ crumb[s].hops - 1 \in Int /\ crumb[s].hops \in Int /\ crumb[s].prev \in Node
      /\ query.ttl \in Int /\ query'.ttl \in Int /\ query.ttl <= query'.ttl
  BY <1>2 DEF GoodCrumb, IInv, QueryInv, Query, Advance
<1>4. Leads(crumb[s].prev, crumb[s].hops - 1)'
  <2>1. \A h \in Int : Leads(crumb[s].prev, h) => Leads(crumb[s].prev, h)'
    BY <1>1, <1>3 DEF Advance
  <2> QED BY <1>1, <1>2, <1>3, <2>1 DEF GoodCrumb, Leads
<1> QED BY <1>1, <1>2, <1>3, <1>4 DEF GoodCrumb

\* What stays scheduled, and what is heard of good frames, is good.
LEMMA SchedStays ==
    ASSUME IInv, QueryInv', Advance, sched' \in [Node -> SUBSET Scheduled],
           \A s \in Node : sched'[s] \subseteq sched[s]
    PROVE  SchedInv'
BY FrameStays DEF SchedInv, IInv

LEMMA AirStays ==
    ASSUME IInv, QueryInv', Advance,
           \A m \in air' : m \in air \/ \E f : GoodFrame(f)' /\ \E new \in Heard(f) : m \in new
    PROVE  AirInv'
<1> SUFFICES ASSUME NEW m \in air'
             PROVE  /\ m \in [to : Node, frame : Frame]
                    /\ m.to \in Audience(m.frame) /\ GoodFrame(m.frame)'
  BY DEF AirInv, Audience
<1>1. CASE m \in air BY <1>1, FrameStays DEF IInv, AirInv
<1>2. CASE \E f : GoodFrame(f)' /\ \E new \in Heard(f) : m \in new
  <2>1. PICK f : GoodFrame(f)' /\ \E new \in Heard(f) : m \in new BY <1>2
  <2>2. PICK hearers \in SUBSET Audience(f) : m \in [to : hearers, frame : {f}]
    BY <2>1 DEF Heard
  <2>3. m.to \in Audience(f) /\ m.frame = f /\ m = [to |-> m.to, frame |-> f] BY <2>2
  <2>4. f \in Frame BY <2>1 DEF GoodFrame
  <2> QED BY <2>1, <2>3, <2>4 DEF Audience
<1> QED BY <1>1, <1>2

LEMMA RoutesStay ==
    ASSUME IInv, QueryInv', Advance, routes' = routes
    PROVE  RoutesInv'
<1>1. query.ttl \in Int /\ query'.ttl \in Int /\ query.ttl <= query'.ttl
  BY DEF IInv, QueryInv, Query, Advance
<1>2. RoutesAreProven' BY DEF IInv, RoutesInv, RoutesAreProven
<1>3. RingBoundsRoutes'
  <2> SUFFICES ASSUME NEW n \in Node PROVE routes'[Origin][n] < (query'.ttl + 1) * 16
    BY DEF RingBoundsRoutes
  <2>1. routes[Origin][n] \in Int BY NodeAssumption DEF IInv, RoutesInv
  <2> QED BY <1>1, <2>1 DEF IInv, RoutesInv, RingBoundsRoutes
<1> QED BY <1>2, <1>3 DEF RoutesInv, IInv

\* A step that leaves breadcrumbs and routes alone advances with the ring.
LEMMA QuietAdvance ==
    ASSUME IInv, UNCHANGED <<crumb, routes, forgot>>, query.ttl <= query'.ttl
    PROVE  Advance
BY DEF Advance, Leads, Has

\* A step of which only the frames matter: nothing is stored that was not there.
LEMMA FramesOnly ==
    ASSUME IInv, QueryInv', query.ttl <= query'.ttl,
           UNCHANGED <<crumb, routes, forgot>>,
           mode' \in [Node -> {"assisted", "off"}],
           sched' \in [Node -> SUBSET Scheduled],
           \A s \in Node : sched'[s] \subseteq sched[s],
           \A m \in air' : m \in air \/ \E f : GoodFrame(f)' /\ \E new \in Heard(f) : m \in new
    PROVE  IInv'
<1>1. Advance BY QuietAdvance
<1>2. CrumbInv'
  <2>1. crumb' \in [Node -> Breadcrumb] BY DEF IInv, CrumbInv
  <2>2. \A s \in Node : crumb'[s] = crumb[s] OBVIOUS
  <2> QED BY <1>1, <2>1, <2>2, CrumbsStay
<1>3. SchedInv' BY <1>1, SchedStays
<1>4. AirInv' BY <1>1, AirStays
<1>5. RoutesInv' BY <1>1, RoutesStay
<1>6. RestInv' BY DEF IInv, RestInv
<1> QED BY <1>2, <1>3, <1>4, <1>5, <1>6 DEF IInv

\* A ring starts with a good frame.
LEMMA AskKeeps ==
    ASSUME IInv, NEW ttl \in 2..MaxTtl, query.ttl <= ttl, Ask(ttl),
           UNCHANGED <<mode, crumb, sched, routes, forgot>>
    PROVE  IInv'
<1>1. QueryInv' /\ query'.ttl = ttl
  <2>1. query' = [query EXCEPT !.state = "asking", !.ttl = ttl] BY DEF Ask
  <2>2. query \in Query /\ ttl \in 0..8 /\ ttl <= MaxTtl
    BY MetricAssumption DEF IInv, QueryInv
  <2> QED BY <2>1, <2>2 DEF QueryInv, Query
<1>2. GoodFrame(Rreq(Origin, ttl, 0, 0))'
  BY <1>1, NodeAssumption, MetricAssumption
     DEF GoodFrame, GoodRreq, Rreq, Frame, Leads
<1>3. \A m \in air' : m \in air \/ \E f : GoodFrame(f)' /\ \E new \in Heard(f) : m \in new
  <2>1. PICK new \in Heard(Rreq(Origin, ttl, 0, 0)) : air' = air \cup new BY DEF Ask
  <2> QED BY <1>2, <2>1
<1>4. sched' \in [Node -> SUBSET Scheduled] /\ mode' \in [Node -> {"assisted", "off"}]
  BY DEF IInv, SchedInv, RestInv
<1> QED BY <1>1, <1>3, <1>4, FramesOnly

LEMMA StartKeeps == ASSUME IInv, Start PROVE IInv'
<1>1. query.ttl = 0 BY DEF Start, IInv, QueryInv
<1> QED BY <1>1, AskKeeps, MetricAssumption DEF Start

LEMMA ExpandKeeps == ASSUME IInv, Expand PROVE IInv'
<1> DEFINE wider == IF query.ttl + 2 > MaxTtl THEN MaxTtl ELSE query.ttl + 2
<1>1. wider \in 2..MaxTtl /\ query.ttl <= wider
  BY MetricAssumption DEF Expand, IInv, QueryInv, Query
<1>2. Ask(wider) /\ UNCHANGED <<mode, crumb, sched, routes, forgot>> BY DEF Expand
<1> HIDE DEF wider
<1> QED BY <1>1, <1>2, AskKeeps

\* The end of a query leaves everything else as it is.
LEMMA EndKeeps ==
    ASSUME IInv, NEW outcome \in {"found", "failed", "dropped"},
           Ended(outcome) \/ UNCHANGED query
    PROVE  QueryInv' /\ query'.ttl = query.ttl /\ query.ttl <= query'.ttl
<1>1. query.ttl \in Int BY DEF IInv, QueryInv, Query
<1>2. query'.ttl = query.ttl BY DEF Ended, IInv, QueryInv, Query
<1> QED BY <1>1, <1>2 DEF Ended, IInv, QueryInv, Query

LEMMA GiveUpKeeps == ASSUME IInv, GiveUp PROVE IInv'
<1>1. QueryInv' /\ query.ttl <= query'.ttl BY EndKeeps DEF GiveUp
<1> QED BY <1>1, FramesOnly DEF GiveUp, IInv, SchedInv, RestInv

LEMMA SettleKeeps == ASSUME IInv, Settle PROVE IInv'
<1>1. QueryInv' /\ query.ttl <= query'.ttl BY EndKeeps DEF Settle
<1> QED BY <1>1, FramesOnly DEF Settle, IInv, SchedInv, RestInv

LEMMA TransmitKeeps == ASSUME IInv, NEW s \in Node, Transmit(s) PROVE IInv'
<1>1. PICK item \in sched[s] : /\ sched' = [sched EXCEPT ![s] = @ \ {item}]
                               /\ \E new \in Heard(item.frame) : air' = air \cup new
  BY DEF Transmit
<1>2. QueryInv' /\ query.ttl <= query'.ttl /\ UNCHANGED <<mode, crumb, routes, forgot>>
  BY DEF Transmit, IInv, QueryInv, Query
<1>3. /\ sched' \in [Node -> SUBSET Scheduled]
      /\ \A n \in Node : sched'[n] \subseteq sched[n]
  BY <1>1 DEF IInv, SchedInv
<1>4. GoodFrame(item.frame)'
  <2>1. GoodFrame(item.frame) BY <1>1 DEF IInv, SchedInv
  <2>2. Advance BY <1>2, QuietAdvance
  <2> QED BY <1>2, <2>1, <2>2, FrameStays
<1>5. \A m \in air' : m \in air \/ \E f : GoodFrame(f)' /\ \E new \in Heard(f) : m \in new
  BY <1>1, <1>4
<1> QED BY <1>2, <1>3, <1>5, FramesOnly DEF IInv, RestInv

LEMMA SwitchOffKeeps == ASSUME IInv, NEW s \in Node, SwitchOff(s) PROVE IInv'
<1>1. QueryInv' /\ query.ttl <= query'.ttl BY EndKeeps DEF SwitchOff
<1>2. /\ sched' \in [Node -> SUBSET Scheduled]
      /\ \A n \in Node : sched'[n] \subseteq sched[n]
  BY DEF SwitchOff, IInv, SchedInv
<1> QED BY <1>1, <1>2, FramesOnly DEF SwitchOff, IInv, RestInv

LEMMA SwitchOnKeeps == ASSUME IInv, NEW s \in Node, SwitchOn(s) PROVE IInv'
<1>1. QueryInv' /\ query.ttl <= query'.ttl BY DEF SwitchOn, IInv, QueryInv, Query
<1> QED BY <1>1, FramesOnly DEF SwitchOn, IInv, SchedInv, RestInv

----------------------------------------------------------------------------
\* A station that loses its breadcrumb is excused from leading anybody back.
LEMMA LossKeeps ==
    ASSUME IInv, QueryInv', query'.ttl = query.ttl, NEW s \in Node,
           crumb' = [crumb EXCEPT ![s] = NoCrumb], forgot' = forgot \cup {s},
           UNCHANGED <<mode, air, routes>>,
           sched' \in [Node -> SUBSET Scheduled],
           \A n \in Node : sched'[n] \subseteq sched[n]
    PROVE  IInv'
<1>1. /\ crumb \in [Node -> Breadcrumb] /\ query.ttl \in Int
      /\ NoCrumb \in Breadcrumb
  BY DEF IInv, CrumbInv, QueryInv, Query, NoCrumb, Breadcrumb
<1>2. /\ crumb' \in [Node -> Breadcrumb]
      /\ \A n \in Node : crumb'[n] = crumb[n] \/ crumb'[n].prev = NoNode
      /\ \A n \in Node : n # s => crumb'[n] = crumb[n]
  BY <1>1 DEF NoCrumb
<1>3. Advance
  <2>1. ASSUME NEW p \in Node, NEW h \in Int, Leads(p, h) PROVE Leads(p, h)'
    BY <1>2, <2>1 DEF Leads, Has
  <2> QED BY <1>1, <2>1 DEF Advance
<1>4. CrumbInv' BY <1>2, <1>3, CrumbsStay
<1>5. SchedInv' BY <1>3, SchedStays
<1>6. AirInv' BY <1>3, AirStays
<1>7. RoutesInv' BY <1>3, RoutesStay
<1> QED BY <1>4, <1>5, <1>6, <1>7 DEF IInv, RestInv

LEMMA ExpireKeeps == ASSUME IInv, NEW s \in Node, Expire(s) PROVE IInv'
<1>1. QueryInv' /\ query'.ttl = query.ttl BY DEF Expire, IInv, QueryInv, Query
<1> QED BY <1>1, LossKeeps DEF Expire, IInv, SchedInv

LEMMA ReopenKeeps == ASSUME IInv, NEW s \in Node, Reopen(s) PROVE IInv'
<1>1. QueryInv' /\ query'.ttl = query.ttl BY EndKeeps DEF Reopen
<1>2. /\ sched' \in [Node -> SUBSET Scheduled]
      /\ \A n \in Node : sched'[n] \subseteq sched[n]
  BY DEF Reopen, IInv, SchedInv
<1> QED BY <1>1, <1>2, LossKeeps DEF Reopen

----------------------------------------------------------------------------
\* A query that is heard.

\* The copy heard offers a breadcrumb that leads back within the ring.
LEMMA CandidateLeads ==
    ASSUME IInv, NEW s \in Node, NEW f, GoodFrame(f), f.type = "RREQ",
           s \in Audience(f), NEW snr \in Penalty
    PROVE  LET c == Candidate(f, snr) IN
           /\ c \in Breadcrumb /\ c.prev \in Node
           /\ c.hops = f.hops + 1 /\ c.hops \in 1..query.ttl
           /\ <<c.prev, s>> \in Link
           /\ Leads(c.prev, c.hops - 1)
<1>1. f \in Frame /\ GoodRreq(f) BY DEF GoodFrame
<1>2. /\ query.ttl \in 0..8 /\ f.hops \in 0..15 /\ f.ttl \in 1..15 /\ f.pen \in 0..15
      /\ f.hops + f.ttl <= query.ttl /\ f.src \in Node /\ snr \in 0..3
  BY <1>1, MetricAssumption DEF IInv, QueryInv, Query, Frame, GoodRreq
<1>3. <<f.src, s>> \in Link /\ Leads(f.src, f.hops) BY <1>1 DEF Audience, GoodRreq
<1>4. Nibble(f.hops + 1) = f.hops + 1 /\ Nibble(f.pen + snr) \in 0..15 BY <1>2 DEF Nibble
<1>5. f.hops + 1 - 1 = f.hops BY <1>2
<1> QED BY <1>2, <1>3, <1>4, <1>5 DEF Candidate, Breadcrumb

\* What is kept leads back too, and is no worse than what was there before.
LEMMA KeptLeads ==
    ASSUME IInv, NEW s \in Node, NEW f, GoodFrame(f), f.type = "RREQ",
           s \in Audience(f), NEW snr \in Penalty, Improves(s, Candidate(f, snr))
    PROVE  LET k == Kept(s, Candidate(f, snr)) IN
           /\ k \in Breadcrumb /\ k.prev \in Node
           /\ k.hops \in 1..query.ttl /\ k.hops <= f.hops + 1
           /\ <<k.prev, s>> \in Link
           /\ Leads(k.prev, k.hops - 1)
           /\ Has(s) => k.hops <= crumb[s].hops
<1> DEFINE c == Candidate(f, snr)
<1>1. /\ c \in Breadcrumb /\ c.prev \in Node
      /\ c.hops = f.hops + 1 /\ c.hops \in 1..query.ttl
      /\ <<c.prev, s>> \in Link
      /\ Leads(c.prev, c.hops - 1)
  BY CandidateLeads
<1>2. query.ttl \in Int /\ crumb[s] \in Breadcrumb BY DEF IInv, QueryInv, Query, CrumbInv
<1>3. c.hops \in Int /\ crumb[s].hops \in Int BY <1>1, <1>2 DEF Breadcrumb
<1>4. Improves(s, c) OBVIOUS
<1> HIDE DEF c
<1>5. CASE Better(s, c)
  <2>1. Kept(s, c) = c BY <1>5 DEF Kept
  <2>2. Has(s) => c.hops <= crumb[s].hops BY <1>3, <1>5 DEF Better, Lower
  <2> QED BY <1>1, <1>2, <1>3, <2>1, <2>2 DEF c
<1>6. CASE ~Better(s, c)
  <2>1. Has(s) /\ GoodCrumb(s) BY <1>6 DEF Better, IInv, CrumbInv
  <2>2. crumb[s].hops <= c.hops BY <1>3, <1>6, <2>1 DEF Better, Lower
  <2>3. c.ttl \in 0..15 BY <1>1 DEF Breadcrumb
  <2>4. /\ Kept(s, c) \in Breadcrumb /\ Kept(s, c).prev = crumb[s].prev
        /\ Kept(s, c).hops = crumb[s].hops
    BY <1>2, <1>6, <2>3 DEF Kept, Breadcrumb
  <2> QED BY <1>1, <1>2, <1>3, <2>1, <2>2, <2>4 DEF GoodCrumb, c
<1> QED BY <1>5, <1>6

\* A breadcrumb that is no worse than the one it replaces, k, and frames that
\* follow from it.
LEMMA StoreKeeps ==
    ASSUME IInv, NEW s \in Node, NEW k \in Breadcrumb, s # Origin,
           k.prev \in Node, k.hops \in 1..query.ttl,
           <<k.prev, s>> \in Link, Leads(k.prev, k.hops - 1),
           Has(s) => k.hops <= crumb[s].hops,
           crumb' = [crumb EXCEPT ![s] = k],
           UNCHANGED <<query, routes, forgot>>
    PROVE  Advance /\ QueryInv' /\ CrumbInv' /\ Has(s)' /\ crumb'[s] = k
<1>1. /\ crumb \in [Node -> Breadcrumb] /\ query.ttl \in Int /\ k.hops \in Int
      /\ k.hops - 1 \in Int /\ crumb[s].hops \in Int
  BY DEF IInv, CrumbInv, QueryInv, Query, Breadcrumb
<1>2. /\ crumb' \in [Node -> Breadcrumb] /\ crumb'[s] = k
      /\ \A n \in Node : n # s => crumb'[n] = crumb[n]
  BY <1>1
<1>3. Has(s)' BY <1>2, NodeAssumption DEF Has
<1>4. Advance
  <2>1. ASSUME NEW p \in Node, NEW h \in Int, Leads(p, h) PROVE Leads(p, h)'
    BY <1>1, <1>2, <1>3, <2>1 DEF Leads, Has
  <2> QED BY <1>1, <2>1 DEF Advance
<1>5. ASSUME NEW n \in Node, Has(n)' PROVE GoodCrumb(n)'
  <2>1. CASE n = s
    <3>1. Leads(k.prev, k.hops - 1)' BY <1>1, <1>4 DEF Advance
    <3> QED BY <1>2, <2>1, <3>1 DEF GoodCrumb, Leads, Has
  <2>2. CASE n # s
    <3>1. Has(n) /\ crumb'[n] = crumb[n] BY <1>2, <1>5, <2>2 DEF Has
    <3>2. GoodCrumb(n) BY <3>1 DEF IInv, CrumbInv
    <3>3. crumb[n].hops - 1 \in Int BY <1>1, <3>2 DEF GoodCrumb
    <3>4. \A h \in Int : Leads(crumb[n].prev, h) => Leads(crumb[n].prev, h)'
      BY <1>4, <3>1, <3>2 DEF Advance, GoodCrumb, Leads
    <3> QED BY <3>1, <3>2, <3>3, <3>4 DEF GoodCrumb, Leads, Has
  <2> QED BY <2>1, <2>2
<1>6. QueryInv' BY DEF IInv, QueryInv, Query
<1> QED BY <1>2, <1>3, <1>4, <1>5, <1>6 DEF CrumbInv

\* The target answers, a relay repeats the query with less TTL: both good.
LEMMA ReactionGood ==
    ASSUME IInv, QueryInv', Advance, query' = query, NEW s \in Node, NEW k \in Breadcrumb,
           NEW f, GoodFrame(f), f.type = "RREQ",
           k.prev \in Node, k.hops \in 1..query.ttl, k.hops <= f.hops + 1,
           <<k.prev, s>> \in Link, Leads(k.prev, k.hops - 1),
           Has(s)', crumb'[s] = k,
           NEW item \in Reaction(s, k, f.ttl)
    PROVE  item \in Scheduled /\ item.frame.src = s /\ GoodFrame(item.frame)'
<1>1. /\ f \in Frame /\ f.hops \in 0..15 /\ f.ttl \in 1..15
      /\ f.hops + f.ttl <= query.ttl /\ query.ttl \in 0..8
  BY DEF GoodFrame, GoodRreq, Frame, IInv, QueryInv, Query
<1>2. k.hops \in Int /\ k.hops - 1 \in Int /\ k.pen \in 0..15 /\ k.hops \in 0..15
  BY DEF Breadcrumb
<1>3. CASE s = Target
  <2>1. item \in [kind : {"RREP", "RREP-RETRY"}, frame : {Reply(s, k)}]
    BY <1>3 DEF Reaction
  <2>2. Leads(k.prev, k.hops - 1)' BY <1>2 DEF Advance
  <2>3. /\ Reply(s, k).type = "RREP" /\ Reply(s, k).src = s /\ Reply(s, k).hop = k.prev
        /\ Reply(s, k).ttl = k.hops /\ Reply(s, k).hops = k.hops
        /\ Reply(s, k) \in Frame
    BY <1>1, <1>2 DEF Reply, Rrep, AtLeastOne, Frame
  <2>4. GoodRrep(Reply(s, k))' BY <1>3, <2>2, <2>3 DEF GoodRrep, Leads, Has
  <2>5. GoodFrame(Reply(s, k))' BY <2>3, <2>4 DEF GoodFrame
  <2>6. item.frame = Reply(s, k) /\ item \in Scheduled BY <2>1, <2>3 DEF Scheduled
  <2> QED BY <2>3, <2>5, <2>6
<1>4. CASE s # Target /\ Relays(s) /\ f.ttl > 1
  <2>1. item \in [kind : {"RREQ"}, frame : {Onward(s, k, f.ttl)}]
    BY <1>4 DEF Reaction
  <2>2. /\ Onward(s, k, f.ttl).type = "RREQ" /\ Onward(s, k, f.ttl).src = s
        /\ Onward(s, k, f.ttl).hop = Origin /\ Onward(s, k, f.ttl).ttl = f.ttl - 1
        /\ Onward(s, k, f.ttl).hops = k.hops
        /\ Onward(s, k, f.ttl) \in Frame
    BY <1>1, <1>2, <1>4, NodeAssumption DEF Onward, Rreq, Frame
  <2>3. k.hops + (f.ttl - 1) <= query.ttl
    <3>1. \A a, b, h, q \in Int : h <= a + 1 /\ a + b <= q => h + (b - 1) <= q OBVIOUS
    <3>2. f.hops \in Int /\ f.ttl \in Int /\ query.ttl \in Int BY <1>1
    <3> QED BY <1>1, <1>2, <3>1, <3>2
  <2>4. GoodRreq(Onward(s, k, f.ttl))' BY <1>2, <2>2, <2>3 DEF GoodRreq, Leads
  <2>5. GoodFrame(Onward(s, k, f.ttl))' BY <2>2, <2>4 DEF GoodFrame
  <2>6. item.frame = Onward(s, k, f.ttl) /\ item \in Scheduled BY <2>1, <2>2 DEF Scheduled
  <2> QED BY <2>2, <2>5, <2>6
<1>5. CASE s # Target /\ ~(Relays(s) /\ f.ttl > 1)
  <2>1. item \in sched[s] BY <1>5 DEF Reaction
  <2>2. item \in Scheduled /\ item.frame.src = s /\ GoodFrame(item.frame)
    BY <2>1 DEF IInv, SchedInv
  <2> QED BY <2>2, FrameStays
<1> QED BY <1>3, <1>4, <1>5

LEMMA RreqKeeps ==
    ASSUME IInv, NEW s \in Node, NEW m \in air, m.to = s, m.frame.type = "RREQ",
           air' = air \ {m}, NEW snr \in Penalty, ReceiveRreq(s, m.frame, snr),
           UNCHANGED <<mode, forgot>>
    PROVE  IInv'
<1> DEFINE f == m.frame
           c == Candidate(f, snr)
           k == Kept(s, c)
<1>1. GoodFrame(f) /\ s \in Audience(f) /\ f.type = "RREQ" BY DEF IInv, AirInv
<1>2. query' = query /\ routes' = routes BY DEF ReceiveRreq
<1>3. QueryInv' /\ query.ttl \in Int /\ query.ttl <= query'.ttl
  BY <1>2 DEF IInv, QueryInv, Query
<1>4. CASE ~Improves(s, c)
  <2>1. UNCHANGED <<crumb, sched>> BY <1>4 DEF ReceiveRreq
  <2> QED BY <1>2, <1>3, <2>1, FramesOnly DEF IInv, SchedInv, RestInv
<1>5. CASE Improves(s, c)
  <2>1. /\ crumb' = [crumb EXCEPT ![s] = k]
        /\ sched' = [sched EXCEPT ![s] = Reaction(s, k, f.ttl)]
    BY <1>5 DEF ReceiveRreq
  <2>2. /\ k \in Breadcrumb /\ k.prev \in Node
        /\ k.hops \in 1..query.ttl /\ k.hops <= f.hops + 1
        /\ <<k.prev, s>> \in Link
        /\ Leads(k.prev, k.hops - 1)
        /\ Has(s) => k.hops <= crumb[s].hops
    BY <1>1, <1>5, KeptLeads
  <2>3. s # Origin BY <1>1 DEF Audience
  <2> HIDE DEF f, c, k
  <2>4. Advance /\ CrumbInv' /\ Has(s)' /\ crumb'[s] = k
    BY <1>2, <2>1, <2>2, <2>3, StoreKeeps
  <2>5. \A item \in Reaction(s, k, f.ttl) :
           item \in Scheduled /\ item.frame.src = s /\ GoodFrame(item.frame)'
    BY <1>1, <1>2, <1>3, <2>2, <2>4, ReactionGood
  <2>6. SchedInv'
    <3>1. sched \in [Node -> SUBSET Scheduled] BY DEF IInv, SchedInv
    <3>2. sched' \in [Node -> SUBSET Scheduled] BY <2>1, <2>5, <3>1
    <3>3. ASSUME NEW n \in Node, NEW item \in sched'[n]
          PROVE  item.frame.src = n /\ GoodFrame(item.frame)'
      <4>1. CASE n = s BY <2>1, <2>5, <3>1, <4>1
      <4>2. CASE n # s
        <5>1. item \in sched[n] BY <2>1, <3>1, <4>2
        <5> QED BY <1>3, <2>4, <5>1, FrameStays DEF IInv, SchedInv
      <4> QED BY <4>1, <4>2
    <3> QED BY <3>2, <3>3 DEF SchedInv
  <2>7. AirInv' BY <1>3, <2>4, AirStays
  <2>8. RoutesInv' BY <1>2, <1>3, <2>4, RoutesStay
  <2> QED BY <1>3, <2>4, <2>6, <2>7, <2>8 DEF IInv, RestInv
<1> QED BY <1>4, <1>5

----------------------------------------------------------------------------
\* A reply that is heard.

LEMMA MetricBounds ==
    ASSUME NEW hops \in Int, NEW pen \in 0..15
    PROVE  /\ Metric(hops, pen) \in Nat /\ Metric(hops, pen) # 0
           /\ \A top \in Int : 1 <= hops /\ hops <= top => Metric(hops, pen) < (top + 1) * 16
BY DEF Metric, AtLeastOne

\* A route learned from a good reply is proven, and keeps those who use it so.
LEMMA LearnKeeps ==
    ASSUME IInv, QueryInv', query'.ttl = query.ttl, NEW s \in Node, NEW f, GoodFrame(f),
           f.type = "RREP", s = f.hop, <<f.src, s>> \in Link, NEW metric \in Nat,
           metric # 0, s = Origin => metric < (query.ttl + 1) * 16,
           Learn(s, f.src, metric), UNCHANGED <<crumb, forgot>>
    PROVE  Advance /\ RoutesInv'
<1>1. /\ routes \in [Node -> [Node -> Nat]] /\ RoutesAreProven /\ RingBoundsRoutes
      /\ query.ttl \in Int
  BY DEF IInv, RoutesInv, QueryInv, Query
<1>2. f \in Frame /\ GoodRrep(f) /\ f.src \in Node BY DEF GoodFrame, Frame
<1>3. /\ routes' \in [Node -> [Node -> Nat]]
      /\ routes'[s][f.src] = metric
      /\ \A a, b \in Node : <<a, b>> # <<s, f.src>> => routes'[a][b] = routes[a][b]
  BY <1>1, <1>2 DEF Learn
<1>4. \A a, b \in Node : routes[a][b] # 0 => routes'[a][b] # 0 BY <1>3
<1>5. Advance BY <1>1, <1>4 DEF Advance, Leads, Has
<1>6. ASSUME NEW a \in Node, NEW b \in Node, routes'[a][b] # 0
      PROVE  /\ <<a, b>> \in Link /\ <<b, a>> \in Link
             /\ b = Target \/ \E k \in Node : routes'[b][k] # 0
  <2>1. CASE a = s /\ b = f.src
    BY <1>2, <1>4, <2>1 DEF GoodRrep
  <2>2. CASE ~(a = s /\ b = f.src)
    <3>1. routes[a][b] # 0 BY <1>3, <1>6, <2>2
    <3> QED BY <1>1, <1>4, <3>1 DEF RoutesAreProven
  <2> QED BY <2>1, <2>2
<1>7. ASSUME NEW n \in Node PROVE routes'[Origin][n] < (query'.ttl + 1) * 16
  <2>1. CASE s = Origin /\ n = f.src BY <1>3, <2>1
  <2>2. CASE ~(s = Origin /\ n = f.src)
    BY <1>1, <1>3, <2>2, NodeAssumption DEF RingBoundsRoutes
  <2> QED BY <2>1, <2>2
<1> QED BY <1>3, <1>5, <1>6, <1>7 DEF RoutesInv, RoutesAreProven, RingBoundsRoutes

\* The rest of the state after a reply: frames heard are old or good.
LEMMA ReplyKeeps ==
    ASSUME IInv, QueryInv', Advance, RoutesInv', UNCHANGED <<mode, crumb, sched, forgot>>,
           \A m \in air' : m \in air \/ \E f : GoodFrame(f)' /\ \E new \in Heard(f) : m \in new
    PROVE  IInv'
<1>1. CrumbInv'
  <2>1. crumb' \in [Node -> Breadcrumb] BY DEF IInv, CrumbInv
  <2> QED BY <2>1, CrumbsStay
<1>2. SchedInv'
  <2>1. sched' \in [Node -> SUBSET Scheduled] BY DEF IInv, SchedInv
  <2> QED BY <2>1, SchedStays
<1>3. AirInv' BY AirStays
<1> QED BY <1>1, <1>2, <1>3 DEF IInv, RestInv

LEMMA ArriveKeeps ==
    ASSUME IInv, NEW m \in air, m.to = Origin, m.frame.type = "RREP",
           air' = air \ {m}, Arrive(m.frame), UNCHANGED <<mode, crumb, sched, forgot>>
    PROVE  IInv'
<1> DEFINE f == m.frame
           metric == Metric(f.hops, f.pen)
<1>1. GoodFrame(f) /\ Origin \in Audience(f) /\ f.type = "RREP" BY DEF IInv, AirInv
<1>2. /\ f \in Frame /\ f.hops \in 1..query.ttl /\ f.pen \in 0..15
      /\ f.src \in Node /\ query.ttl \in Int
  BY <1>1 DEF GoodFrame, GoodRrep, Frame, IInv, QueryInv, Query
<1>3. /\ metric \in Nat /\ metric # 0 /\ metric < (query.ttl + 1) * 16
  <2>1. f.hops \in Int /\ 1 <= f.hops /\ f.hops <= query.ttl BY <1>2
  <2> QED BY <1>2, <2>1, MetricBounds
<1>4. Origin = f.hop /\ <<f.src, Origin>> \in Link BY <1>1 DEF Audience
<1>5. /\ Learn(Origin, f.src, metric)
      /\ query' = [query EXCEPT !.state = "settling", !.via = f.src, !.metric = metric]
         \/ query' = query
  BY DEF Arrive
<1> HIDE DEF f, metric
<1>6. QueryInv' /\ query'.ttl = query.ttl
  BY <1>2, <1>3, <1>5 DEF IInv, QueryInv, Query
<1>7. Advance /\ RoutesInv' BY <1>1, <1>3, <1>4, <1>5, <1>6, NodeAssumption, LearnKeeps
<1> QED BY <1>6, <1>7, ReplyKeeps

LEMMA RelayKeeps ==
    ASSUME IInv, NEW s \in Node, NEW m \in air, m.to = s, s # Origin, Has(s),
           m.frame.type = "RREP", Learn(s, m.frame.src, Remaining(s, m.frame)),
           \/ air' = air \ {m}
           \/ /\ Passes(s, m.frame)
              /\ \E new \in Heard(Forwarded(s, m.frame)) : air' = (air \ {m}) \cup new,
           UNCHANGED <<mode, crumb, sched, query, forgot>>
    PROVE  IInv'
<1> DEFINE f == m.frame
           metric == Remaining(s, f)
<1>1. GoodFrame(f) /\ s \in Audience(f) /\ f.type = "RREP" BY DEF IInv, AirInv
<1>2. /\ f \in Frame /\ GoodRrep(f) /\ f.hops \in 0..15 /\ f.pen \in 0..15 /\ f.ttl \in 1..15
      /\ f.src \in Node /\ crumb[s] \in Breadcrumb
  BY <1>1 DEF GoodFrame, Frame, IInv, CrumbInv
<1>3. GoodCrumb(s) BY DEF IInv, CrumbInv
<1>4. metric \in Nat /\ metric # 0
  <2>1. /\ Less(f.hops, crumb[s].hops) \in Int /\ Less(f.pen, crumb[s].pen) \in 0..15
    BY <1>2 DEF Less, Breadcrumb
  <2> QED BY <2>1, MetricBounds DEF Remaining
<1>5. s = f.hop /\ <<f.src, s>> \in Link BY <1>1 DEF Audience
<1>6. QueryInv' /\ query'.ttl = query.ttl BY DEF IInv, QueryInv, Query
<1>7. Learn(s, f.src, metric) OBVIOUS
<1>8. Advance /\ RoutesInv'
  <2> HIDE DEF f, metric
  <2> QED BY <1>1, <1>4, <1>5, <1>6, <1>7, LearnKeeps
<1>9. ASSUME Passes(s, f), NEW g, g = Forwarded(s, f) PROVE GoodFrame(g)'
  <2>1. /\ g \in Frame /\ g.type = "RREP" /\ g.src = s /\ g.hop = crumb[s].prev
        /\ g.ttl = f.ttl - 1 /\ g.hops = f.hops
    BY <1>2, <1>3, <1>9 DEF Forwarded, Passes, Rrep, Frame, GoodCrumb
  <2>2. f.hops \in 1..query'.ttl BY <1>2 DEF GoodRrep
  <2>3. <<crumb[s].prev, s>> \in Link BY <1>3 DEF GoodCrumb
  <2>4. routes'[s][f.src] # 0
    BY <1>2, <1>4, <1>7 DEF Learn, IInv, RoutesInv
  <2>5. forgot = {} => Leads(crumb[s].prev, f.ttl - 1 - 1)
    <3>1. f.hop # Origin BY <1>5
    <3>2. forgot = {} => crumb[s].hops <= f.ttl - 1 BY <1>2, <1>5, <3>1 DEF GoodRrep, Leads
    <3>3. /\ crumb[s].hops \in Int /\ crumb[s].prev \in Node
          /\ Leads(crumb[s].prev, crumb[s].hops - 1)
      BY <1>2, <1>3 DEF GoodCrumb, Breadcrumb
    <3>4. Has(crumb[s].prev) => crumb[crumb[s].prev].hops \in Int
      BY <3>3 DEF IInv, CrumbInv, Breadcrumb
    <3> QED BY <1>2, <3>2, <3>3, <3>4 DEF Leads
  <2>6. GoodRrep(g)'
    BY <1>2, <2>1, <2>2, <2>3, <2>4, <2>5 DEF GoodRrep, Leads, Has
  <2> QED BY <2>1, <2>6 DEF GoodFrame
<1>10. \A x \in air' : x \in air \/ \E e : GoodFrame(e)' /\ \E new \in Heard(e) : x \in new
  BY <1>9
<1> QED BY <1>6, <1>8, <1>10, ReplyKeeps

LEMMA ReceiveKeeps == ASSUME IInv, NEW s \in Node, Receive(s) PROVE IInv'
<1>1. PICK m \in air :
        /\ m.to = s
        /\ LET f == m.frame IN
           \/ /\ Ignored(s, f)
              /\ air' = air \ {m}
              /\ UNCHANGED <<crumb, sched, query, routes>>
           \/ /\ ~Ignored(s, f) /\ f.type = "RREQ"
              /\ air' = air \ {m}
              /\ \E snr \in Penalty : ReceiveRreq(s, f, snr)
           \/ /\ ~Ignored(s, f) /\ f.type = "RREP" /\ s = Origin
              /\ air' = air \ {m}
              /\ Arrive(f)
              /\ UNCHANGED <<crumb, sched>>
           \/ /\ ~Ignored(s, f) /\ f.type = "RREP" /\ s # Origin
              /\ Learn(s, f.src, Remaining(s, f))
              /\ IF Passes(s, f)
                   THEN \E new \in Heard(Forwarded(s, f)) : air' = (air \ {m}) \cup new
                   ELSE air' = air \ {m}
              /\ UNCHANGED <<crumb, sched, query>>
  BY DEF Receive
<1>2. UNCHANGED <<mode, forgot>> BY DEF Receive
<1>3. CASE Ignored(s, m.frame) /\ air' = air \ {m} /\ UNCHANGED <<crumb, sched, query, routes>>
  <2>1. QueryInv' /\ query.ttl <= query'.ttl BY <1>3 DEF IInv, QueryInv, Query
  <2> QED BY <1>2, <1>3, <2>1, FramesOnly DEF IInv, SchedInv, RestInv
<1>4. CASE /\ m.frame.type = "RREQ" /\ air' = air \ {m}
           /\ \E snr \in Penalty : ReceiveRreq(s, m.frame, snr)
  BY <1>1, <1>2, <1>4, RreqKeeps
<1>5. CASE /\ m.frame.type = "RREP" /\ s = Origin /\ air' = air \ {m}
           /\ Arrive(m.frame) /\ UNCHANGED <<crumb, sched>>
  BY <1>1, <1>2, <1>5, ArriveKeeps
<1>6. CASE /\ ~Ignored(s, m.frame) /\ m.frame.type = "RREP" /\ s # Origin
           /\ Learn(s, m.frame.src, Remaining(s, m.frame))
           /\ IF Passes(s, m.frame)
                THEN \E new \in Heard(Forwarded(s, m.frame)) : air' = (air \ {m}) \cup new
                ELSE air' = air \ {m}
           /\ UNCHANGED <<crumb, sched, query>>
  <2>1. Has(s) BY <1>6 DEF Ignored
  <2> QED BY <1>1, <1>2, <1>6, <2>1, RelayKeeps
<1> QED BY <1>1, <1>3, <1>4, <1>5, <1>6

----------------------------------------------------------------------------
LEMMA InitInv == Init => IInv
<1> SUFFICES ASSUME Init PROVE IInv OBVIOUS
<1>1. QueryInv BY MetricAssumption DEF Init, QueryInv, Query
<1>2. \A s \in Node : crumb[s] = NoCrumb /\ ~Has(s) BY DEF Init, Has, NoCrumb
<1>3. CrumbInv BY <1>2 DEF Init, CrumbInv, NoCrumb, Breadcrumb
<1>4. SchedInv /\ AirInv BY DEF Init, SchedInv, AirInv
<1>5. RoutesInv
  <2>1. \A s, n \in Node : routes[s][n] = 0 BY DEF Init
  <2>2. query.ttl = 0 BY DEF Init
  <2>3. RingBoundsRoutes BY <2>1, <2>2, NodeAssumption DEF RingBoundsRoutes
  <2> QED BY <2>1, <2>3 DEF Init, RoutesInv, RoutesAreProven
<1>6. RestInv BY DEF Init, RestInv
<1> QED BY <1>1, <1>3, <1>4, <1>5, <1>6 DEF IInv

LEMMA NextInv == IInv /\ [Next]_vars => IInv'
<1> SUFFICES ASSUME IInv, [Next]_vars PROVE IInv' OBVIOUS
<1>1. CASE Start BY <1>1, StartKeeps
<1>2. CASE Deadline BY <1>2, ExpandKeeps, GiveUpKeeps, SettleKeeps DEF Deadline
<1>3. ASSUME NEW s \in Node, Receive(s) PROVE IInv' BY <1>3, ReceiveKeeps
<1>4. ASSUME NEW s \in Node, Transmit(s) PROVE IInv' BY <1>4, TransmitKeeps
<1>5. ASSUME NEW s \in Node, Expire(s) PROVE IInv' BY <1>5, ExpireKeeps
<1>6. ASSUME NEW s \in Node, Reopen(s) PROVE IInv' BY <1>6, ReopenKeeps
<1>7. ASSUME NEW s \in Node, SwitchOff(s) PROVE IInv' BY <1>7, SwitchOffKeeps
<1>8. ASSUME NEW s \in Node, SwitchOn(s) PROVE IInv' BY <1>8, SwitchOnKeeps
<1>9. CASE UNCHANGED vars
  <2>1. QueryInv' /\ query.ttl <= query'.ttl BY <1>9 DEF vars, IInv, QueryInv, Query
  <2> QED BY <1>9, <2>1, FramesOnly DEF vars, IInv, SchedInv, RestInv
<1> QED BY <1>1, <1>2, <1>3, <1>4, <1>5, <1>6, <1>7, <1>8, <1>9 DEF Next

THEOREM Invariant == Spec => []IInv
BY InitInv, NextInv, PTL DEF Spec

\* Every variable keeps its type: in particular TTL, hops and penalty fit the
\* fields of the frame for every TTL the configuration allows.
THEOREM TypeCorrect == Spec => []TypeOK
<1>1. IInv => TypeOK
  BY DEF IInv, QueryInv, CrumbInv, SchedInv, AirInv, RoutesInv, RestInv, TypeOK
<1> QED BY <1>1, Invariant, PTL

\* In every net the breadcrumbs lead back to the origin.
THEOREM WayBack == Spec => []BreadcrumbsLeadBack
<1>1. IInv => BreadcrumbsLeadBack
  <2> SUFFICES ASSUME IInv, NEW s \in Node, Has(s)
               PROVE  LET p == crumb[s].prev IN
                      p = Origin \/ p \in forgot \/ (Has(p) /\ crumb[p].hops < crumb[s].hops)
    BY DEF BreadcrumbsLeadBack
  <2>1. GoodCrumb(s) BY DEF IInv, CrumbInv
  <2>2. /\ crumb[s].hops \in Int
        /\ Has(crumb[s].prev) => crumb[crumb[s].prev].hops \in Int
    BY <2>1 DEF GoodCrumb, IInv, CrumbInv, Breadcrumb
  <2> QED BY <2>1, <2>2 DEF GoodCrumb, Leads
<1> QED BY <1>1, Invariant, PTL

\* While no breadcrumb is lost, no reply runs out of hop limit on its way.
THEOREM RepliesReturn == Spec => []RepliesComeHome
<1>1. IInv => RepliesComeHome
  <2> SUFFICES ASSUME IInv, forgot = {}, NEW m \in air,
                      m.frame.type = "RREP", m.to # Origin
               PROVE  Has(m.to) /\ crumb[m.to].hops < m.frame.ttl
    BY DEF RepliesComeHome
  <2>1. /\ m.to \in Audience(m.frame) /\ GoodFrame(m.frame) BY DEF IInv, AirInv
  <2>2. m.to = m.frame.hop /\ m.to \in Node BY <2>1 DEF Audience
  <2>3. Leads(m.to, m.frame.ttl - 1) BY <2>1, <2>2 DEF GoodFrame, GoodRrep
  <2>4. crumb[m.to].hops \in Int /\ m.frame.ttl \in Int
    BY <2>1, <2>2 DEF IInv, CrumbInv, Breadcrumb, GoodFrame, Frame
  <2> QED BY <2>3, <2>4 DEF Leads
<1> QED BY <1>1, Invariant, PTL

\* Every learned route is a proven return path.
THEOREM ProvenRoutes == Spec => []RoutesAreProven
<1>1. IInv => RoutesAreProven BY DEF IInv, RoutesInv
<1> QED BY <1>1, Invariant, PTL

\* No route is longer than the ring that found it.
THEOREM BoundedRoutes == Spec => []RingBoundsRoutes
<1>1. IInv => RingBoundsRoutes BY DEF IInv, RoutesInv
<1> QED BY <1>1, Invariant, PTL

----------------------------------------------------------------------------
(* The routes of a station: one that is derived from adverts is no better   *)
(* than what the station believes of each link on some way.                 *)

Route == [life : Nat, by : {"nobody", "station", "operator"}, failed : BOOLEAN]
RouteTypes ==
    /\ layout \in Layout
    /\ link \in [Live!Hears -> Nat]
    /\ asked \in {"none", "waiting", "found"}
    /\ setup \in [assisted : BOOLEAN, auto : BOOLEAN, adverts : BOOLEAN]
    /\ \A k \in DOMAIN known :
         /\ known[k] \in Route
         /\ k = Live!Advert(k[2]) \/ k = Live!Rreq(k[2])

\* The station approves in automatic use only.
OnlyInAutoUse == \A k \in DOMAIN known : known[k].by = "station" => Live!AutoUse(setup)

\* The net stays as it is.
LEMMA LayoutStays ==
    ASSUME UNCHANGED layout
    PROVE  Live!Hears' = Live!Hears /\ Live!Way' = Live!Way
  BY DEF Live!Hears, Live!Way

\* The links of a way, there and back.
LinksOf(way) == Live!Hops(way) \cup Live!Hops(Live!Reverse(way))
Held(k, ls) == \E way \in Live!Way :
    way[2] = k[2] /\ \A l \in LinksOf(way) : known[k].life <= ls[l]
EvidenceStands ==
    \A k \in DOMAIN known : k[1] = "link-advert" /\ known[k].life > 0 => Held(k, link)

LiveInv == RouteTypes /\ OnlyInAutoUse /\ EvidenceStands

\* The least of some numbers is one of them.
LEMMA MinIsLeast ==
    ASSUME NEW S \in SUBSET Nat, S # {}
    PROVE  Live!Min(S) \in S /\ \A n \in S : Live!Min(S) <= n
  <1>1. PICK m \in S : \A n \in S : ~(<<n, m>> \in OpToRel(<, Nat))
    BY NatLessThanWellFounded, WFMin
  <1>2. ASSUME NEW n \in S, ~(m <= n) PROVE FALSE
    <2>1. <<n, m>> \in {ss \in Nat \X Nat : ss[1] < ss[2]}
      BY <1>2
    <2>2. <<n, m>> \in OpToRel(<, Nat)
      BY <2>1 DEF OpToRel
    <2>3. QED  BY <1>1, <2>2
  <1>3. QED  BY <1>1, <1>2 DEF Live!Min

\* A way lasts as long as the least believed of its links.
LEMMA LastsIsLeast ==
    ASSUME Live!LiveAssumption, layout \in Layout,
           NEW ls \in [Live!Hears -> Nat], NEW way \in Live!Way
    PROVE  /\ LinksOf(way) \subseteq Live!Hears /\ LinksOf(way) # {}
           /\ Live!Lasts(ls, way) \in Nat
           /\ \E l \in LinksOf(way) : Live!Lasts(ls, way) = ls[l]
           /\ \A l \in LinksOf(way) : Live!Lasts(ls, way) <= ls[l]
  <1>1. LinksOf(way) \subseteq Live!Hears
    BY DEF LinksOf, Live!Hears
  <1>2. <<way[1], way[1 + 1]>> \in Live!Hops(way)
    <2>1. PICK n : n = Len(way)
      OBVIOUS
    <2>2. 1 \in 1..(n - 1)
      <3>1. n \in Nat /\ n # 0 /\ n # 1
        BY <2>1 DEF Live!LiveAssumption, Live!Way
      <3>2. n - 1 \in Nat /\ n - 1 >= 1
        BY <3>1
      <3> QED
        BY <3>2
    <2>3. 1 \in 1..(Len(way) - 1)
      BY <2>1, <2>2
    <2> QED
      BY <2>3 DEF Live!Hops
  <1>3. LinksOf(way) # {}
    BY <1>2 DEF LinksOf
  <1> DEFINE S == {ls[l] : l \in LinksOf(way)}
  <1>4. S \in SUBSET Nat /\ S # {}
    BY <1>1, <1>3
  <1>5. Live!Lasts(ls, way) = Live!Min(S)
    BY DEF Live!Lasts, LinksOf
  <1>6. Live!Min(S) \in S /\ \A n \in S : Live!Min(S) <= n
    BY <1>4, MinIsLeast
  <1>7. QED  BY <1>1, <1>3, <1>4, <1>5, <1>6

\* Nothing is confirmed by links nobody was heard on.
LEMMA NoneConfirmed ==
    ASSUME Live!LiveAssumption, RouteTypes
    PROVE  Live!Unheard \in [Live!Hears -> Nat] /\ Live!Confirmed(Live!Unheard) = {}
  <1>1. Live!Unheard \in [Live!Hears -> Nat] /\ \A l \in Live!Hears : Live!Unheard[l] = 0
    BY DEF Live!Unheard, RouteTypes
  <1>2. ASSUME NEW way \in Live!Way PROVE ~(Live!Lasts(Live!Unheard, way) > 0)
    BY <1>1, LastsIsLeast DEF RouteTypes
  <1>3. QED  BY <1>1, <1>2 DEF Live!Confirmed

\* What the operator has approved still stands: of two views of the routes.
Approval(k) == k \in Live!Active(known) /\ known[k].by = "operator"
ApprovalsKept == \A k : Approval(k) => Live!Stands(k)

\* A link was heard again or forgotten: the routes by adverts are made anew.
LEMMA RebuildKeeps ==
    ASSUME Live!LiveAssumption, LiveInv, NEW ls \in [Live!Hears -> Nat],
           Live!Rebuild(known, ls), UNCHANGED <<asked, setup, layout>>
    PROVE  LiveInv' /\ ApprovalsKept
  <1> DEFINE hops == {way[2] : way \in Live!Confirmed(ls)}
  <1>1. PICK best \in {f \in [hops -> Live!Confirmed(ls)] : \A h \in hops : f[h][2] = h} :
          /\ link' = ls
          /\ known' = [k \in (DOMAIN known \ Live!Adverts(known))
                               \cup {Live!Advert(h) : h \in hops} |->
                         IF k[1] = "rreq" THEN known[k]
                         ELSE Live!Derived(known, ls, k[2], Live!Evidence(ls, best[k[2]]))]
    BY DEF Live!Rebuild
  <1>2. \A h \in hops : /\ best[h] \in Live!Way /\ best[h][2] = h
                        /\ Live!Lasts(ls, best[h]) > 0
    BY DEF Live!Confirmed
  <1>3. \A k \in DOMAIN known :
          /\ known[k] \in Route /\ (k[1] = "rreq" \/ k[1] = "link-advert")
          /\ k[1] = "link-advert" => k = Live!Advert(k[2])
          /\ k[1] = "rreq" => k = Live!Rreq(k[2])
          /\ k \in Live!Adverts(known) <=> k[1] = "link-advert"
    BY DEF LiveInv, RouteTypes, Live!Advert, Live!Rreq, Live!Adverts
  \* Routes that replies have brought.
  <1>4. ASSUME NEW k \in DOMAIN known, k[1] = "rreq"
        PROVE  k \in DOMAIN known' /\ known'[k] = known[k]
    BY <1>1, <1>3, <1>4
  \* Routes that are derived.
  <1> DEFINE derived(h) == known'[Live!Advert(h)]
             old(h) == Live!Old(known, Live!Advert(h))
  <1>5. ASSUME NEW h \in hops
        PROVE  /\ Live!Advert(h) \in DOMAIN known'
               /\ derived(h) = [life |-> Live!Lasts(ls, best[h]), failed |-> FALSE,
                                by |-> Live!Approval(old(h), Live!AutoUse(setup))]
    <2>1. Live!Advert(h)[1] = "link-advert" /\ Live!Advert(h)[2] = h
      BY DEF Live!Advert
    <2>2. derived(h) = Live!Derived(known, ls, h, Live!Evidence(ls, best[h]))
      BY <1>1, <2>1
    <2>3. QED  BY <1>1, <2>2 DEF Live!Derived, Live!Evidence, Live!Fresh
  <1>6. ASSUME NEW k \in DOMAIN known'
        PROVE  \/ k \in DOMAIN known /\ k[1] = "rreq" /\ known'[k] = known[k]
               \/ k[2] \in hops /\ k = Live!Advert(k[2])
    BY <1>1, <1>3 DEF Live!Advert
  <1> HIDE DEF hops
  <1>7. ASSUME NEW h \in hops
        PROVE  /\ Live!Approval(old(h), Live!AutoUse(setup))
                    \in {"nobody", "station", "operator"}
               /\ Live!Approval(old(h), Live!AutoUse(setup)) = "station" => Live!AutoUse(setup)
               /\ Approval(Live!Advert(h)) =>
                    Live!Approval(old(h), Live!AutoUse(setup)) = "operator"
    <2>1. CASE Live!Advert(h) \in DOMAIN known
      <3>1. old(h) = known[Live!Advert(h)] /\ old(h) \in Route
        BY <1>3, <2>1 DEF Live!Old
      <3>2. old(h).by = "station" => Live!AutoUse(setup)
        BY <2>1, <3>1 DEF LiveInv, OnlyInAutoUse
      <3>3. QED  BY <3>1, <3>2 DEF Live!Approval, Approval, Live!Active, Route
    <2>2. CASE Live!Advert(h) \notin DOMAIN known
      <3>1. old(h).life = 0 /\ ~Approval(Live!Advert(h))
        BY <2>2 DEF Live!Old, Live!Fresh, Approval, Live!Active
      <3>2. QED  BY <3>1 DEF Live!Approval
    <2>3. QED  BY <2>1, <2>2
  <1>8. \A h \in hops : Live!Lasts(ls, best[h]) \in Nat
    BY <1>2, LastsIsLeast DEF LiveInv, RouteTypes
  <1>9. ASSUME NEW k \in DOMAIN known', k[2] \in hops, k = Live!Advert(k[2])
         PROVE  /\ known'[k] \in Route /\ known'[k].life = Live!Lasts(ls, best[k[2]])
                /\ known'[k].by = "station" => Live!AutoUse(setup)
                /\ Approval(k) => known'[k].by = "operator"
    <2>1. PICK h \in hops : h = k[2]
      BY <1>9
    <2>2. k = Live!Advert(h) /\ known'[k] = derived(h)
      BY <1>9, <2>1
    <2>3. PICK by : by = Live!Approval(old(h), Live!AutoUse(setup))
      OBVIOUS
    <2>4. PICK lasts : lasts = Live!Lasts(ls, best[h])
      OBVIOUS
    <2>5. known'[k] = [life |-> lasts, failed |-> FALSE, by |-> by]
      BY <1>5, <2>2, <2>3, <2>4
    <2>6. /\ lasts \in Nat /\ by \in {"nobody", "station", "operator"}
          /\ by = "station" => Live!AutoUse(setup)
          /\ Approval(k) => by = "operator"
      BY <1>7, <1>8, <2>2, <2>3, <2>4
    <2>7. QED  BY <2>1, <2>4, <2>5, <2>6 DEF Route
  <1>10. RouteTypes'
    <2>1. ASSUME NEW k \in DOMAIN known'
          PROVE  known'[k] \in Route /\ (k = Live!Advert(k[2]) \/ k = Live!Rreq(k[2]))
      <3>1. CASE k \in DOMAIN known /\ k[1] = "rreq" /\ known'[k] = known[k]
        BY <1>3, <3>1
      <3>2. CASE k[2] \in hops /\ k = Live!Advert(k[2])
        BY <1>9, <3>2
      <3>3. QED  BY <1>6, <2>1, <3>1, <3>2
    <2>2. QED  BY <1>1, <2>1, LayoutStays DEF RouteTypes, LiveInv
  <1>11. OnlyInAutoUse'
    <2>1. ASSUME NEW k \in DOMAIN known', known'[k].by = "station"
          PROVE  Live!AutoUse(setup)
      <3>1. CASE k \in DOMAIN known /\ k[1] = "rreq" /\ known'[k] = known[k]
        BY <2>1, <3>1 DEF LiveInv, OnlyInAutoUse
      <3>2. CASE k[2] \in hops /\ k = Live!Advert(k[2])
        BY <1>9, <2>1, <3>2
      <3>3. QED  BY <1>6, <2>1, <3>1, <3>2
    <2>2. QED  BY <2>1 DEF OnlyInAutoUse, Live!AutoUse
  <1>12. EvidenceStands'
    <2>1. SUFFICES ASSUME NEW k \in DOMAIN known', k[1] = "link-advert"
                   PROVE  \E way \in Live!Way : way[2] = k[2] /\
                            \A l \in LinksOf(way) : known'[k].life <= link'[l]
      BY LayoutStays DEF EvidenceStands, Held
    <2>2. k[2] \in hops /\ k = Live!Advert(k[2])
      BY <1>6, <2>1
    <2>3. known'[k].life = Live!Lasts(ls, best[k[2]])
      BY <1>9, <2>2
    <2>4. best[k[2]] \in Live!Way /\ best[k[2]][2] = k[2]
      BY <1>2, <2>2
    <2>5. \A l \in LinksOf(best[k[2]]) : Live!Lasts(ls, best[k[2]]) <= ls[l]
      BY <2>4, LastsIsLeast DEF LiveInv, RouteTypes
    <2>6. QED  BY <1>1, <2>3, <2>4, <2>5
  <1>13. ApprovalsKept
    <2>1. SUFFICES ASSUME NEW k, Approval(k) PROVE Live!Stands(k)
      BY DEF ApprovalsKept
    <2>2. k \in DOMAIN known /\ known[k].life > 0 /\ known[k].by = "operator"
      BY <2>1 DEF Approval, Live!Active
    <2>3. CASE k[1] = "rreq"
      BY <1>4, <2>2, <2>3 DEF Live!Stands, Live!Active
    <2>4. CASE k[1] = "link-advert" /\ k[2] \in hops
      <3>1. k = Live!Advert(k[2])
        BY <1>3, <2>2, <2>4
      <3>2. /\ k \in DOMAIN known' /\ known'[k].by = "operator"
            /\ known'[k].life = Live!Lasts(ls, best[k[2]])
        BY <1>5, <1>9, <2>1, <2>4, <3>1
      <3>3. QED  BY <1>2, <2>4, <3>2 DEF Live!Stands, Live!Active
    <2>5. CASE k[1] = "link-advert" /\ k[2] \notin hops
      <3>1. Live!Through(Live!Confirmed(link'), k[2]) = {}
        BY <1>1, <2>5 DEF Live!Through, hops
      <3>2. QED  BY <2>5, <3>1 DEF Live!Stands
    <2>6. QED  BY <1>3, <2>2, <2>3, <2>4, <2>5
  <1>14. QED  BY <1>10, <1>11, <1>12, <1>13 DEF LiveInv

\* Reading and changing the store of routes.
LEMMA SyncedKeeps ==
    ASSUME NEW rs, \A k \in DOMAIN rs : rs[k] \in Route, NEW set, NEW k \in DOMAIN rs
    PROVE  /\ DOMAIN Live!Synced(rs, set) = DOMAIN rs
           /\ Live!Synced(rs, set)[k] \in Route
           /\ Live!Synced(rs, set)[k].life = rs[k].life
           /\ Live!Synced(rs, set)[k].by = "station" => Live!AutoUse(set)
           /\ rs[k].by = "operator" => Live!Synced(rs, set)[k].by = "operator"
  BY DEF Live!Synced, Route

\* An approval is given to one route and taken from the others.
LEMMA ApprovedKeeps ==
    ASSUME NEW by \in {"station", "operator"}, \A k \in DOMAIN known : known[k] \in Route,
           NEW chosen, NEW k \in DOMAIN known
    PROVE  /\ DOMAIN Live!Approved(known, chosen, by) = DOMAIN known
           /\ Live!Approved(known, chosen, by)[k] \in Route
           /\ Live!Approved(known, chosen, by)[k].life = known[k].life
           /\ Live!Approved(known, chosen, by)[k].by = IF k = chosen THEN by ELSE "nobody"
  BY DEF Live!Approved, Route

\* A route that is learned again keeps its approval.
LEMMA LearnedKeeps ==
    ASSUME Live!LiveAssumption, RouteTypes, OnlyInAutoUse, NEW h,
           NEW k \in DOMAIN Live!Learned(h)
    PROVE  /\ DOMAIN Live!Learned(h) = DOMAIN known \cup {Live!Rreq(h)}
           /\ Live!Learned(h)[k] \in Route
           /\ k = Live!Rreq(h) \/ (k \in DOMAIN known /\ Live!Learned(h)[k] = known[k])
           /\ Live!Learned(h)[k].by = "station" => Live!AutoUse(setup)
           /\ Approval(k) => /\ Live!Learned(h)[k].by = "operator"
                             /\ Live!Learned(h)[k].life > 0
  <1> DEFINE old == Live!Old(known, Live!Rreq(h))
             new == IF old.life > 0 THEN [old EXCEPT !.life = Life] ELSE Live!Fresh(Life)
  <1>1. /\ DOMAIN Live!Learned(h) = DOMAIN known \cup {Live!Rreq(h)}
        /\ k # Live!Rreq(h) => k \in DOMAIN known /\ Live!Learned(h)[k] = known[k]
        /\ k = Live!Rreq(h) => Live!Learned(h)[k] = new
    BY DEF Live!Learned, Live!Set
  <1>2. CASE k # Live!Rreq(h)
    BY <1>1, <1>2 DEF RouteTypes, OnlyInAutoUse, Approval, Live!Active
  <1>3. CASE k = Live!Rreq(h) /\ k \in DOMAIN known
    <2>1. old = known[k] /\ old \in Route
      BY <1>3 DEF Live!Old, RouteTypes
    <2>2. old.by = "station" => Live!AutoUse(setup)
      BY <1>3, <2>1 DEF OnlyInAutoUse
    <2>3. /\ new \in Route /\ new.life = Life /\ Life > 0
          /\ new.by = "station" => Live!AutoUse(setup)
          /\ old.life > 0 => new.by = old.by
      BY <2>1, <2>2 DEF Live!Fresh, Route, Live!LiveAssumption
    <2>4. QED  BY <1>1, <1>3, <2>1, <2>3 DEF Approval, Live!Active
  <1>4. CASE k = Live!Rreq(h) /\ k \notin DOMAIN known
    <2>1. new = Live!Fresh(Life)
      BY <1>4 DEF Live!Old, Live!Fresh
    <2>2. new \in Route /\ new.by = "nobody" /\ ~Approval(k)
      BY <1>4, <2>1 DEF Live!Fresh, Route, Approval, Live!Active, Live!LiveAssumption
    <2>3. QED  BY <1>1, <1>4, <2>2
  <1>5. QED  BY <1>2, <1>3, <1>4

\* A step of the store keeps what is said of derived routes, as long as it makes
\* none and gives none more time.
LEMMA TableKeeps ==
    ASSUME LiveInv, link' = link, layout' = layout,
           setup' \in [assisted : BOOLEAN, auto : BOOLEAN, adverts : BOOLEAN],
           asked' \in {"none", "waiting", "found"},
           \A k \in DOMAIN known' :
             /\ known'[k] \in Route
             /\ known'[k].by = "station" => Live!AutoUse(setup)'
             /\ \/ k = Live!Rreq(k[2])
                \/ k \in DOMAIN known /\ known'[k].life = known[k].life
    PROVE  LiveInv'
  <1>1. RouteTypes' /\ OnlyInAutoUse'
    BY LayoutStays DEF LiveInv, RouteTypes, OnlyInAutoUse, Live!AutoUse
  <1>2. EvidenceStands'
    BY LayoutStays DEF LiveInv, EvidenceStands, Held, Live!Rreq
  <1>3. QED  BY <1>1, <1>2 DEF LiveInv

\* Queries, replies and approvals.
LEMMA QueryKeeps ==
    ASSUME Live!LiveAssumption, LiveInv, UNCHANGED layout,
           \/ Live!Ask \/ Live!GiveUp \/ Live!Settle \/ Live!Approve
           \/ \E h \in Live!Replier : Live!Reply(h) \/ Live!RelayReply(h)
    PROVE  LiveInv' /\ ApprovalsKept
  <1>1. RouteTypes /\ OnlyInAutoUse /\ \A k \in DOMAIN known : known[k] \in Route
    BY DEF LiveInv, RouteTypes
  <1>2. link' = link /\ setup' = setup /\ asked' \in {"none", "waiting", "found"}
    BY <1>1 DEF Live!Ask, Live!GiveUp, Live!Settle, Live!Approve, Live!Reply, Live!RelayReply,
                RouteTypes
  <1>3. CASE UNCHANGED known
    <2>1. LiveInv'
      BY <1>1, <1>2, <1>3, LayoutStays DEF LiveInv, RouteTypes, OnlyInAutoUse, EvidenceStands, Held,
                              Live!AutoUse
    <2>2. QED  BY <1>3, <2>1 DEF ApprovalsKept, Approval, Live!Stands, Live!Active
  <1>4. ASSUME NEW chosen, NEW by \in {"station", "operator"},
               chosen \in Live!Active(known), known' = Live!Approved(known, chosen, by),
               by = "station" => Live!AutoUse(setup)
        PROVE  LiveInv' /\ (by = "operator" => ApprovalsKept)
    <2>1. \A k \in DOMAIN known' :
            /\ k \in DOMAIN known /\ known'[k] \in Route /\ known'[k].life = known[k].life
            /\ known'[k].by = IF k = chosen THEN by ELSE "nobody"
      <3>1. DOMAIN known' = DOMAIN known
        BY <1>4 DEF Live!Approved
      <3>2. ASSUME NEW k \in DOMAIN known
            PROVE  /\ known'[k] \in Route /\ known'[k].life = known[k].life
                   /\ known'[k].by = IF k = chosen THEN by ELSE "nobody"
        BY <1>1, <1>4, ApprovedKeeps
      <3>3. QED  BY <3>1, <3>2
    <2>2. LiveInv'
      BY <1>1, <1>2, <1>4, <2>1, TableKeeps DEF RouteTypes, Live!AutoUse
    <2>3. chosen \in DOMAIN known' /\ known'[chosen].by = by
      BY <1>1, <1>4, ApprovedKeeps DEF Live!Active
    <2>4. QED  BY <2>2, <2>3 DEF ApprovalsKept, Live!Stands
  <1>5. CASE Live!Settle /\ ~UNCHANGED known
    <2>1. asked = "found" /\ asked' = "none"
      BY <1>5 DEF Live!Settle
    <2>2. ApprovalsKept
      BY <2>1 DEF ApprovalsKept, Live!Stands
    <2>3. QED  BY <1>4, <1>5, <2>2 DEF Live!Settle
  <1>6. CASE Live!Approve
    BY <1>4, <1>6 DEF Live!Approve
  <1>7. ASSUME NEW h \in Live!Replier, Live!Reply(h) \/ Live!RelayReply(h)
        PROVE  LiveInv' /\ ApprovalsKept
    <2>1. DOMAIN Live!Learned(h) = DOMAIN known \cup {Live!Rreq(h)}
      BY DEF Live!Learned, Live!Set
    <2>2. ASSUME NEW k \in DOMAIN Live!Learned(h)
          PROVE  /\ Live!Learned(h)[k] \in Route
                 /\ k = Live!Rreq(k[2]) \/ (k \in DOMAIN known /\ Live!Learned(h)[k] = known[k])
                 /\ Live!Learned(h)[k].by = "station" => Live!AutoUse(setup)
                 /\ Approval(k) => /\ Live!Learned(h)[k].by = "operator"
                                   /\ Live!Learned(h)[k].life > 0
      <3>1. /\ Live!Learned(h)[k] \in Route
            /\ k = Live!Rreq(h) \/ (k \in DOMAIN known /\ Live!Learned(h)[k] = known[k])
            /\ Live!Learned(h)[k].by = "station" => Live!AutoUse(setup)
            /\ Approval(k) => /\ Live!Learned(h)[k].by = "operator"
                              /\ Live!Learned(h)[k].life > 0
        BY <1>1, LearnedKeeps
      <3>2. k = Live!Rreq(h) => k = Live!Rreq(k[2])
        BY DEF Live!Rreq
      <3>3. QED  BY <3>1, <3>2
    <2>3. DOMAIN known' = DOMAIN Live!Learned(h)
      BY <1>7 DEF Live!Reply, Live!RelayReply, Live!Synced
    <2>4. ASSUME NEW k \in DOMAIN known'
          PROVE  /\ known'[k] \in Route
                 /\ known'[k].by = "station" => Live!AutoUse(setup)
                 /\ \/ k = Live!Rreq(k[2])
                    \/ k \in DOMAIN known /\ known'[k].life = known[k].life
                 /\ Approval(k) => known'[k].by = "operator" /\ known'[k].life > 0
      <3>1. CASE known' = Live!Learned(h)
        BY <2>2, <2>4, <3>1
      <3>2. CASE known' = Live!Synced(Live!Learned(h), setup)
        <4>1. /\ known'[k] \in Route /\ known'[k].life = Live!Learned(h)[k].life
              /\ known'[k].by = "station" => Live!AutoUse(setup)
              /\ Live!Learned(h)[k].by = "operator" => known'[k].by = "operator"
          BY <2>2, <2>3, <3>2, SyncedKeeps
        <4>2. QED  BY <2>2, <2>3, <4>1
      <3>3. QED  BY <1>7, <3>1, <3>2 DEF Live!Reply, Live!RelayReply
    <2>5. LiveInv'
      BY <1>1, <1>2, <2>4, TableKeeps DEF RouteTypes, Live!AutoUse
    <2>6. ApprovalsKept
      BY <2>1, <2>3, <2>4 DEF ApprovalsKept, Approval, Live!Stands, Live!Active
    <2>7. QED  BY <2>5, <2>6
  <1>8. QED  BY <1>3, <1>5, <1>6, <1>7 DEF Live!Ask, Live!GiveUp

\* What sessions find out about a route.
LEMMA SessionKeeps ==
    ASSUME Live!LiveAssumption, LiveInv, NEW h \in Live!Replier, UNCHANGED layout,
           Live!Success(h) \/ Live!Failure(h)
    PROVE  LiveInv' /\ ApprovalsKept
  <1>1. /\ RouteTypes /\ OnlyInAutoUse /\ Life \in Nat /\ Life > 0
        /\ \A k \in DOMAIN known : known[k] \in Route
    BY DEF LiveInv, RouteTypes, Live!LiveAssumption
  <1>2. link' = link /\ setup' = setup /\ asked' = asked /\ DOMAIN known' = DOMAIN known
    BY DEF Live!Success, Live!Failure
  <1>3. ASSUME NEW k \in DOMAIN known
        PROVE  /\ known'[k] \in Route
               /\ known'[k].by = "station" => known[k].by = "station"
               /\ k = Live!Rreq(h) \/ known'[k] = known[k]
               /\ Approval(k) => /\ known'[k].life > 0
                                 /\ known'[k].by = "operator" \/ known'[k].failed
    <2>1. CASE k # Live!Rreq(h)
      <3>1. known'[k] = known[k]
        BY <2>1 DEF Live!Success, Live!Failure
      <3>2. QED  BY <1>1, <3>1 DEF Approval, Live!Active
    <2>2. CASE k = Live!Rreq(h)
      <3>1. \/ known'[k] = [known[k] EXCEPT !.life = Life, !.failed = FALSE]
            \/ known'[k] = [known[k] EXCEPT !.by = "nobody", !.failed = TRUE]
        BY <2>2 DEF Live!Success, Live!Failure
      <3>2. QED  BY <1>1, <2>2, <3>1 DEF Approval, Live!Active, Route
    <2>3. QED  BY <2>1, <2>2
  <1>4. \A k : k = Live!Rreq(h) => k = Live!Rreq(k[2])
    BY DEF Live!Rreq
  <1>5. LiveInv'
    <2>1. \A k \in DOMAIN known' :
            /\ known'[k] \in Route
            /\ known'[k].by = "station" => Live!AutoUse(setup)'
            /\ \/ k = Live!Rreq(k[2])
               \/ k \in DOMAIN known /\ known'[k].life = known[k].life
      BY <1>1, <1>2, <1>3, <1>4 DEF OnlyInAutoUse, Live!AutoUse
    <2>2. QED  BY <1>1, <1>2, <2>1, TableKeeps DEF RouteTypes
  <1>6. ApprovalsKept
    BY <1>2, <1>3 DEF ApprovalsKept, Approval, Live!Stands, Live!Active
  <1>7. QED  BY <1>5, <1>6

\* A step of the clock takes as much from a route as from the links it rests on.
LEMMA TimeKeeps ==
    ASSUME Live!LiveAssumption, LiveInv, Live!Time, UNCHANGED layout
    PROVE  LiveInv' /\ ApprovalsKept
  <1>1. RouteTypes /\ OnlyInAutoUse /\ EvidenceStands
    BY DEF LiveInv
  <1>2. /\ link' = [l \in DOMAIN link |-> Live!Older(link[l])]
        /\ known' = [k \in DOMAIN known |-> [known[k] EXCEPT !.life = Live!Older(@)]]
        /\ setup' = setup /\ asked' = asked
    BY DEF Live!Time
  <1>3. \A m, n \in Nat : Live!Older(n) \in Nat /\ (m <= n => Live!Older(m) <= Live!Older(n))
                         /\ (Live!Older(n) > 0 => n > 0)
    BY DEF Live!Older
  <1>4. ASSUME NEW k \in DOMAIN known
        PROVE  /\ known[k].life \in Nat /\ known'[k].life = Live!Older(known[k].life)
               /\ known'[k].by = known[k].by /\ known'[k] \in Route
    <2>1. known[k] \in Route
      BY <1>1 DEF RouteTypes
    <2>2. known'[k] = [known[k] EXCEPT !.life = Live!Older(known[k].life)]
      BY <1>2
    <2>3. QED  BY <1>3, <2>1, <2>2 DEF Route
  <1>5. DOMAIN known' = DOMAIN known
    BY <1>2
  <1>6. link' \in [Live!Hears -> Nat] /\ \A l \in Live!Hears : link'[l] = Live!Older(link[l])
    BY <1>1, <1>2, <1>3 DEF RouteTypes
  <1>7. RouteTypes' /\ OnlyInAutoUse'
    BY <1>1, <1>2, <1>4, <1>5, <1>6, LayoutStays DEF RouteTypes, OnlyInAutoUse, Live!AutoUse
  <1>8. EvidenceStands'
    <2>1. SUFFICES ASSUME NEW k \in DOMAIN known, k[1] = "link-advert", known'[k].life > 0
                   PROVE  \E way \in Live!Way : way[2] = k[2] /\
                            \A l \in LinksOf(way) : known'[k].life <= link'[l]
      BY <1>5, LayoutStays DEF EvidenceStands, Held
    <2>2. known[k].life > 0
      BY <1>3, <1>4, <2>1
    <2>3. PICK way \in Live!Way :
            way[2] = k[2] /\ \A l \in LinksOf(way) : known[k].life <= link[l]
      BY <1>1, <2>1, <2>2 DEF EvidenceStands, Held
    <2>4. ASSUME NEW l \in LinksOf(way) PROVE known'[k].life <= link'[l]
      <3>1. l \in Live!Hears /\ link[l] \in Nat
        BY <1>1, LastsIsLeast DEF RouteTypes
      <3>2. QED  BY <1>3, <1>4, <1>6, <2>3, <3>1
    <2>5. QED  BY <2>3, <2>4
  <1>9. ApprovalsKept
    BY <1>4, <1>5 DEF ApprovalsKept, Approval, Live!Stands, Live!Active
  <1>10. QED  BY <1>7, <1>8, <1>9 DEF LiveInv

\* Routes are forgotten, and perhaps links with them, by the clock or the operator.
LEMMA ForgetKeeps ==
    ASSUME Live!LiveAssumption, LiveInv, UNCHANGED layout,
           Live!PruneRoutes \/ Live!ClearRoutes \/ Live!ClearTopology
    PROVE  LiveInv' /\ ApprovalsKept
  <1>1. RouteTypes /\ OnlyInAutoUse /\ EvidenceStands
    BY DEF LiveInv
  <1>2. setup' = setup /\ asked' = asked
    BY DEF Live!PruneRoutes, Live!ClearRoutes, Live!ClearTopology
  <1>3. \A k \in DOMAIN known' : k \in DOMAIN known /\ known'[k] = known[k]
    <2>1. CASE Live!ClearRoutes
      <3>1. DOMAIN <<>> = {}
        OBVIOUS
      <3>2. QED  BY <2>1, <3>1 DEF Live!ClearRoutes
    <2>2. CASE Live!PruneRoutes \/ Live!ClearTopology
      <3>1. PICK ks : known' = Live!Without(known, ks)
        BY <2>2 DEF Live!PruneRoutes, Live!ClearTopology
      <3>2. QED  BY <3>1 DEF Live!Without
    <2>3. QED  BY <2>1, <2>2
  <1>4. link' \in [Live!Hears -> Nat]
    BY <1>1, NoneConfirmed DEF RouteTypes, Live!PruneRoutes, Live!ClearRoutes,
                               Live!ClearTopology
  <1>5. RouteTypes' /\ OnlyInAutoUse'
    BY <1>1, <1>2, <1>3, <1>4, LayoutStays DEF RouteTypes, OnlyInAutoUse, Live!AutoUse
  <1>6. CASE Live!PruneRoutes \/ Live!ClearRoutes
    <2>1. link' = link
      BY <1>6 DEF Live!PruneRoutes, Live!ClearRoutes
    <2>2. EvidenceStands'
      BY <1>1, <1>3, <2>1, LayoutStays DEF EvidenceStands, Held
    <2>3. known' = <<>> \/ \A k \in Live!Active(known) : k \in DOMAIN known'
      BY <1>6 DEF Live!PruneRoutes, Live!ClearRoutes, Live!Without, Live!Active
    <2>4. ApprovalsKept
      BY <1>3, <2>3 DEF ApprovalsKept, Approval, Live!Stands, Live!Active
    <2>5. QED  BY <1>5, <2>2, <2>4 DEF LiveInv
  <1>7. CASE Live!ClearTopology
    <2>1. link' = Live!Unheard /\ DOMAIN known' = DOMAIN known \ Live!Adverts(known)
      BY <1>7 DEF Live!ClearTopology, Live!Without
    <2>2. \A k \in DOMAIN known : k[1] # "link-advert" => k \in DOMAIN known'
      BY <2>1 DEF Live!Adverts
    <2>3. \A k \in DOMAIN known' : k[1] # "link-advert"
      BY <2>1 DEF Live!Adverts
    <2>4. \A h : Live!Through(Live!Confirmed(link'), h) = {}
      BY <1>1, <2>1, NoneConfirmed DEF Live!Through
    <2>5. EvidenceStands'
      BY <2>3 DEF EvidenceStands
    <2>6. ApprovalsKept
      BY <1>3, <2>2, <2>4 DEF ApprovalsKept, Approval, Live!Stands, Live!Active
    <2>7. QED  BY <1>5, <2>5, <2>6 DEF LiveInv
  <1>8. QED  BY <1>6, <1>7

\* Settings, and a new engine with the old observations.
LEMMA SetupKeeps ==
    ASSUME Live!LiveAssumption, LiveInv, UNCHANGED layout,
           Live!Configure \/ Live!Reopen
    PROVE  LiveInv' /\ ApprovalsKept
  <1>1. RouteTypes /\ OnlyInAutoUse /\ EvidenceStands
    BY DEF LiveInv
  <1> DEFINE rest == Live!Without(known, Live!Adverts(known))
  <1>2. PICK new \in [assisted : BOOLEAN, auto : BOOLEAN, adverts : BOOLEAN] :
          /\ setup' = new /\ asked' \in {"none", "waiting", "found"}
          /\ \/ known' = Live!Synced(known, new) /\ link' = link
             \/ known' = Live!Synced(rest, new) /\ link' = Live!Unheard
    <2>1. CASE Live!Configure
      BY <1>1, <2>1 DEF Live!Configure, RouteTypes
    <2>2. CASE Live!Reopen
      BY <1>1, <2>2 DEF Live!Reopen, RouteTypes
    <2>3. QED  BY <2>1, <2>2
  <1>3. PICK left : /\ known' = Live!Synced(left, new)
                    /\ \/ left = known /\ link' = link
                       \/ left = rest /\ link' = Live!Unheard
    BY <1>2
  <1>4. DOMAIN known' = DOMAIN left
    BY <1>3 DEF Live!Synced
  <1>5. \A k \in DOMAIN left : k \in DOMAIN known /\ left[k] = known[k] /\ left[k] \in Route
    BY <1>1, <1>3 DEF Live!Without, RouteTypes
  <1>6. ASSUME NEW k \in DOMAIN known'
        PROVE  /\ k \in DOMAIN known /\ known'[k] \in Route
               /\ known'[k].life = known[k].life
               /\ known'[k].by = "station" => Live!AutoUse(new)
               /\ known[k].by = "operator" => known'[k].by = "operator"
    BY <1>3, <1>4, <1>5, SyncedKeeps
  <1>7. link' \in [Live!Hears -> Nat]
    BY <1>1, <1>2, NoneConfirmed DEF RouteTypes
  <1>8. RouteTypes' /\ OnlyInAutoUse'
    BY <1>1, <1>2, <1>6, <1>7, LayoutStays DEF RouteTypes, OnlyInAutoUse, Live!AutoUse
  <1>9. CASE left = known /\ link' = link
    <2>1. link' = link /\ DOMAIN known' = DOMAIN known
      BY <1>4, <1>9
    <2>2. EvidenceStands'
      BY <1>1, <1>6, <2>1, LayoutStays DEF EvidenceStands, Held
    <2>3. ApprovalsKept
      BY <1>6, <2>1 DEF ApprovalsKept, Approval, Live!Stands, Live!Active
    <2>4. QED  BY <1>8, <2>2, <2>3 DEF LiveInv
  <1>10. CASE left = rest /\ link' = Live!Unheard
    <2>1. link' = Live!Unheard /\ DOMAIN known' = DOMAIN known \ Live!Adverts(known)
      BY <1>4, <1>10 DEF Live!Without
    <2>2. \A k \in DOMAIN known : k[1] # "link-advert" => k \in DOMAIN known'
      BY <2>1 DEF Live!Adverts
    <2>3. \A k \in DOMAIN known' : k[1] # "link-advert"
      BY <2>1 DEF Live!Adverts
    <2>4. \A h : Live!Through(Live!Confirmed(link'), h) = {}
      BY <1>1, <2>1, NoneConfirmed DEF Live!Through
    <2>5. EvidenceStands'
      BY <2>3 DEF EvidenceStands
    <2>6. ApprovalsKept
      BY <1>6, <2>2, <2>4 DEF ApprovalsKept, Approval, Live!Stands, Live!Active
    <2>7. QED  BY <1>8, <2>5, <2>6 DEF LiveInv
  <1>11. QED  BY <1>3, <1>9, <1>10

\* The invariant of the routes is inductive, and approvals stand in every step.
LEMMA RoutesKept ==
    ASSUME Live!LiveAssumption, LiveInv, [Live!Next]_Live!vars
    PROVE  LiveInv' /\ ApprovalsKept
  <1>1. RouteTypes /\ UNCHANGED layout
    BY DEF LiveInv, Live!Next, Live!vars
  <1>2. CASE Live!HearAdvert \/ Live!Advertise \/ Live!PruneLinks
    <2>1. PICK ls : Live!Rebuild(known, ls) /\ (ls = link \/ \E ways : ls = Live!Record(ways))
      BY <1>2 DEF Live!HearAdvert, Live!Advertise, Live!PruneLinks
    <2>2. ls \in [Live!Hears -> Nat]
      BY <1>1, <2>1 DEF RouteTypes, Live!Record, Live!LiveAssumption
    <2>3. UNCHANGED <<asked, setup, layout>>
      BY <1>1, <1>2 DEF Live!HearAdvert, Live!Advertise, Live!PruneLinks
    <2>4. QED  BY <2>1, <2>2, <2>3, RebuildKeeps
  <1>3. CASE UNCHANGED Live!vars
    BY <1>3, LayoutStays DEF Live!vars, LiveInv, RouteTypes, OnlyInAutoUse, EvidenceStands, Held,
                Live!AutoUse, ApprovalsKept, Approval, Live!Stands, Live!Active
  <1>4. QED
    BY <1>2, <1>3, QueryKeeps, SessionKeeps, TimeKeeps, ForgetKeeps, SetupKeeps
       DEF Live!Next, Live!Step

\* A new engine knows no route.
LEMMA RoutesInit == ASSUME Live!LiveAssumption PROVE Live!Init => LiveInv
  <1>1. SUFFICES ASSUME Live!Init PROVE LiveInv
    OBVIOUS
  <1>2. known = <<>> /\ DOMAIN <<>> = {}
    BY <1>1 DEF Live!Init
  <1>3. link \in [Live!Hears -> Nat]
    BY <1>1 DEF Live!Init
  <1>4. /\ layout \in Layout /\ asked = "none"
        /\ setup \in [assisted : BOOLEAN, auto : BOOLEAN, adverts : BOOLEAN]
    BY <1>1 DEF Live!Init
  <1>5. QED  BY <1>2, <1>3, <1>4 DEF LiveInv, RouteTypes, OnlyInAutoUse, EvidenceStands

\* A route by adverts is offered no longer than all links of some way through its
\* first hop are believed from both ends.
THEOREM RoutesAreCurrent ==
    ASSUME Live!LiveAssumption PROVE Live!Spec => []LiveRoutesAreCurrent
  <1>1. LiveInv => LiveRoutesAreCurrent
    <2>1. SUFFICES ASSUME LiveInv,
                          NEW k \in Live!Adverts(known) \cap Live!Active(known)
                   PROVE  \E way \in Live!Through(Live!Way, k[2]) :
                            known[k].life <= Live!Lasts(link, way)
      BY DEF LiveRoutesAreCurrent, Live!LiveRoutesAreCurrent
    <2>2. PICK way \in Live!Way :
            way[2] = k[2] /\ \A l \in LinksOf(way) : known[k].life <= link[l]
      BY <2>1 DEF LiveInv, EvidenceStands, Held, Live!Adverts, Live!Active
    <2>3. \E l \in LinksOf(way) : Live!Lasts(link, way) = link[l]
      BY <2>1, LastsIsLeast DEF LiveInv, RouteTypes
    <2>4. QED  BY <2>2, <2>3 DEF Live!Through
  <1>2. LiveInv /\ [Live!Next]_Live!vars => LiveInv'
    BY RoutesKept
  <1>3. QED  BY <1>1, <1>2, RoutesInit, PTL DEF Live!Spec

\* What the operator has approved stands through adverts, replies, settings and new
\* engines, and what the station approves does not outlast automatic use.
THEOREM ApprovalsOutlast ==
    ASSUME Live!LiveAssumption PROVE Live!Spec => ApprovalsStand
  <1>1. LiveInv /\ [Live!Next]_Live!vars => LiveInv'
    BY RoutesKept
  <1>2. LiveInv /\ [Live!Next]_Live!vars => [Live!ApprovalStep]_Live!vars
    <2>1. SUFFICES ASSUME LiveInv, [Live!Next]_Live!vars PROVE Live!ApprovalStep
      OBVIOUS
    <2>2. OnlyInAutoUse' /\ ApprovalsKept
      BY <2>1, RoutesKept DEF LiveInv
    <2>3. QED
      BY <2>2 DEF OnlyInAutoUse, Live!AutoUse, ApprovalsKept, Approval, Live!ApprovalStep
  <1>3. QED  BY <1>1, <1>2, RoutesInit, PTL
    DEF Live!Spec, ApprovalsStand, Live!ApprovalsStand
=============================================================================
