---------------------------- MODULE Orchestrator ----------------------------
(***************************************************************************)
(* The control choreography of Guardian stations that carry one message    *)
(* towards its final destination (guardian/session/orchestrator.py), with  *)
(* the parts of the station it calls while doing so: the transmit queue    *)
(* of the audio control transport, the payload backend's completions and   *)
(* the mailbox entry of the message (guardian/operations.py,               *)
(* guardian/message/store.py).                                             *)
(*                                                                         *)
(* Every station runs every handler.  Radio is lossy: a frame that goes on *)
(* the air reaches each station in range or not, and frames waiting for    *)
(* the transmitter leave in any order, for each has a thread of its own.   *)
(* Timers are actions that may fire whenever the state they watch is       *)
(* entered: no property depends on how long an exchange takes.             *)
(***************************************************************************)
EXTENDS Naturals, Sequences, FiniteSets

CONSTANTS
    Station,          \* callsigns on the channel
    NoStation,        \* the empty callsign
    AnyHop,           \* the route table's backup "ANY"
    Origin, Dest,     \* who composed the message, and its final destination
    Link,             \* pairs <<sender, hearer>> in radio range
    Evidence,         \* the sets of next hops a station's routes may offer
    Backup,           \* the configured backup hop
    Relay,            \* auto_relay
    AutoRoute,        \* auto_route
    Discovery,        \* discovery: "off", "assisted", or "automatic" (auto_use)
    Busy,             \* stations that may be busy when asked
    Impatient,        \* stations whose operator may cancel
    Profiles,         \* the G2 profile tokens a station may be configured with
    NoToken,          \* the absent token
    A500,             \* the ARDOP 500 Hz profile token
    WorkingOffer,     \* outcomes of the working_channel_offer callback
    WorkingAccept,    \* outcomes of the working_channel_accept callback
    InitTtl, ReceiptTtl, MaxAnnounce, MaxOffers, MaxReceiptQueries,
    Backlog,          \* heard frames a stalled net thread may leave waiting
    MaxSends,         \* bound: times stations queue the message
    MaxConfigs,       \* bound: changes of a station's profile
    MaxRestarts       \* bound: process restarts in a run

ASSUME StationAssumption ==
    /\ NoStation \notin Station /\ AnyHop \notin Station
    /\ Origin \in Station /\ Dest \in Station /\ Origin # Dest
    /\ Link \subseteq Station \X Station
    /\ Evidence \in [Station -> SUBSET SUBSET Station]
    /\ Backup \in [Station -> Station \cup {NoStation, AnyHop}]
    /\ Relay \in [Station -> BOOLEAN] /\ AutoRoute \in [Station -> BOOLEAN]
    /\ Discovery \in [Station -> {"off", "assisted", "automatic"}]
    /\ Profiles = [s \in Station |-> Profiles[s]]
    /\ Busy \subseteq Station /\ Impatient \subseteq Station

ASSUME BoundAssumption ==
    /\ InitTtl \in Nat \ {0} /\ ReceiptTtl \in Nat \ {0}
    /\ MaxAnnounce \in Nat \ {0} /\ MaxOffers \in Nat /\ MaxReceiptQueries \in Nat
    /\ Backlog \in Nat /\ MaxSends \in Nat
    /\ MaxConfigs \in Nat /\ MaxRestarts \in Nat

VARIABLES
    sess,         \* the session filed under the message id, per station
    mail,         \* the mailbox entry of the message, per station
    txq,          \* unguarded frames waiting for the transmitter
    inbox,        \* frames heard and not yet handled, in order
    learned,      \* learned_paths: the hop that last confirmed to a station
    receiptSeen,  \* stations with the message in _seen_delivery_receipts
    profile,      \* the station's own profile, read whenever it is needed
    sends, configs, restarts,
    late          \* history: the late reports taken for another session

vars == <<sess, mail, txq, inbox, learned, receiptSeen, profile, sends,
          configs, restarts, late>>

----------------------------------------------------------------------------
(* Sessions, frames, mailbox entries                                       *)

Terminal == {"forwarded", "delivered", "failed", "cancelled"}
State == Terminal \cup
    {"none", "idle", "discovery", "multihop-discovery", "route-approval",
     "announcing", "working", "g2-profile", "waiting", "starting",
     "transferring", "confirmed", "acked", "receiving", "received"}

Transport == {"vara_p2p", "ofdm_vhf", "ardop"}

Calling == "calling"    \* WORKING_CALLING_CHANNEL, "=": stay on this channel
Channel == "channel"    \* the token of a configured working channel
IsSC(t) == t \notin {NoToken, A500, Calling, Channel}
Token == {NoToken, A500, Calling, Channel} \cup
            (UNION {Profiles[s] : s \in Station})
Hop == Station \cup {NoStation}

\* What the audio transport holds for a frame that reports its completion:
\* "queued" until PTT, "aired" until the completion callback ran.
TxStage == {"done", "queued", "aired"}

\* A reception whose session has ended, and that has not reported: its backend
\* has given it up, may go on, or has the payload.
Late == Transport \X {"stopped", "open", "full"}

\* rx: a backend receives for the session and has not reported.  left: how many
\* late receptions of the message there are.  hollow: its payload is empty.
Session == [dir : {"none", "out", "in"}, st : State, src : Hop, hop : Hop,
    prev : Hop, ttl : Nat, att : Nat, tx : TxStage, cap : BOOLEAN,
    trans : Transport, tok : Token, work : Token,
    failed : SUBSET Hop, triedBackup : BOOLEAN, blind : BOOLEAN,
    tried : BOOLEAN, offers : SUBSET Station, sent : BOOLEAN, queries : Nat,
    got : BOOLEAN, hops : Seq(Station), rfwd : BOOLEAN,
    rx : BOOLEAN, left : [Late -> Nat], hollow : BOOLEAN]

NewSession(dir, src, hop, prev, ttl, cap) ==
    [dir |-> dir, st |-> "idle", src |-> src, hop |-> hop, prev |-> prev,
     ttl |-> ttl, att |-> 0, tx |-> "done", cap |-> cap,
     trans |-> "vara_p2p", tok |-> NoToken, work |-> NoToken, failed |-> {},
     triedBackup |-> FALSE, blind |-> FALSE, tried |-> FALSE, offers |-> {},
     sent |-> FALSE, queries |-> 0, got |-> FALSE, hops |-> <<>>,
     rfwd |-> FALSE, rx |-> FALSE, left |-> [w \in Late |-> 0], hollow |-> FALSE]

NoSession == [NewSession("none", NoStation, NoStation, NoStation, 0, FALSE)
                EXCEPT !.st = "none"]
Open(s) == sess[s].dir # "none" /\ sess[s].st \notin Terminal
Out(s, st) == sess[s].dir = "out" /\ sess[s].st = st
In(s, st) == sess[s].dir = "in" /\ sess[s].st = st

\* What a failed or cancelled message withdraws from the transmit queue.
RequestType == {"HAVE_MSG", "ACK_HAVE", "START_VARA", "ROUTE_QUERY",
    "ROUTE_OFFER", "WORKING_OFFER", "WORKING_ACK", "G2_PROFILE_OFFER",
    "G2_PROFILE_ACK"}
FrameType == RequestType \cup {"BUSY", "RECEIVED", "DELIVERED", "CANCEL"}
\* Frames whose handler does not compare next_hop.
Overheard == {"ACK_HAVE", "BUSY", "RECEIVED", "CANCEL", "ROUTE_QUERY", "ROUTE_OFFER"}

\* A field no handler of the type reads holds its default.
Frame == [type : FrameType, src : Station, hop : Hop, ttl : Nat,
          cap : BOOLEAN, tok : Token]
FrameTo(type, s, hop) ==
    [type |-> type, src |-> s, hop |-> hop, ttl |-> 0, cap |-> FALSE,
     tok |-> NoToken]
\* _send names the session's next hop, for an inbound session the station itself.
Say(type, s) == FrameTo(type, s, sess[s].hop)
Tokened(type, s, hop, tok) == [FrameTo(type, s, hop) EXCEPT !.tok = tok]
Receipt(s, hop, ttl) == [FrameTo("DELIVERED", s, hop) EXCEPT !.ttl = ttl]
AckHave(s, m) == [Tokened("ACK_HAVE", s, s, m.tok) EXCEPT !.cap = m.cap]
HaveMsg(s, m) ==
    [FrameTo("HAVE_MSG", s, m.hop) EXCEPT !.ttl = m.ttl, !.cap = m.cap,
        !.tok = IF m.cap /\ IsSC(profile[s]) THEN profile[s] ELSE NoToken]

Mail == [box : {"none", "outbox", "transit", "sent", "inbox"},
    status : {"none", "queued", "sending", "failed", "waiting", "forwarded",
              "delivered", "received"},
    prev : Hop, ttl : Nat, hops : Seq(Station)]
NoMail == [box |-> "none", status |-> "none", prev |-> NoStation, ttl |-> 0,
           hops |-> <<>>]
Holds(s) == mail[s].box # "none"

----------------------------------------------------------------------------
(* The station around the handlers                                         *)

\* _session_event: the mailbox follows the outbound session's state.
Filed(e, st) ==
    CASE st = "delivered" -> [e EXCEPT !.box = "sent", !.status = "delivered"]
      [] st \in {"confirmed", "forwarded"} ->
            [e EXCEPT !.box = "sent", !.status = "forwarded"]
      [] st \in {"failed", "cancelled"} ->
            [e EXCEPT !.status = IF e.box = "transit" THEN "waiting" ELSE "failed"]
      [] OTHER -> e

\* Mutant: an operator's cancellation is not an event of the mailbox.
FiledUnlessCancelled(e, m) ==
    IF m.dir # "out" \/ e.box = "none" \/ m.st = "cancelled" THEN e
    ELSE Filed(e, m.st)

MailAfter(e, m) ==
    IF m.dir # "out" \/ e.box = "none" THEN e ELSE Filed(e, m.st)

\* _enter: a guarded frame of the state that is left is no longer allowed.
Enter(m, st) == [m EXCEPT !.st = st, !.tx = "done"]

Become(s, m) ==
    /\ sess' = [sess EXCEPT ![s] = m]
    /\ mail' = [mail EXCEPT ![s] = MailAfter(@, m)]
Send(s, frames) == txq' = [txq EXCEPT ![s] = @ \cup frames]

\* discard_deferred_message: requests are withdrawn, answers are kept.
Answers(frames) == {f \in frames : f.type \notin RequestType}
SendAndStop(s, frames) == txq' = [txq EXCEPT ![s] = Answers(@ \cup frames)]

\* _fail, after the frames the caller sent.
FailWith(s, m, frames) ==
    /\ Become(s, Enter(m, "failed"))
    /\ SendAndStop(s, frames)
Cancelling(s) == {Say("CANCEL", s)}

\* _begin_announce: HAVE_MSG is queued behind its own completion.
Announce(m, hop) ==
    [Enter(m, "announcing") EXCEPT !.hop = hop, !.att = 1, !.tx = "queued"]

\* _resolve_next_hop, on the evidence of the moment.
Hops(s, exclude, now) ==
    IF now \ exclude # {} THEN now \ exclude
    ELSE {learned[s]} \ (exclude \cup {NoStation})

CanDiscover(s, m) == Discovery[s] # "off" /\ ~m.tried
Multihop(m) == [Enter(m, "multihop-discovery") EXCEPT !.tried = TRUE]

\* The ROUTE_QUERY that goes out with a session entering discovery.
Queries(s, m) ==
    IF m.st = "discovery" THEN {FrameTo("ROUTE_QUERY", s, NoStation)} ELSE {}

\* How an outbound leg may start: a known hop, discovery, or what is left.
Launch(s, m, otherwise) ==
    UNION {LET hops == Hops(s, {m.prev}, now) IN
           IF hops # {} THEN {Announce(m, h) : h \in hops}
           ELSE IF CanDiscover(s, m) THEN {Multihop(m)}
           ELSE IF AutoRoute[s] THEN {Enter(m, "discovery")}
           ELSE {otherwise}
           : now \in Evidence[s]}

\* A reception outlives its session.  VARA's cancel marks the message, which then
\* only reports a failure; the others' is noticed at their next look at a flag,
\* which start_receive of OFDM clears.
Stopped(m) == m.st \in {"failed", "cancelled"} /\ m.trans = "vara_p2p"
Reception(m) ==
    <<m.trans, IF Stopped(m) THEN "stopped" ELSE IF m.got THEN "full" ELSE "open">>
Detached(m) ==
    IF m.rx THEN [m EXCEPT !.rx = FALSE, !.left[Reception(m)] = @ + 1] ELSE m
After(m, new) == [new EXCEPT !.left = Detached(m).left]

Leg(s, prev, ttl) ==
    After(sess[s], NewSession("out", s, NoStation, prev, ttl, profile[s] # NoToken))

----------------------------------------------------------------------------
(* What the operator, the mail sweep and the route plane start             *)

\* Operations.tick pumps every heard frame before it looks at the timers.
Pumped(s) == inbox[s] = <<>>

AllButLate == UNCHANGED <<inbox, learned, receiptSeen, profile, configs, restarts>>
StationRest == AllButLate /\ UNCHANGED late
TimerRest == StationRest /\ UNCHANGED sends

\* send_queued and send_message: refused while a session is open.
Queue(s) ==
    LET e == mail[s]
        m == Leg(s, e.prev, e.ttl)
    IN /\ ~Open(s)
       /\ e.box \in {"outbox", "transit"}
       /\ e.box = "transit" => e.ttl >= 1
       /\ sends < MaxSends
       /\ \E n \in Launch(s, m, Announce(m, Dest)) :
            /\ sess' = [sess EXCEPT ![s] = n]
            /\ mail' = [mail EXCEPT ![s].status = "sending"]
            /\ Send(s, Queries(s, n))
       /\ sends' = sends + 1
       /\ StationRest

SendQueued(s) == Queue(s)

\* _tick_auto_deliver: only when no session is open and a hop is heard.
AutoDeliver(s) ==
    /\ Pumped(s)
    /\ mail[s].status # "failed"
    /\ \E now \in Evidence[s] : now # {}
    /\ Queue(s)

\* cancel: terminal first, work stopped, then CANCEL.
Cancel(s) ==
    /\ s \in Impatient /\ Open(s)
    /\ Become(s, Enter(sess[s], "cancelled"))
    /\ txq' = [txq EXCEPT ![s] = Answers(@) \cup Cancelling(s)]
    /\ TimerRest

\* The operator changes the profile: refused while network_settings_busy.
Reconfigure(s) ==
    /\ ~Open(s) /\ configs < MaxConfigs
    /\ \E p \in Profiles[s] \ {profile[s]} : profile' = [profile EXCEPT ![s] = p]
    /\ configs' = configs + 1
    /\ UNCHANGED <<sess, mail, txq, inbox, learned, receiptSeen, sends, restarts,
                  late>>

Neighbours(s) == {n \in Station \ {s} : <<n, s>> \in Link}

\* _on_discovery_result: the route's first hop is whoever sent the RREP.
DiscoveryResult(s) ==
    /\ Out(s, "multihop-discovery")
    /\ IF Discovery[s] = "automatic"
       THEN \E hop \in Neighbours(s) : Become(s, Announce(sess[s], hop))
       ELSE Become(s, Enter(sess[s], "route-approval"))
    /\ UNCHANGED txq /\ TimerRest

DiscoveryFailure(s) ==
    /\ Out(s, "multihop-discovery")
    /\ FailWith(s, sess[s], {}) /\ TimerRest

\* approve_discovered_route
Approve(s) ==
    /\ Out(s, "route-approval")
    /\ \E hop \in Neighbours(s) : Become(s, Announce(sess[s], hop))
    /\ UNCHANGED txq /\ TimerRest

\* _resume_automatic_routes: a live route wakes a message that was looking.
ResumeRoute(s) ==
    LET m == sess[s]
    IN /\ Pumped(s) /\ Discovery[s] = "automatic"
       /\ Out(s, "multihop-discovery") \/ Out(s, "route-approval")
       /\ \E now \in Evidence[s] :
            \E hop \in Hops(s, m.failed \cup {m.prev}, now) :
                Become(s, Announce(m, hop))
       /\ SendAndStop(s, {}) /\ TimerRest

----------------------------------------------------------------------------
(* Payload completions                                                     *)

\* The radio a session's payload uses: the working channel, if both moved.
Tuned(m) == IF m.work = NoToken THEN Calling ELSE m.work

\* Two ends can exchange a payload.
Compatible(m, n) ==
    /\ m.trans = n.trans /\ Tuned(m) = Tuned(n)
    /\ m.trans = "vara_p2p" \/ m.tok = n.tok

\* A whole payload reaches the receiver's backend, with its route history.
PayloadArrives(a, r) ==
    /\ Out(a, "transferring") /\ ~sess[a].sent /\ sess[a].hop = r
    /\ In(r, "receiving") /\ sess[r].src = a /\ sess[r].rx /\ ~sess[r].got
    /\ Compatible(sess[a], sess[r])
    /\ sess' = [sess EXCEPT ![r].got = TRUE, ![r].hops = mail[a].hops,
                            ![r].hollow = sess[a].hollow]
    /\ UNCHANGED <<mail, txq>> /\ TimerRest

\* Mutant: the hop just made costs nothing.
StoredForFree(s, m) ==
    [box |-> IF s = Dest THEN "inbox" ELSE "transit",
     status |-> IF s = Dest THEN "received" ELSE "waiting",
     prev |-> m.src, ttl |-> m.ttl, hops |-> Append(m.hops, m.src)]

\* store_incoming
Stored(s, m) ==
    [box |-> IF s = Dest THEN "inbox" ELSE "transit",
     status |-> IF s = Dest THEN "received" ELSE "waiting",
     prev |-> m.src, ttl |-> m.ttl - 1,
     hops |-> IF \E i \in DOMAIN m.hops : m.hops[i] = m.src THEN m.hops
              ELSE Append(m.hops, m.src)]

\* notify_payload_delivered(ok=False), or the import gate refused.
ReceiveFails(s) ==
    /\ In(s, "receiving") /\ sess[s].rx
    /\ Become(s, [Enter(sess[s], "failed") EXCEPT !.rx = FALSE])
    /\ Send(s, Cancelling(s))
    /\ TimerRest

\* notify_payload_delivered at the final destination.
DeliverHere(s, m) ==
    /\ s = Dest
    /\ sess' = [sess EXCEPT ![s] = Enter(m, "delivered")]
    /\ Send(s, {Say("RECEIVED", s), Receipt(s, m.src, ReceiptTtl)})

\* The relay leg of the message that a session received.
Onward(s, m) == [After(m, Leg(s, m.src, m.ttl - 1)) EXCEPT !.hollow = m.hollow]

\* notify_payload_delivered on the way, and _maybe_relay.
TakeCustody(s, m) ==
    LET leg == Onward(s, m)
        answer == {Say("RECEIVED", s)}
    IN /\ s # Dest
       /\ IF ~Relay[s] \/ m.ttl <= 1
          THEN /\ sess' = [sess EXCEPT ![s] = Enter(m, "received")]
               /\ Send(s, answer)
          ELSE \E n \in Launch(s, leg, Enter(leg, "failed")) :
               /\ sess' = [sess EXCEPT ![s] = n]
               /\ IF n.st = "failed" THEN SendAndStop(s, answer)
                  ELSE Send(s, answer \cup Queries(s, n))

\* An empty payload is confirmed, and not stored.
Taken(s, m) ==
    /\ DeliverHere(s, m) \/ TakeCustody(s, m)
    /\ mail' = [mail EXCEPT ![s] = IF m.hollow THEN MailAfter(@, sess'[s])
                                   ELSE Stored(s, m)]

ReceiveCompletes(s) ==
    /\ In(s, "receiving") /\ sess[s].rx /\ sess[s].got
    /\ Taken(s, [sess[s] EXCEPT !.rx = FALSE])
    /\ TimerRest

\* Completions name the message, not the session: what a late reception reports
\* is taken for the inbound session that has followed.
Reports(s, w) == sess[s].dir = "in" /\ Open(s) /\ sess[s].left[w] > 0
Rid(m, w) == [Detached(m) EXCEPT !.left[w] = @ - 1]
Mistaken(report) == late' = late \cup {report} /\ AllButLate /\ UNCHANGED sends

LateFails(s) ==
    /\ \E w \in Late :
        Reports(s, w) /\ Become(s, Enter(Rid(sess[s], w), "failed"))
    /\ Send(s, Cancelling(s))
    /\ Mistaken("failure")

\* The payload is with the session that was given up: this one has none, unless
\* it has already taken it.
LateCompletes(s) ==
    /\ \E t \in Transport : LET m == Rid(sess[s], <<t, "full">>) IN
        /\ Reports(s, <<t, "full">>)
        /\ IF m.st = "received"
           THEN /\ sess' = [sess EXCEPT ![s] = m] /\ UNCHANGED mail
                /\ Send(s, {Say("RECEIVED", s)})
           ELSE Taken(s, [m EXCEPT !.hollow = TRUE])
    /\ Mistaken("success")

\* A reception that was given up takes the payload, from this attempt or the next.
PayloadStrays(a, r) ==
    LET m == IF Open(r) THEN sess[r] ELSE Detached(sess[r])
        open == <<sess[a].trans, "open">>
        full == <<sess[a].trans, "full">>
    IN /\ Out(a, "transferring") /\ ~sess[a].sent /\ sess[a].hop = r
       /\ m.left[open] > 0
       /\ sess' = [sess EXCEPT ![r] = [m EXCEPT !.left[open] = @ - 1,
                                               !.left[full] = @ + 1]]
       /\ UNCHANGED <<mail, txq>> /\ TimerRest

\* Mutant: the payload was sent, so the next hop has it.
SentMeansReceived(s) ==
    /\ Out(s, "transferring") /\ ~sess[s].sent
    /\ Become(s, Enter(sess[s], "confirmed"))
    /\ UNCHANGED txq /\ TimerRest

\* _on_send_done
SendDone(s) ==
    LET m == sess[s]
    IN /\ Out(s, "transferring") /\ ~m.sent
       /\ \/ /\ Become(s, [m EXCEPT !.sent = TRUE, !.queries = 0])
             /\ UNCHANGED txq
          \/ FailWith(s, m, Cancelling(s))
       /\ TimerRest

----------------------------------------------------------------------------
(* tick: the net thread empties the inbox first (Pumped)                   *)

Retry(s) ==
    Become(s, [sess[s] EXCEPT !.att = @ + 1, !.tx = "queued"]) /\ UNCHANGED txq

\* Mutant: a hop that did not answer is not remembered.
Forgetful(m) == m
Spent(m) == [m EXCEPT !.failed = @ \cup {m.hop}]

\* ANY is no callsign.
HasBackup(s, excluded) == Backup[s] \in Station \ excluded

\* _announce_timeout, once the attempts at this hop are used up.
NextHop(s, m, now) ==
    LET excluded == m.failed \cup {m.prev}
        hops == Hops(s, excluded, now)
    IN IF ~m.triedBackup /\ HasBackup(s, excluded)
       THEN {[Announce(m, Backup[s]) EXCEPT !.triedBackup = TRUE]}
       ELSE IF hops # {} THEN {Announce(m, h) : h \in hops}
       ELSE IF ~m.triedBackup /\ Backup[s] = AnyHop /\ AutoRoute[s]
       THEN {[Enter(m, "discovery") EXCEPT !.triedBackup = TRUE, !.offers = {}]}
       ELSE IF CanDiscover(s, m) THEN {Multihop(m)}
       ELSE {Enter(m, "failed")}

AnnounceTimeout(s) ==
    LET m == sess[s]
        limit == IF m.blind THEN MaxAnnounce - 1 ELSE MaxAnnounce
    IN /\ Out(s, "announcing")
       /\ IF m.att < limit THEN Retry(s)
          ELSE \E now \in Evidence[s] : \E n \in NextHop(s, Spent(m), now) :
               /\ Become(s, n)
               /\ IF n.st = "failed" THEN SendAndStop(s, {})
                  ELSE Send(s, Queries(s, n))
       /\ TimerRest

BusyRetry(s) ==
    /\ Out(s, "waiting")
    /\ Become(s, Announce(sess[s], sess[s].hop))
    /\ UNCHANGED txq /\ TimerRest

\* _discovery_timeout: the destination's own offer, another offer, or a guess.
DiscoveryTimeout(s) ==
    LET m == sess[s]
    IN /\ Out(s, "discovery")
       /\ \/ /\ m.offers = {}
             /\ Become(s, [Announce(m, Dest) EXCEPT !.blind = TRUE])
          \/ \E hop \in IF Dest \in m.offers THEN {Dest} ELSE m.offers :
                Become(s, Announce(m, hop))
       /\ UNCHANGED txq /\ TimerRest

\* An offer that is not answered, or that never leaves the transmitter.
WorkingTimeout(s) ==
    LET m == sess[s]
    IN /\ Out(s, "working")
       /\ IF m.tx = "done" /\ m.att < MaxOffers THEN Retry(s)
          ELSE FailWith(s, m, {})
       /\ TimerRest

ProfileTimeout(s) ==
    LET m == sess[s]
    IN /\ Out(s, "g2-profile")
       /\ IF m.tx = "done" /\ m.att < MaxOffers THEN Retry(s)
          ELSE FailWith(s, m, IF m.tx = "done" THEN Cancelling(s) ELSE {})
       /\ TimerRest

StartTimeout(s) == Out(s, "starting") /\ FailWith(s, sess[s], {}) /\ TimerRest

AckedTimeout(s) == In(s, "acked") /\ FailWith(s, sess[s], {}) /\ TimerRest

\* The payload watchdogs: no progress, or too long altogether.
TransferTimeout(s) ==
    /\ In(s, "receiving") \/ (Out(s, "transferring") /\ ~sess[s].sent)
    /\ FailWith(s, sess[s], {})
    /\ TimerRest

\* Mutant: nobody objected, so the message is taken for forwarded.
SilenceIsConsent(s) ==
    /\ Out(s, "transferring") /\ sess[s].sent
    /\ Become(s, Enter(sess[s], "confirmed"))
    /\ UNCHANGED txq /\ TimerRest

\* The payload went out and nobody confirmed it: ask, then give up.
ReceiptTimeout(s) ==
    LET m == sess[s]
    IN /\ Out(s, "transferring") /\ m.sent
       /\ IF m.queries >= MaxReceiptQueries THEN FailWith(s, m, {})
          ELSE /\ Become(s, [m EXCEPT !.queries = @ + 1])
               /\ Send(s, {HaveMsg(s, m)})
       /\ TimerRest

ConfirmTimeout(s) ==
    /\ Out(s, "confirmed")
    /\ Become(s, Enter(sess[s], "forwarded"))
    /\ UNCHANGED txq /\ TimerRest

----------------------------------------------------------------------------
(* Frame handlers                                                          *)

\* The net thread takes the oldest heard frame.
Heard(s, f, type) ==
    /\ inbox[s] # <<>> /\ f = Head(inbox[s]) /\ f.type = type
    /\ inbox' = [inbox EXCEPT ![s] = Tail(@)]
RxRest == UNCHANGED <<receiptSeen, profile, sends, configs, restarts, late>>

\* A frame that is not decoded, or that no handler applies to.
Miss(s) ==
    /\ inbox[s] # <<>>
    /\ inbox' = [inbox EXCEPT ![s] = Tail(@)]
    /\ UNCHANGED <<sess, mail, txq, learned>> /\ RxRest

RxRouteQuery(s, f) ==
    /\ Heard(s, f, "ROUTE_QUERY")
    /\ \/ s = Dest \/ learned[s] # NoStation
       \/ \E now \in Evidence[s] : now # {}
    /\ Send(s, {FrameTo("ROUTE_OFFER", s, f.src)})
    /\ UNCHANGED <<sess, mail, learned>> /\ RxRest

RxRouteOffer(s, f) ==
    /\ Heard(s, f, "ROUTE_OFFER") /\ Out(s, "discovery")
    /\ sess' = [sess EXCEPT ![s].offers = @ \cup {f.src}]
    /\ UNCHANGED <<mail, txq, learned>> /\ RxRest

\* Mutant: any session that ended counts as a message taken.
EndedWith(s, from) ==
    \/ sess[s].dir = "out" /\ sess[s].prev = from
    \/ /\ sess[s].dir = "in" /\ sess[s].src = from
       /\ sess[s].st \in Terminal \cup {"received"}

\* This station already took the message from that sender.
AlreadyTook(s, from) ==
    \/ sess[s].dir = "out" /\ sess[s].prev = from
    \/ /\ sess[s].dir = "in" /\ sess[s].src = from
       /\ sess[s].st \in {"received", "forwarded", "delivered"}

\* HAVE_MSG from a sender that missed the confirmation.
Reconfirm(s, f) ==
    /\ AlreadyTook(s, f.src)
    /\ Become(s, sess[s])
    /\ Send(s, {FrameTo("RECEIVED", s,
                    IF sess[s].dir = "out" THEN f.src ELSE sess[s].hop)}
               \cup (IF sess[s].st = "delivered"
                     THEN {Receipt(s, f.src, ReceiptTtl)} ELSE {}))

\* A repeated HAVE_MSG while the agreed payload has not started.
ReAck(s) ==
    /\ In(s, "acked")
    /\ Send(s, {AckHave(s, sess[s])})
    /\ UNCHANGED <<sess, mail>>

Receiver(s, f) ==
    LET agreed == f.cap /\ profile[s] # NoToken
    IN [After(sess[s], NewSession("in", f.src, s, NoStation, f.ttl, agreed)) EXCEPT
            !.st = "acked",
            !.trans = IF agreed THEN "ofdm_vhf" ELSE "vara_p2p",
            !.tok = IF agreed /\ IsSC(profile[s]) /\ f.tok = profile[s]
                    THEN profile[s] ELSE NoToken]

\* Mutant: only the receive side of the message keeps its session.
NotReceiving(s, from) == sess[s].dir # "in" \/ ~Open(s)
MayAnswer(s, from) == ~Open(s) /\ ~AlreadyTook(s, from)

\* A fresh HAVE_MSG: refuse the profile, decline as busy, or acknowledge.
Answer(s, f) ==
    LET m == Receiver(s, f)
        failed == Enter(m, "failed")
    IN /\ MayAnswer(s, f.src)
       /\ IF profile[s] = A500 /\ ~m.cap
          THEN /\ Become(s, failed)
               /\ SendAndStop(s, {FrameTo("CANCEL", s, s)})
          ELSE \/ /\ s \in Busy
                  /\ Become(s, failed)
                  /\ SendAndStop(s, {FrameTo("BUSY", s, s)})
               \/ /\ Become(s, m)
                  /\ Send(s, {AckHave(s, m)})

RxHaveMsg(s, f) ==
    /\ Heard(s, f, "HAVE_MSG") /\ f.hop = s
    /\ Reconfirm(s, f) \/ ReAck(s) \/ Answer(s, f)
    /\ UNCHANGED learned /\ RxRest

\* _start_payload: START_VARA is queued behind its own completion.
Starting(m) == [Enter(m, "starting") EXCEPT !.tx = "queued"]

\* _negotiate_g2_profile_or_start
Negotiate(s, m) ==
    IF m.trans # "ofdm_vhf" \/ (IsSC(profile[s]) /\ m.tok = profile[s])
    THEN Starting(m)
    ELSE [Enter(m, "g2-profile") EXCEPT
            !.tok = profile[s], !.att = 1, !.tx = "queued"]

\* What the ACK settled: the transport, and the profile if both named it.
Acknowledged(s, f) ==
    LET agreed == f.cap /\ profile[s] # NoToken
    IN [sess[s] EXCEPT
          !.trans = IF agreed THEN "ofdm_vhf" ELSE "vara_p2p",
          !.tok = IF agreed /\ IsSC(f.tok) /\ f.tok = profile[s] THEN f.tok ELSE @]

RxAck(s, f) ==
    LET m == Acknowledged(s, f)
    IN /\ Heard(s, f, "ACK_HAVE") /\ Out(s, "announcing") /\ f.src = m.hop
       /\ IF profile[s] = A500 /\ m.trans # "ofdm_vhf"
          THEN FailWith(s, m, Cancelling(s))
          ELSE \/ /\ "none" \in WorkingOffer
                  /\ Become(s, Negotiate(s, m)) /\ UNCHANGED txq
               \/ /\ "channel" \in WorkingOffer
                  /\ Become(s, [Enter(m, "working") EXCEPT
                        !.work = Channel, !.att = 1, !.tx = "queued"])
                  /\ UNCHANGED txq
               \/ /\ "error" \in WorkingOffer
                  /\ FailWith(s, m, Cancelling(s))
               \/ /\ "unsupported" \in WorkingOffer
                  /\ FailWith(s, m, {})
       /\ UNCHANGED learned /\ RxRest

RxWorkingOffer(s, f) ==
    /\ Heard(s, f, "WORKING_OFFER") /\ f.hop = s
    /\ In(s, "acked") /\ sess[s].src = f.src
    /\ \E answer \in WorkingAccept :
        LET token == IF answer = "accept" THEN f.tok ELSE Calling IN
        /\ Become(s, [sess[s] EXCEPT !.work = token])
        /\ Send(s, {Tokened("WORKING_ACK", s, f.src, token)})
    /\ UNCHANGED learned /\ RxRest

RxWorkingAck(s, f) ==
    LET m == sess[s]
    IN /\ Heard(s, f, "WORKING_ACK") /\ f.hop = s
       /\ Out(s, "working") /\ f.src = m.hop
       /\ f.tok \in {Calling, m.work}
       /\ Become(s, Negotiate(s, [m EXCEPT !.work = f.tok]))
       /\ UNCHANGED <<txq, learned>> /\ RxRest

Agreed(m, tok) == [m EXCEPT !.tok = tok,
                            !.trans = IF tok = A500 THEN "ardop" ELSE @]
Fallback(m, tok) == [m EXCEPT !.tok = tok, !.trans = "vara_p2p"]

\* Mutant: the profile matches, whatever this session was acknowledged for.
SameProfile(m, tok, local) ==
    IF local = tok THEN Agreed(m, tok) ELSE Fallback(m, Calling)
ProfileAnswer(m, tok, local) ==
    IF m.trans # "vara_p2p" /\ local = tok THEN Agreed(m, tok)
    ELSE Fallback(m, Calling)

RxG2ProfileOffer(s, f) ==
    LET m == sess[s]
        local == profile[s]
        n == ProfileAnswer(m, f.tok, local)
    IN /\ Heard(s, f, "G2_PROFILE_OFFER") /\ f.hop = s
       /\ In(s, "acked") /\ f.src = m.src
       /\ IF local # f.tok /\ A500 \in {local, f.tok}
          THEN FailWith(s, m, Cancelling(s))
          ELSE /\ Become(s, n)
               /\ Send(s, {Tokened("G2_PROFILE_ACK", s, m.src, n.tok)})
       /\ UNCHANGED learned /\ RxRest

\* Mutant: the answer is not compared with the offer.
NoFallback(m, tok) == Agreed(m, m.tok)
ProfileSettled(m, tok) ==
    IF tok # m.tok THEN Fallback(m, NoToken) ELSE Agreed(m, tok)

RxG2ProfileAck(s, f) ==
    LET m == sess[s]
    IN /\ Heard(s, f, "G2_PROFILE_ACK") /\ f.hop = s
       /\ Out(s, "g2-profile") /\ f.src = m.hop
       /\ IF f.tok # m.tok /\ m.tok = A500
          THEN FailWith(s, m, Cancelling(s))
          ELSE /\ Become(s, Starting(ProfileSettled(m, f.tok)))
               /\ UNCHANGED txq
       /\ UNCHANGED learned /\ RxRest

RxBusy(s, f) ==
    /\ Heard(s, f, "BUSY") /\ f.src = sess[s].hop
    /\ Out(s, "announcing") \/ Out(s, "waiting")
    /\ Become(s, Enter(sess[s], "waiting"))
    /\ UNCHANGED <<txq, learned>> /\ RxRest

\* ARDOP's start_receive raises an error while a transfer of it is at work.
Occupied(m) == m.trans = "ardop" /\ \E w \in Late : w[1] = "ardop" /\ m.left[w] > 0
RxStart(s, f) ==
    /\ Heard(s, f, "START_VARA") /\ f.hop = s
    /\ In(s, "acked") /\ f.src = sess[s].src
    /\ \E began \in BOOLEAN :
        /\ began \/ Occupied(sess[s])
        /\ Become(s, [Enter(sess[s], "receiving") EXCEPT !.rx = began])
    /\ UNCHANGED <<txq, learned>> /\ RxRest

\* Mutant: the next hop's confirmation is shown as a delivery.
ConfirmedIsDelivered(from) == "delivered"
Confirmation(from) == IF from = Dest THEN "delivered" ELSE "confirmed"

RxReceived(s, f) ==
    /\ Heard(s, f, "RECEIVED")
    /\ Out(s, "transferring") /\ f.src = sess[s].hop
    /\ learned' = [learned EXCEPT ![s] = f.src]
    /\ Become(s, Enter(sess[s], Confirmation(f.src)))
    /\ UNCHANGED txq /\ RxRest

\* A receipt for a message no session knows: the mailbox remembers the way.
RxStrayReceipt(s, f) ==
    LET kept == mail[s].box \in {"outbox", "transit", "sent"}
        hops == mail[s].hops
    IN /\ Heard(s, f, "DELIVERED") /\ f.hop = s
       /\ sess[s].dir = "none" /\ s \notin receiptSeen
       /\ receiptSeen' = receiptSeen \cup {s}
       /\ mail' = IF kept THEN [mail EXCEPT ![s].box = "sent",
                                            ![s].status = "delivered"]
                  ELSE mail
       /\ IF kept /\ hops # <<>> /\ f.ttl > 1
          THEN Send(s, {Receipt(s, hops[Len(hops)], f.ttl - 1)})
          ELSE UNCHANGED txq
       /\ UNCHANGED <<sess, learned, profile, sends, configs, restarts, late>>

\* A receipt ends the session whatever it was doing, and walks back once.
RxDelivered(s, f) ==
    LET m == sess[s]
        forward == m.prev # NoStation /\ f.ttl > 1 /\ ~m.rfwd
        n == IF m.st = "delivered" THEN m ELSE Enter(m, "delivered")
    IN /\ Heard(s, f, "DELIVERED") /\ f.hop = s /\ m.dir # "none"
       /\ Become(s, [n EXCEPT !.rfwd = @ \/ forward])
       /\ Send(s, IF forward THEN {Receipt(s, m.prev, f.ttl - 1)} ELSE {})
       /\ UNCHANGED learned /\ RxRest

RxCancel(s, f) ==
    LET m == sess[s]
    IN /\ Heard(s, f, "CANCEL") /\ Open(s)
       /\ f.src = IF m.dir = "out" THEN m.hop ELSE m.src
       /\ Become(s, Enter(m, "cancelled"))
       /\ SendAndStop(s, {})
       /\ UNCHANGED learned /\ RxRest

----------------------------------------------------------------------------
(* The transmitter, and the process itself                                 *)

Hears(s, r, f) ==
    /\ <<s, r>> \in Link /\ r # s
    /\ f.hop = r \/ f.type \in Overheard

\* A frame is on the air for longer than the net thread's period of 100 ms:
\* every station pumps meanwhile, unless its thread is stalled.
Air(s, f) ==
    /\ \A r \in Station : Len(inbox[r]) <= Backlog
    /\ inbox' = [r \in Station |->
                IF Hears(s, r, f) THEN Append(inbox[r], f) ELSE inbox[r]]

Transmit(s) ==
    /\ \E f \in txq[s] : txq' = [txq EXCEPT ![s] = @ \ {f}] /\ Air(s, f)
    /\ UNCHANGED <<sess, mail, learned>> /\ RxRest

\* The frame a session waits behind, as allowed() admits it at PTT.
Guarded(s) ==
    LET m == sess[s]
    IN CASE m.st = "announcing" -> HaveMsg(s, m)
         [] m.st = "working" -> Tokened("WORKING_OFFER", s, m.hop, m.work)
         [] m.st = "g2-profile" -> Tokened("G2_PROFILE_OFFER", s, m.hop, m.tok)
         [] OTHER -> FrameTo("START_VARA", s, m.hop)

TransmitGuarded(s) ==
    /\ sess[s].tx = "queued"
    /\ Air(s, Guarded(s))
    /\ sess' = [sess EXCEPT ![s].tx =
                    IF sess[s].st = "starting" THEN "aired" ELSE "done"]
    /\ UNCHANGED <<mail, txq, learned>> /\ RxRest

\* start_after_control: only now does the payload begin.
StartComplete(s) ==
    /\ Out(s, "starting") /\ sess[s].tx = "aired"
    /\ Become(s, Enter(sess[s], "transferring"))
    /\ UNCHANGED txq /\ TimerRest

\* The process ends and starts again: only the mailbox is on disk.
Restart(s) ==
    /\ restarts < MaxRestarts
    /\ sess' = [sess EXCEPT ![s] = NoSession]
    /\ txq' = [txq EXCEPT ![s] = {}]
    /\ inbox' = [inbox EXCEPT ![s] = <<>>]
    /\ learned' = [learned EXCEPT ![s] = NoStation]
    /\ receiptSeen' = receiptSeen \ {s}
    /\ restarts' = restarts + 1
    /\ UNCHANGED <<mail, profile, sends, configs, late>>

----------------------------------------------------------------------------
Init ==
    /\ sess = [s \in Station |-> NoSession]
    /\ mail = [s \in Station |->
                IF s = Origin
                THEN [NoMail EXCEPT !.box = "outbox", !.status = "queued",
                                    !.ttl = InitTtl]
                ELSE NoMail]
    /\ txq = [s \in Station |-> {}]
    /\ inbox = [s \in Station |-> <<>>]
    /\ learned = [s \in Station |-> NoStation]
    /\ receiptSeen = {}
    /\ profile \in {p \in [Station -> Token] : \A s \in Station : p[s] \in Profiles[s]}
    /\ sends = 0 /\ configs = 0 /\ restarts = 0 /\ late = {}

Operator(s) ==
    SendQueued(s) \/ AutoDeliver(s) \/ Cancel(s) \/ Approve(s) \/ Reconfigure(s)
Discoverer(s) == DiscoveryResult(s) \/ DiscoveryFailure(s) \/ ResumeRoute(s)
Payload(s) ==
    \/ \E r \in Station : PayloadArrives(s, r) \/ PayloadStrays(s, r)
    \/ ReceiveFails(s) \/ ReceiveCompletes(s) \/ SendDone(s)
    \/ LateFails(s) \/ LateCompletes(s)
Tick(s) == Pumped(s) /\
   (\/ AnnounceTimeout(s) \/ BusyRetry(s) \/ DiscoveryTimeout(s)
    \/ WorkingTimeout(s) \/ ProfileTimeout(s) \/ StartTimeout(s)
    \/ AckedTimeout(s) \/ TransferTimeout(s) \/ ReceiptTimeout(s)
    \/ ConfirmTimeout(s))
Receive(s) ==
    \/ Miss(s)
    \/ inbox[s] # <<>> /\ LET f == Head(inbox[s]) IN
        \/ RxRouteQuery(s, f) \/ RxRouteOffer(s, f) \/ RxHaveMsg(s, f)
        \/ RxAck(s, f) \/ RxWorkingOffer(s, f) \/ RxWorkingAck(s, f)
        \/ RxG2ProfileOffer(s, f) \/ RxG2ProfileAck(s, f) \/ RxBusy(s, f)
        \/ RxStart(s, f) \/ RxReceived(s, f) \/ RxStrayReceipt(s, f)
        \/ RxDelivered(s, f) \/ RxCancel(s, f)
Transmitter(s) == Transmit(s) \/ TransmitGuarded(s) \/ StartComplete(s)

Next == \E s \in Station :
    \/ Operator(s) \/ Discoverer(s) \/ Payload(s) \/ Tick(s)
    \/ Receive(s) \/ Transmitter(s) \/ Restart(s)

Spec == Init /\ [][Next]_vars

\* So far no session has been confirmed by the success of a reception that was
\* given up before it began: with one, a session that has no payload says it is
\* RECEIVED, and what the stations tell each other need no longer be true.
Prompt == "success" \notin late

----------------------------------------------------------------------------
(* Properties                                                              *)

\* Every variable has its type.
TypeOK ==
    /\ sess \in [Station -> Session]
    /\ mail \in [Station -> Mail]
    /\ txq \in [Station -> SUBSET Frame]
    /\ inbox \in [Station -> Seq(Frame)]
    /\ learned \in [Station -> Hop]
    /\ receiptSeen \in SUBSET Station
    /\ profile \in [Station -> Token]
    /\ sends \in Nat /\ configs \in Nat /\ restarts \in Nat
    /\ late \subseteq {"failure", "success"}

\* A station that shows DELIVERED, as the state of the session or as the
\* status of the mail, is right: the message is in the destination's inbox.
\* It learns so from RECEIVED by the destination or from a receipt that was
\* relayed, repeated, or outlived the session it is about.
DeliveryTruth ==
    Prompt => \A s \in Station :
        sess[s].st = "delivered" \/ mail[s].status = "delivered"
            => mail[Dest].box = "inbox"

\* A sender that stops, with its copy filed under Sent, left the message in
\* the mailbox of the very hop it was sent to.
CustodyTruth ==
    Prompt => \A s \in Station :
        Out(s, "confirmed") \/ Out(s, "forwarded") => Holds(sess[s].hop)

\* What the stations keep and report, as the abstract Custody sees it.
Owners == {s \in Station : mail[s].box \in {"outbox", "transit", "inbox"}}
Told == {s \in Station : sess[s].st = "delivered" \/ mail[s].status = "delivered"}
Promise == INSTANCE Custody WITH
    holders <- {s \in Station : Holds(s)}, owners <- Owners, told <- Told

\* The stations implement Custody: a copy is only ever made of a copy and is
\* never lost, it leaves the folders it is sent from only while another station
\* has one, and DELIVERED is only ever reported of a delivered message.
ImplementsCustody == Promise!Spec

\* The message is never orphaned: the mailbox of some station keeps it where it
\* will be sent from, or where its reader finds it.  Two stations never both
\* file it under Sent on each other's word.
SomeoneResponsible == Prompt => Owners # {}

\* Every leg of the route costs a unit of TTL, over relays, failed legs,
\* restarts and messages that come back: the route history stored with a
\* message and the TTL left to it never exceed the TTL it started with.
HopBudget ==
    \A s \in Station : Len(mail[s].hops) + mail[s].ttl <= InitTtl

\* In which nets: whom a station may ever announce the message to is the
\* destination itself, what its routes offer, its backup, and whoever answers
\* its search.
NextHops(s) ==
    {h \in Station :
        \/ h = Dest \/ h = Backup[s]
        \/ \E now \in Evidence[s] : h \in now
        \/ h \in Neighbours(s) /\ (AutoRoute[s] \/ Discovery[s] # "off")}

\* Every hop brings the message closer to its destination.
Approaches(distance) ==
    /\ distance \in [Station -> Nat]
    /\ \A s \in Station \ {Dest} : \A h \in NextHops(s) \ {s} : distance[h] < distance[s]

\* All ways to a station take the same number of hops.
Levels ==
    {level \in [Station -> Nat] :
        /\ level[Origin] = 0
        /\ \A s \in Station \ {Dest} : \A h \in NextHops(s) \ {s, Dest} :
                level[h] = level[s] + 1}

\* Two stations in range of each other, one frame on the air at a time, where
\* the operators' profiles are names of profiles, the sender always or never has
\* a working channel to offer, and a receiver that takes offers takes every one.
OneHopNet ==
    /\ Station = {Origin, Dest} /\ Backlog = 0
    /\ \A s \in Station : Profiles[s] \cap {Calling, Channel} = {}
    /\ ~({"none", "channel"} \subseteq WorkingOffer)
    /\ "accept" \in WorkingAccept => WorkingAccept = {"accept"}

\* A session at work is never replaced, by a repeated announcement, by another
\* sender or by the operator: only the relay leg of a received message takes
\* its place, and that leg remembers whom the message came from.
OpenSessionIsKept ==
    [][\A s \in Station : Open(s) /\ restarts' = restarts /\ Prompt' =>
        \/ /\ sess'[s].dir = sess[s].dir
           /\ sess'[s].src = sess[s].src /\ sess'[s].prev = sess[s].prev
        \/ /\ In(s, "receiving")
           /\ sess'[s].dir = "out" /\ sess'[s].prev = sess[s].src]_vars

\* When both ends of a hop are in the payload phase they agreed on the modem,
\* its profile and the channel.
HandoffAgrees ==
    \A a, r \in Station :
        /\ Out(a, "transferring") /\ ~sess[a].sent /\ sess[a].hop = r
        /\ In(r, "receiving") /\ sess[r].src = a
        => Compatible(sess[a], sess[r])

\* So they do as long as no operator changes the profile between two attempts,
\* whatever frames are lost, repeated or late; stale_ack shows why that is needed.
\* A late reception's report ends a session like a failed one, and leaves its
\* answers behind: then nothing is claimed.
SettledHandoff == configs = 0 /\ late = {} => HandoffAgrees

\* A station that listens for VARA is not played another modem, although
\* ACK_HAVE may answer for a session the sender has since given up, as long as
\* at most one operator changed a profile between two attempts.  With a change
\* at each station an old G2_PROFILE_ACK, which a failed reception does not
\* withdraw, can answer for the next attempt: then it is.  So it is after a late
\* reception's report, which leaves the ACK_HAVE of the session it ended.
ListenersHearTheirModem ==
    configs <= 1 /\ late = {} => \A a, r \in Station :
        /\ Out(a, "transferring") /\ ~sess[a].sent /\ sess[a].hop = r
        /\ In(r, "receiving") /\ sess[r].src = a
        /\ sess[r].trans = "vara_p2p"
        => sess[a].trans = "vara_p2p"

\* Mail shown as being sent has an outbound session at work, unless the
\* process was restarted since.
NoOrphanSending ==
    \A s \in Station : mail[s].status = "sending" /\ restarts = 0
                            => Open(s) /\ sess[s].dir = "out"

\* test_live_route_recovery.py: a relay does not send the payload back to the
\* previous hop.
NoPayloadBack ==
    \A s \in Station : Out(s, "transferring") /\ sess[s].prev # NoStation
                            => sess[s].hop # sess[s].prev

----------------------------------------------------------------------------
(* Liveness                                                                *)

\* The process runs its tick, its audio threads and its discovery deadlines;
\* nothing is assumed of the radio, the payload or the operator.
Fairness == \A s \in Station :
    /\ WF_vars(Tick(s)) /\ WF_vars(Receive(s)) /\ WF_vars(Transmitter(s))
    /\ WF_vars(DiscoveryFailure(s) \/ DiscoveryResult(s))
FairSpec == Spec /\ Fairness

\* Whatever is lost, a session comes to an end, except one that waits for the
\* operator to approve a route and one that keeps a message it cannot relay.
SessionsEnd ==
    \A s \in Station :
        Open(s) ~> ~Open(s) \/ sess[s].st \in {"route-approval", "received"}

\* The mail sweep runs for ever, too.
SweepSpec == FairSpec /\ \A s \in Station : WF_vars(AutoDeliver(s))

\* STATUS.md: holders auto-send waiting Outbox/Transit mail when the next hop
\* becomes heard.  (A run that used up its bound on sends is no witness.)
WaitingMailIsSent ==
    \A s \in Station : mail[s].box = "transit" /\ mail[s].ttl > 0
                            ~> Out(s, "announcing") \/ sends = MaxSends
=============================================================================
