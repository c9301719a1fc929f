------------------------- MODULE OrchestratorProofs -------------------------
(***************************************************************************)
(* Proofs about Orchestrator for every set of stations, every radio range, *)
(* route table, profile assignment and bound.  The inductive invariant     *)
(* IInv says that every station named as the origin of something (an       *)
(* announcement, a receipt, an inbound session, a step of the route) has a *)
(* copy of the message; from it follow the types, the truth of what        *)
(* stations report, and that the stations implement Custody.  A second     *)
(* one, WayInv, says that messages only go where routes, backups and       *)
(* searches lead, and what that costs; from it follow, for the nets where  *)
(* these lead somewhere, that some station is always responsible for the   *)
(* message and that the TTL pays for the route.  The third, Handshake, is  *)
(* about the two stations of a net of one hop: at most one frame is on its *)
(* way between them, the sender is never ahead of the answers that wait at *)
(* the receiver, and both settled the same; from it follows that they      *)
(* start the same modem on the same channel, and that a station that       *)
(* listens for VARA is not played another one.                             *)
(***************************************************************************)
EXTENDS Orchestrator, TLAPS, WellFoundedInduction

Holders == {s \in Station : Holds(s)}

\* A session is what it claims to be when H are the stations with the message.
GoodSession(m, s, H) ==
    /\ m \in Session
    /\ m.dir # "none" => m.ttl # 0
    /\ m.dir = "out" => s \in H /\ s # Dest
    /\ m.dir = "in" => m.src \in H \ {s}
    /\ m.prev \in H \cup {NoStation}
    /\ m.st = "announcing" => m.dir = "out"
    /\ m.st \in {"received", "forwarded", "delivered"} => s \in H
    /\ m.dir = "out" /\ m.st \in {"confirmed", "forwarded"} => m.hop \in H \ {s}
    /\ m.st = "delivered" => Dest \in H
    /\ \A i \in DOMAIN m.hops : m.hops[i] \in H
    /\ ~m.hollow

\* A mailbox entry names holders, and the destination only ever has an inbox.
GoodMail(e, s, H) ==
    /\ e \in Mail
    /\ e.box = "outbox" => e.ttl # 0
    /\ e.prev \in H \cup {NoStation}
    /\ e.status = "delivered" => Dest \in H
    /\ e.box = "inbox" => s = Dest
    /\ s = Dest => e.box \in {"none", "inbox"}
    /\ \A i \in DOMAIN e.hops : e.hops[i] \in H

\* A frame that asserts something of a mailbox asserts the truth.
GoodFrame(f, H) ==
    /\ f \in Frame
    /\ f.type = "HAVE_MSG" => f.src \in H /\ f.ttl # 0
    /\ f.type = "RECEIVED" => f.src \in H
    /\ f.type = "DELIVERED" => f.hop \in H /\ Dest \in H

SessInv == /\ sess \in [Station -> Session]
           /\ \A s \in Station : GoodSession(sess[s], s, Holders)
MailInv == /\ mail \in [Station -> Mail]
           /\ \A s \in Station : GoodMail(mail[s], s, Holders)
TxqInv == /\ txq \in [Station -> SUBSET Frame]
          /\ \A s \in Station : \A f \in txq[s] : GoodFrame(f, Holders) /\ f.src = s
InboxInv ==
    /\ inbox \in [Station -> Seq(Frame)]
    /\ \A s \in Station : \A i \in 1..Len(inbox[s]) :
            GoodFrame(inbox[s][i], Holders) /\ inbox[s][i].src # s
RestInv ==
    /\ learned \in [Station -> Hop]
    /\ receiptSeen \in SUBSET Station
    /\ profile \in [Station -> Token]
    /\ sends \in Nat /\ configs \in Nat /\ restarts \in Nat
    /\ late \subseteq {"failure", "success"}

IInv == SessInv /\ MailInv /\ TxqInv /\ InboxInv /\ RestInv

\* What a step may do to the mailboxes, as Custody sees it.
CustodyStep ==
    \/ \E s \in Station : Promise!Accept(s) \/ Promise!Release(s)
    \/ Holders' = Holders /\ Owners' = Owners

\* What is shown of every action.
Good == IInv' /\ CustodyStep

\* The states and the frames that assert nothing.
Plain == State \ {"announcing", "received", "confirmed", "forwarded", "delivered"}
Ordinary == FrameType \ {"HAVE_MSG", "RECEIVED", "DELIVERED"}

----------------------------------------------------------------------------
(* Sessions                                                                *)

\* A session that keeps who it is with and moves to an ordinary state is good.
LEMMA KeepsGood ==
    ASSUME NEW s \in Station, NEW H \in SUBSET Station, NEW m, NEW n \in Session,
           GoodSession(m, s, H),
           n.dir = m.dir, n.src = m.src, n.prev = m.prev, n.ttl = m.ttl,
           n.hollow = m.hollow,
           \/ n.hops = m.hops
           \/ \A i \in DOMAIN n.hops : n.hops[i] \in H,
           \/ n.st \in Plain
           \/ n.st = m.st /\ n.hop = m.hop
           \/ n.st = "announcing" /\ m.dir = "out"
    PROVE  GoodSession(n, s, H)
  BY DEF GoodSession, Plain

\* Enter changes the state, and gives up a frame that waits.
LEMMA EnterFacts ==
    ASSUME NEW m \in Session, NEW st \in State
    PROVE  /\ Enter(m, st) \in Session
           /\ Enter(m, st).st = st /\ Enter(m, st).dir = m.dir
           /\ Enter(m, st).src = m.src /\ Enter(m, st).hop = m.hop
           /\ Enter(m, st).prev = m.prev /\ Enter(m, st).ttl = m.ttl
           /\ Enter(m, st).hops = m.hops /\ Enter(m, st).hollow = m.hollow
  BY DEF Enter, Session, TxStage

\* Entering an ordinary state keeps a session good.
LEMMA EnterGood ==
    ASSUME NEW s \in Station, NEW H \in SUBSET Station, NEW m,
           GoodSession(m, s, H), NEW st \in Plain
    PROVE  GoodSession(Enter(m, st), s, H)
  <1>1. m \in Session /\ st \in State BY DEF GoodSession, Plain
  <1> QED BY <1>1, EnterFacts, KeepsGood

\* The states that promise nothing of the mailboxes.
LEMMA PlainStates ==
    {"failed", "cancelled", "idle", "discovery", "multihop-discovery",
     "route-approval", "working", "g2-profile", "waiting", "starting",
     "transferring", "acked", "receiving"} \subseteq Plain
  BY DEF Plain, State, Terminal

\* An outbound session that announces.
LEMMA AnnounceGood ==
    ASSUME NEW s \in Station, NEW H \in SUBSET Station, NEW m, NEW h \in Hop,
           GoodSession(m, s, H), m.dir = "out"
    PROVE  /\ GoodSession(Announce(m, h), s, H)
           /\ Announce(m, h).dir = "out"
           /\ Announce(m, h).st = "announcing"
           /\ Announce(m, h).prev = m.prev
  <1> DEFINE n == Announce(m, h)
  <1>1. m \in Session BY DEF GoodSession
  <1>2. /\ n \in Session /\ n.dir = m.dir /\ n.src = m.src /\ n.prev = m.prev
        /\ n.ttl = m.ttl /\ n.hops = m.hops /\ n.st = "announcing"
        /\ n.hollow = m.hollow
    BY <1>1 DEF Announce, Enter, Session, TxStage, State, Terminal
  <1> QED BY <1>2, KeepsGood

\* A flag of the search for a route does not matter.
LEMMA SearchFlags ==
    ASSUME NEW s \in Station, NEW H \in SUBSET Station, NEW m,
           GoodSession(m, s, H)
    PROVE  /\ GoodSession([m EXCEPT !.triedBackup = TRUE], s, H)
           /\ [m EXCEPT !.triedBackup = TRUE].dir = m.dir
           /\ [m EXCEPT !.triedBackup = TRUE].st = m.st
           /\ GoodSession([m EXCEPT !.blind = TRUE], s, H)
           /\ GoodSession([m EXCEPT !.triedBackup = TRUE, !.offers = {}], s, H)
           /\ [m EXCEPT !.triedBackup = TRUE, !.offers = {}].dir = m.dir
           /\ [m EXCEPT !.triedBackup = TRUE, !.offers = {}].st = m.st
           /\ GoodSession([m EXCEPT !.tried = TRUE], s, H)
           /\ [m EXCEPT !.tried = TRUE].dir = m.dir
           /\ [m EXCEPT !.tried = TRUE].st = m.st
  <1>1. m \in Session
    BY DEF GoodSession
  <1>2. GoodSession([m EXCEPT !.triedBackup = TRUE], s, H)
    BY DEF GoodSession, Session
  <1>3. GoodSession([m EXCEPT !.blind = TRUE], s, H)
    BY DEF GoodSession, Session
  <1>4. GoodSession([m EXCEPT !.triedBackup = TRUE, !.offers = {}], s, H)
    BY DEF GoodSession, Session
  <1>5. GoodSession([m EXCEPT !.tried = TRUE], s, H)
    BY DEF GoodSession, Session
  <1> QED
    BY <1>1, <1>2, <1>3, <1>4, <1>5 DEF Session

\* The tokens a handler writes are tokens.
LEMMA Tokens ==
    /\ {NoToken, A500, Calling, Channel} \subseteq Token
    /\ \A s \in Station : \A p \in Profiles[s] : p \in Token
  <1>1. {NoToken, A500, Calling, Channel} \subseteq Token BY DEF Token
  <1>2. ASSUME NEW s \in Station, NEW p \in Profiles[s] PROVE p \in Token
    BY DEF Token
  <1> QED BY <1>1, <1>2

\* The empty callsign and every station may stand as a hop.
LEMMA Hops0 == NoStation \in Hop /\ Station \subseteq Hop
  BY DEF Hop

\* A session as its dataclass creates it has its type.
LEMMA FreshSession ==
    ASSUME NEW dir \in {"none", "out", "in"}, NEW src \in Hop, NEW hop \in Hop,
           NEW prev \in Hop, NEW ttl \in Nat, NEW cap \in BOOLEAN
    PROVE  NewSession(dir, src, hop, prev, ttl, cap) \in Session
  <1>1. NoToken \in Token BY Tokens
  <1>2. "idle" \in State BY DEF State
  <1>3. "done" \in TxStage /\ "vara_p2p" \in Transport BY DEF TxStage, Transport
  <1>4. {} \in SUBSET Hop /\ {} \in SUBSET Station /\ <<>> \in Seq(Station)
    OBVIOUS
  <1>5. [w \in Late |-> 0] \in [Late -> Nat] OBVIOUS
  <1> QED BY <1>1, <1>2, <1>3, <1>4, <1>5 DEF NewSession, Session

\* Two sessions that differ in their receptions only.
Alike(m, n) == m \in Session /\ n \in Session /\ n = [m EXCEPT !.rx = n.rx, !.left = n.left]

\* What becomes of a reception leaves a session what it was.
LEMMA AlikeGood ==
    ASSUME NEW s \in Station, NEW H \in SUBSET Station, NEW m, NEW n,
           GoodSession(m, s, H), Alike(m, n)
    PROVE  GoodSession(n, s, H)
  <1>1. /\ n \in Session /\ n.dir = m.dir /\ n.src = m.src /\ n.prev = m.prev
        /\ n.ttl = m.ttl /\ n.st = m.st /\ n.hop = m.hop /\ n.hops = m.hops
        /\ n.hollow = m.hollow
    BY DEF Alike, Session
  <1> QED BY <1>1, KeepsGood

\* A reception that is left to itself is counted.
LEMMA DetachedAlike ==
    ASSUME NEW m \in Session
    PROVE  Alike(m, Detached(m)) /\ Detached(m).left \in [Late -> Nat]
  <1>1. Reception(m) \in Late BY DEF Reception, Late, Session
  <1>2. m.left \in [Late -> Nat] /\ m.rx \in BOOLEAN BY DEF Session
  <1> DEFINE l == [m.left EXCEPT ![Reception(m)] = @ + 1]
  <1>3. l \in [Late -> Nat] BY <1>1, <1>2
  <1>4. CASE ~m.rx
    <2>1. Detached(m) = m BY <1>4 DEF Detached
    <2>2. m = [m EXCEPT !.rx = m.rx, !.left = m.left] BY DEF Session
    <2> QED BY <1>2, <2>1, <2>2 DEF Alike
  <1>5. CASE m.rx
    <2>1. Detached(m) = [m EXCEPT !.rx = FALSE, !.left = l]
      BY <1>5 DEF Detached, Session
    <2> HIDE DEF l
    <2>2. [m EXCEPT !.rx = FALSE, !.left = l] \in Session
          /\ [m EXCEPT !.rx = FALSE, !.left = l].rx = FALSE
          /\ [m EXCEPT !.rx = FALSE, !.left = l].left = l
      BY <1>3 DEF Session
    <2> QED BY <1>3, <2>1, <2>2 DEF Alike
  <1> QED BY <1>4, <1>5

\* What such sessions have in common.
LEMMA AlikeFields ==
    ASSUME NEW m, NEW n, Alike(m, n)
    PROVE  /\ m \in Session /\ n \in Session /\ n.dir = m.dir /\ n.st = m.st
           /\ n.src = m.src /\ n.hop = m.hop /\ n.prev = m.prev /\ n.ttl = m.ttl
           /\ n.hops = m.hops /\ n.offers = m.offers /\ n.hollow = m.hollow
           /\ n.got = m.got
  BY DEF Alike, Session

\* A session that follows another one is a new one.
LEMMA AfterAlike ==
    ASSUME NEW m \in Session, NEW n \in Session
    PROVE  Alike(n, After(m, n))
  <1> DEFINE l == Detached(m).left
  <1>1. l \in [Late -> Nat] BY DetachedAlike
  <1>2. After(m, n) = [n EXCEPT !.left = l] BY DEF After
  <1> HIDE DEF l
  <1>3. [n EXCEPT !.left = l] \in Session /\ [n EXCEPT !.left = l].rx = n.rx
        /\ [n EXCEPT !.left = l].left = l
    BY <1>1 DEF Session
  <1>4. [n EXCEPT !.left = l] = [n EXCEPT !.rx = n.rx, !.left = l]
    BY DEF Session
  <1> QED BY <1>2, <1>3, <1>4 DEF Alike

\* A station without a session promises nothing.
LEMMA NoSessionGood ==
    ASSUME NEW s \in Station, NEW H \in SUBSET Station
    PROVE  GoodSession(NoSession, s, H)
  <1> DEFINE m == NewSession("none", NoStation, NoStation, NoStation, 0, FALSE)
  <1>1. m \in Session BY FreshSession, Hops0
  <1>2. m.dir = "none" /\ m.prev = NoStation /\ m.hops = <<>> /\ ~m.hollow
    BY DEF NewSession
  <1>3. NoSession = [m EXCEPT !.st = "none"] BY DEF NoSession
  <1>4. "none" \in State BY DEF State
  <1>5. /\ NoSession \in Session /\ NoSession.dir = "none"
        /\ NoSession.prev = NoStation /\ NoSession.hops = <<>>
        /\ NoSession.st = "none" /\ ~NoSession.hollow
    BY <1>1, <1>2, <1>3, <1>4 DEF Session
  <1> QED BY <1>5 DEF GoodSession

\* The outbound leg of a message a station has.
LEMMA LegGood ==
    ASSUME NEW H \in SUBSET Station, NEW s \in H, NEW prev \in H \cup {NoStation},
           NEW ttl \in Nat \ {0}, s # Dest, s \in Station, sess[s] \in Session
    PROVE  /\ GoodSession(Leg(s, prev, ttl), s, H)
           /\ Leg(s, prev, ttl).dir = "out"
           /\ Leg(s, prev, ttl).prev = prev
  <1> DEFINE new == NewSession("out", s, NoStation, prev, ttl, profile[s] # NoToken)
             m == Leg(s, prev, ttl)
  <1>1. new \in Session
    <2>1. /\ s \in Hop /\ NoStation \in Hop /\ prev \in Hop /\ ttl \in Nat
          /\ (profile[s] # NoToken) \in BOOLEAN
      BY Hops0
    <2> QED BY <2>1, FreshSession
  <1>2. /\ new.dir = "out" /\ new.prev = prev /\ new.ttl = ttl /\ new.st = "idle"
        /\ new.hops = <<>> /\ ~new.hollow
    BY DEF NewSession
  <1>3. GoodSession(new, s, H) BY <1>1, <1>2 DEF GoodSession
  <1>4. Alike(new, m) BY <1>1, AfterAlike DEF Leg
  <1> HIDE DEF new, m
  <1>5. m.dir = new.dir /\ m.prev = new.prev BY <1>4 DEF Alike, Session
  <1> QED BY <1>2, <1>3, <1>4, <1>5, AlikeGood DEF m

\* The outbound leg has its type.
LEMMA LegSession ==
    ASSUME NEW s \in Station, NEW prev \in Hop, NEW ttl \in Nat, sess[s] \in Session
    PROVE  /\ Leg(s, prev, ttl) \in Session
           /\ Leg(s, prev, ttl).dir = "out" /\ Leg(s, prev, ttl).prev = prev
           /\ Alike(NewSession("out", s, NoStation, prev, ttl, profile[s] # NoToken),
                    Leg(s, prev, ttl))
           /\ ~Leg(s, prev, ttl).hollow
  <1> DEFINE new == NewSession("out", s, NoStation, prev, ttl, profile[s] # NoToken)
  <1>1. s \in Hop /\ NoStation \in Hop /\ (profile[s] # NoToken) \in BOOLEAN
    BY Hops0
  <1>2. new \in Session BY <1>1, FreshSession
  <1>3. new.dir = "out" /\ new.prev = prev /\ ~new.hollow BY DEF NewSession
  <1>4. Leg(s, prev, ttl) = After(sess[s], new) BY DEF Leg
  <1> HIDE DEF new
  <1>5. Alike(new, Leg(s, prev, ttl)) BY <1>2, <1>4, AfterAlike
  <1> QED BY <1>3, <1>5, AlikeFields DEF new

\* The relay leg of a message is an outbound leg like any other.
LEMMA OnwardAlike ==
    ASSUME NEW s \in Station, NEW m \in Session, ~m.hollow, m.src \in Hop,
           m.ttl - 1 \in Nat, sess[s] \in Session
    PROVE  Alike(Leg(s, m.src, m.ttl - 1), Onward(s, m))
  <1> DEFINE leg == Leg(s, m.src, m.ttl - 1)
             n == After(m, leg)
  <1>1. leg \in Session /\ ~leg.hollow
    <2>1. PICK ttl \in Nat : ttl = m.ttl - 1 OBVIOUS
    <2> QED BY <2>1, LegSession
  <1>2. Onward(s, m) = [n EXCEPT !.hollow = m.hollow] BY DEF Onward
  <1> HIDE DEF leg
  <1>3. Alike(leg, n) BY <1>1, AfterAlike
  <1> HIDE DEF n
  <1>4. n \in Session /\ n.hollow = m.hollow
    BY <1>1, <1>3, AlikeFields DEF Session
  <1>5. [n EXCEPT !.hollow = n.hollow] = n BY <1>4 DEF Session
  <1> QED BY <1>2, <1>3, <1>4, <1>5 DEF leg

----------------------------------------------------------------------------
(* Frames                                                                  *)

\* What FrameTo puts into the fields of a frame.
LEMMA FrameToFacts ==
    ASSUME NEW s \in Station, NEW hop \in Hop, NEW type \in FrameType
    PROVE  /\ FrameTo(type, s, hop) \in Frame
           /\ FrameTo(type, s, hop).src = s /\ FrameTo(type, s, hop).hop = hop
           /\ FrameTo(type, s, hop).type = type
  <1>1. NoToken \in Token BY Tokens
  <1> QED BY <1>1 DEF FrameTo, Frame

\* A frame of an ordinary type is good whatever is stored where.
LEMMA OrdinaryFrame ==
    ASSUME NEW H, NEW s \in Station, NEW hop \in Hop, NEW type \in Ordinary
    PROVE  GoodFrame(FrameTo(type, s, hop), H) /\ FrameTo(type, s, hop).src = s
  BY FrameToFacts DEF GoodFrame, Ordinary

\* A frame that carries a profile or channel token.
LEMMA TokenedFrame ==
    ASSUME NEW H, NEW s \in Station, NEW hop \in Hop, NEW type \in Ordinary,
           NEW tok \in Token
    PROVE  /\ GoodFrame(Tokened(type, s, hop, tok), H)
           /\ Tokened(type, s, hop, tok).src = s
           /\ Tokened(type, s, hop, tok).type = type
  <1> DEFINE f == FrameTo(type, s, hop)
  <1>1. f \in Frame /\ f.src = s /\ f.type = type
    BY FrameToFacts DEF Ordinary
  <1>2. Tokened(type, s, hop, tok) = [f EXCEPT !.tok = tok] BY DEF Tokened
  <1>3. /\ [f EXCEPT !.tok = tok] \in Frame
        /\ [f EXCEPT !.tok = tok].src = s /\ [f EXCEPT !.tok = tok].type = type
    BY <1>1 DEF Frame
  <1> QED BY <1>2, <1>3 DEF GoodFrame, Ordinary

\* The types of frame that claim nothing about a mailbox.
LEMMA OrdinaryTypes ==
    Ordinary = {"ACK_HAVE", "START_VARA", "ROUTE_QUERY", "ROUTE_OFFER",
       "WORKING_OFFER", "WORKING_ACK", "G2_PROFILE_OFFER", "G2_PROFILE_ACK",
       "BUSY", "CANCEL"}
  BY DEF Ordinary, FrameType, RequestType

\* RECEIVED may be said by a station with the message.
LEMMA ReceivedFrame ==
    ASSUME NEW H, NEW s \in Station, NEW hop \in Hop, s \in H
    PROVE  /\ GoodFrame(FrameTo("RECEIVED", s, hop), H)
           /\ FrameTo("RECEIVED", s, hop).src = s
  BY FrameToFacts DEF GoodFrame, FrameType

\* A receipt names a holder, once the destination has the message.
LEMMA ReceiptFrame ==
    ASSUME NEW H \in SUBSET Station, NEW s \in Station, NEW hop \in H,
           NEW ttl \in Nat, Dest \in H
    PROVE  GoodFrame(Receipt(s, hop, ttl), H) /\ Receipt(s, hop, ttl).src = s
  <1> DEFINE f == FrameTo("DELIVERED", s, hop)
  <1>1. hop \in Hop BY Hops0
  <1>2. f \in Frame /\ f.src = s /\ f.type = "DELIVERED" /\ f.hop = hop
    BY <1>1, FrameToFacts DEF FrameType
  <1>3. Receipt(s, hop, ttl) = [f EXCEPT !.ttl = ttl] BY DEF Receipt
  <1> DEFINE g == [f EXCEPT !.ttl = ttl]
  <1>4. g \in Frame /\ g.src = s /\ g.hop = hop /\ g.type = "DELIVERED"
    BY <1>2 DEF Frame
  <1> QED BY <1>3, <1>4 DEF GoodFrame

\* HAVE_MSG may be said by a station with the message.
LEMMA AnnouncementFrame ==
    ASSUME NEW H, NEW s \in Station, s \in H, RestInv, NEW m \in Session, m.ttl # 0
    PROVE  GoodFrame(HaveMsg(s, m), H) /\ HaveMsg(s, m).src = s
  <1> DEFINE f == FrameTo("HAVE_MSG", s, m.hop)
             tok == IF m.cap /\ IsSC(profile[s]) THEN profile[s] ELSE NoToken
  <1>1. m.hop \in Hop /\ m.ttl \in Nat /\ m.cap \in BOOLEAN BY DEF Session
  <1>2. f \in Frame /\ f.src = s /\ f.type = "HAVE_MSG"
    BY <1>1, FrameToFacts DEF FrameType, RequestType
  <1>3. tok \in Token BY Tokens DEF RestInv
  <1>4. HaveMsg(s, m) = [f EXCEPT !.ttl = m.ttl, !.cap = m.cap, !.tok = tok]
    BY DEF HaveMsg
  <1> HIDE DEF f, tok
  <1> DEFINE g == [f EXCEPT !.ttl = m.ttl, !.cap = m.cap, !.tok = tok]
  <1>5. g \in Frame /\ g.src = s /\ g.type = "HAVE_MSG" /\ g.ttl = m.ttl
    BY <1>1, <1>2, <1>3 DEF Frame
  <1> QED BY <1>4, <1>5 DEF GoodFrame

\* An acknowledgement is an ordinary frame with two more fields.
LEMMA AckFrame ==
    ASSUME NEW H, NEW s \in Station, NEW m \in Session
    PROVE  GoodFrame(AckHave(s, m), H) /\ AckHave(s, m).src = s
  <1> DEFINE f == Tokened("ACK_HAVE", s, s, m.tok)
  <1>1. m.tok \in Token /\ m.cap \in BOOLEAN /\ s \in Hop
    BY Hops0 DEF Session
  <1>2. f \in Frame /\ f.src = s /\ f.type = "ACK_HAVE"
    BY <1>1, TokenedFrame, OrdinaryTypes DEF GoodFrame
  <1>3. AckHave(s, m) = [f EXCEPT !.cap = m.cap] BY DEF AckHave
  <1> HIDE DEF f
  <1> DEFINE g == [f EXCEPT !.cap = m.cap]
  <1>4. g \in Frame /\ g.src = s /\ g.type = "ACK_HAVE"
    BY <1>1, <1>2 DEF Frame
  <1> QED BY <1>3, <1>4 DEF GoodFrame

\* The CANCEL of a session is a good frame.
LEMMA CancelFrames ==
    ASSUME NEW H, NEW s \in Station, SessInv
    PROVE  \A f \in Cancelling(s) : GoodFrame(f, H) /\ f.src = s
  <1>1. sess[s].hop \in Hop BY DEF SessInv, Session
  <1>2. "CANCEL" \in Ordinary BY OrdinaryTypes
  <1> QED BY <1>1, <1>2, OrdinaryFrame DEF Cancelling, Say

\* The ROUTE_QUERY that goes out with a session is a good frame.
LEMMA QueryFrames ==
    ASSUME NEW H, NEW s \in Station, NEW m
    PROVE  \A f \in Queries(s, m) : GoodFrame(f, H) /\ f.src = s
  <1>1. "ROUTE_QUERY" \in Ordinary BY OrdinaryTypes
  <1>2. NoStation \in Hop BY Hops0
  <1> QED BY <1>1, <1>2, OrdinaryFrame DEF Queries

----------------------------------------------------------------------------
(* The parts of the invariant under a step that loses no copy              *)

\* A good session replaces another while nobody loses a copy.
LEMMA SessionsGrow ==
    ASSUME SessInv, Holders \subseteq Holders', NEW s \in Station, NEW n,
           sess' = [sess EXCEPT ![s] = n] \/ sess' = sess,
           sess' = sess \/ GoodSession(n, s, Holders')
    PROVE  SessInv'
  <1>1. ASSUME NEW t \in Station, sess'[t] = sess[t]
        PROVE  GoodSession(sess'[t], t, Holders')
    BY <1>1 DEF SessInv, GoodSession
  <1>2. CASE sess' = sess
    BY <1>1, <1>2 DEF SessInv
  <1>3. CASE sess' = [sess EXCEPT ![s] = n] /\ GoodSession(n, s, Holders')
    <2>1. n \in Session BY <1>3 DEF GoodSession
    <2>2. sess' \in [Station -> Session] BY <1>3, <2>1 DEF SessInv
    <2>3. \A t \in Station : sess'[t] = IF t = s THEN n ELSE sess[t]
      BY <1>3 DEF SessInv
    <2> QED BY <1>1, <1>3, <2>2, <2>3 DEF SessInv
  <1> QED BY <1>2, <1>3

\* A good mailbox entry replaces another while nobody loses a copy.
LEMMA MailGrows ==
    ASSUME MailInv, Holders \subseteq Holders', NEW s \in Station, NEW e,
           mail' = [mail EXCEPT ![s] = e] \/ mail' = mail,
           mail' = mail \/ GoodMail(e, s, Holders')
    PROVE  MailInv'
  <1>1. ASSUME NEW t \in Station, mail'[t] = mail[t]
        PROVE  GoodMail(mail'[t], t, Holders')
    BY <1>1 DEF MailInv, GoodMail
  <1>2. CASE mail' = mail
    BY <1>1, <1>2 DEF MailInv
  <1>3. CASE mail' = [mail EXCEPT ![s] = e] /\ GoodMail(e, s, Holders')
    <2>1. e \in Mail BY <1>3 DEF GoodMail
    <2>2. mail' \in [Station -> Mail] BY <1>3, <2>1 DEF MailInv
    <2>3. \A t \in Station : mail'[t] = IF t = s THEN e ELSE mail[t]
      BY <1>3 DEF MailInv
    <2> QED BY <1>1, <1>3, <2>2, <2>3 DEF MailInv
  <1> QED BY <1>2, <1>3

\* A good frame stays good while nobody loses a copy.
LEMMA FrameGrows ==
    ASSUME NEW H, NEW J, H \subseteq J, NEW f, GoodFrame(f, H)
    PROVE  GoodFrame(f, J)
  BY DEF GoodFrame

\* Frames leave the transmit queue, and good ones are added to it.
LEMMA QueueGrows ==
    ASSUME TxqInv, Holders \subseteq Holders', NEW s \in Station, NEW Q,
           txq' = [txq EXCEPT ![s] = Q] \/ txq' = txq,
           \/ txq' = txq
           \/ \A f \in Q : f \in txq[s] \/ (GoodFrame(f, Holders') /\ f.src = s)
    PROVE  TxqInv'
  <1>1. ASSUME NEW t \in Station, NEW f \in txq[t]
        PROVE  GoodFrame(f, Holders') /\ f.src = t
    BY <1>1, FrameGrows DEF TxqInv
  <1>2. CASE txq' = txq
    BY <1>1, <1>2 DEF TxqInv
  <1>3. CASE /\ txq' = [txq EXCEPT ![s] = Q]
             /\ \A f \in Q : f \in txq[s] \/ (GoodFrame(f, Holders') /\ f.src = s)
    <2>1. \A f \in Q : GoodFrame(f, Holders') /\ f.src = s BY <1>1, <1>3
    <2>2. Q \in SUBSET Frame BY <2>1 DEF GoodFrame
    <2>3. txq' \in [Station -> SUBSET Frame] BY <1>3, <2>2 DEF TxqInv
    <2>4. \A t \in Station : txq'[t] = IF t = s THEN Q ELSE txq[t]
      BY <1>3 DEF TxqInv
    <2> QED BY <1>1, <2>1, <2>3, <2>4 DEF TxqInv
  <1> QED BY <1>2, <1>3

\* Queueing good frames, with or without withdrawing requests.
LEMMA SendGood ==
    ASSUME TxqInv, Holders \subseteq Holders', NEW s \in Station, NEW frames,
           \A f \in frames : GoodFrame(f, Holders') /\ f.src = s,
           Send(s, frames) \/ SendAndStop(s, frames) \/ UNCHANGED txq
    PROVE  TxqInv'
  <1>1. CASE Send(s, frames)
    <2> DEFINE Q == txq[s] \cup frames
    <2>1. txq' = [txq EXCEPT ![s] = Q] BY <1>1 DEF Send
    <2>2. \A f \in Q : f \in txq[s] \/ (GoodFrame(f, Holders') /\ f.src = s)
      OBVIOUS
    <2> HIDE DEF Q
    <2> QED BY <2>1, <2>2, QueueGrows
  <1>2. CASE SendAndStop(s, frames)
    <2> DEFINE Q == Answers(txq[s] \cup frames)
    <2>1. txq' = [txq EXCEPT ![s] = Q] BY <1>2 DEF SendAndStop
    <2>2. \A f \in Q : f \in txq[s] \/ (GoodFrame(f, Holders') /\ f.src = s)
      BY DEF Answers
    <2> HIDE DEF Q
    <2> QED BY <2>1, <2>2, QueueGrows
  <1>3. CASE UNCHANGED txq
    BY <1>3, QueueGrows
  <1> QED BY <1>1, <1>2, <1>3

\* Frames waiting to be handled stay good.
LEMMA InboxKept ==
    ASSUME InboxInv, Holders \subseteq Holders', UNCHANGED inbox
    PROVE  InboxInv'
  BY FrameGrows DEF InboxInv

\* The net thread takes a frame.
LEMMA InboxTail ==
    ASSUME InboxInv, Holders \subseteq Holders', NEW s \in Station,
           inbox[s] # <<>>, inbox' = [inbox EXCEPT ![s] = Tail(@)]
    PROVE  InboxInv'
  <1>1. inbox[s] \in Seq(Frame) BY DEF InboxInv
  <1>2. Tail(inbox[s]) \in Seq(Frame) BY <1>1
  <1>3. inbox' \in [Station -> Seq(Frame)] BY <1>2 DEF InboxInv
  <1>4. ASSUME NEW t \in Station, NEW i \in 1..Len(inbox'[t])
        PROVE  GoodFrame(inbox'[t][i], Holders') /\ inbox'[t][i].src # t
    <2>1. CASE t = s
      <3>1. inbox'[t] = Tail(inbox[s]) BY <2>1 DEF InboxInv
      <3>2. /\ Len(Tail(inbox[s])) = Len(inbox[s]) - 1
            /\ \A j \in 1..Len(Tail(inbox[s])) : Tail(inbox[s])[j] = inbox[s][j + 1]
        BY <1>1
      <3>3. Len(inbox[s]) \in Nat BY <1>1
      <3>4. i \in 1..Len(Tail(inbox[s])) BY <3>1, <1>4
      <3>5. i + 1 \in 1..Len(inbox[s]) BY <3>2, <3>3, <3>4
      <3>6. inbox'[t][i] = inbox[s][i + 1] BY <3>1, <3>2, <3>4
      <3> QED BY <2>1, <3>5, <3>6, FrameGrows DEF InboxInv
    <2>2. CASE t # s
      <3>1. inbox'[t] = inbox[t] BY <2>2 DEF InboxInv
      <3> QED BY <3>1, <1>4, FrameGrows DEF InboxInv
    <2> QED BY <2>1, <2>2
  <1> QED BY <1>3, <1>4 DEF InboxInv

\* The frame the net thread takes is good, and of another station.
LEMMA HeadGood ==
    ASSUME InboxInv, NEW s \in Station, inbox[s] # <<>>
    PROVE  GoodFrame(Head(inbox[s]), Holders) /\ Head(inbox[s]).src # s
  <1>1. inbox[s] \in Seq(Frame) BY DEF InboxInv
  <1>2. 1 \in 1..Len(inbox[s]) /\ Head(inbox[s]) = inbox[s][1] BY <1>1
  <1> QED BY <1>2 DEF InboxInv

\* The same of the frame a handler was given.
LEMMA HeardGood ==
    ASSUME InboxInv, Holders \subseteq Holders', NEW s \in Station, NEW f,
           NEW type, Heard(s, f, type)
    PROVE  /\ InboxInv' /\ GoodFrame(f, Holders)
           /\ f.src \in Station /\ f.hop \in Hop /\ f.ttl \in Nat
           /\ f.cap \in BOOLEAN /\ f.tok \in Token
           /\ f.src # s /\ f.type = type
  <1>1. InboxInv' BY InboxTail DEF Heard
  <1>2. GoodFrame(f, Holders) /\ f.src # s /\ f.type = type
    BY HeadGood DEF Heard
  <1> QED BY <1>1, <1>2 DEF GoodFrame, Frame

\* A good frame goes on the air.
LEMMA AirGood ==
    ASSUME InboxInv, Holders \subseteq Holders', NEW s \in Station, NEW f,
           GoodFrame(f, Holders), f.src = s, Air(s, f)
    PROVE  InboxInv'
  <1>1. f \in Frame /\ GoodFrame(f, Holders') BY FrameGrows DEF GoodFrame
  <1>2. \A t \in Station : inbox[t] \in Seq(Frame) BY DEF InboxInv
  <1>3. \A t \in Station : \/ inbox'[t] = inbox[t]
                           \/ t # s /\ inbox'[t] = Append(inbox[t], f)
    BY DEF Air, Hears
  <1>4. inbox' \in [Station -> Seq(Frame)]
    <2>1. \A t \in Station : (IF Hears(s, t, f) THEN Append(inbox[t], f)
                              ELSE inbox[t]) \in Seq(Frame)
      BY <1>1, <1>2
    <2> QED BY <2>1 DEF Air
  <1>5. ASSUME NEW t \in Station, NEW i \in 1..Len(inbox'[t])
        PROVE  GoodFrame(inbox'[t][i], Holders') /\ inbox'[t][i].src # t
    <2>1. CASE inbox'[t] = inbox[t]
      BY <2>1, <1>5, FrameGrows DEF InboxInv
    <2>2. CASE t # s /\ inbox'[t] = Append(inbox[t], f)
      <3>1. Len(inbox[t]) \in Nat /\ Len(Append(inbox[t], f)) = Len(inbox[t]) + 1
        BY <1>1, <1>2
      <3>2. CASE i = Len(inbox[t]) + 1
        <4>1. inbox'[t][i] = f BY <1>1, <1>2, <2>2, <3>2
        <4> QED BY <4>1, <1>1, <2>2
      <3>3. CASE i # Len(inbox[t]) + 1
        <4>1. i \in 1..Len(inbox[t]) BY <3>1, <3>3, <2>2, <1>5
        <4>2. inbox'[t][i] = inbox[t][i] BY <4>1, <1>1, <1>2, <2>2
        <4> QED BY <4>1, <4>2, FrameGrows DEF InboxInv
      <3> QED BY <3>2, <3>3
    <2> QED BY <1>3, <2>1, <2>2
  <1> QED BY <1>4, <1>5 DEF InboxInv

----------------------------------------------------------------------------
(* A session moves on, and the mailbox follows                             *)

\* _session_event files a good entry, and only ever as sent mail.
LEMMA FiledGood ==
    ASSUME NEW s \in Station, NEW H \in SUBSET Station, NEW e, NEW m,
           GoodMail(e, s, H), GoodSession(m, s, H)
    PROVE  /\ GoodMail(MailAfter(e, m), s, H)
           /\ \/ MailAfter(e, m).box = e.box
              \/ /\ MailAfter(e, m).box = "sent" /\ e.box # "none"
                 /\ s # Dest /\ H \ {s} # {}
  <1>1. CASE m.dir # "out" \/ e.box = "none"
    BY <1>1 DEF MailAfter
  <1>2. CASE m.dir = "out" /\ e.box # "none"
    <2>1. MailAfter(e, m) = Filed(e, m.st) BY <1>2 DEF MailAfter
    <2>2. s # Dest /\ e \in Mail BY <1>2 DEF GoodSession, GoodMail
    <2>3. CASE m.st = "delivered"
      <3>1. Filed(e, m.st) = [e EXCEPT !.box = "sent", !.status = "delivered"]
        BY <2>3 DEF Filed
      <3>2. Dest \in H BY <2>3 DEF GoodSession
      <3> QED BY <1>2, <2>1, <2>2, <3>1, <3>2 DEF GoodMail, Mail
    <2>4. CASE m.st \in {"confirmed", "forwarded"}
      <3>1. Filed(e, m.st) = [e EXCEPT !.box = "sent", !.status = "forwarded"]
        BY <2>4 DEF Filed
      <3>2. m.hop \in H \ {s} BY <1>2, <2>4 DEF GoodSession
      <3> QED BY <1>2, <2>1, <2>2, <3>1, <3>2 DEF GoodMail, Mail
    <2>5. CASE m.st \in {"failed", "cancelled"}
      <3>1. \E v \in {"waiting", "failed"} : Filed(e, m.st) = [e EXCEPT !.status = v]
        BY <2>5 DEF Filed
      <3> QED BY <2>1, <2>2, <3>1 DEF GoodMail, Mail
    <2>6. CASE m.st \notin {"delivered", "confirmed", "forwarded", "failed", "cancelled"}
      <3>1. Filed(e, m.st) = e BY <2>6 DEF Filed
      <3> QED BY <2>1, <3>1
    <2> QED BY <2>3, <2>4, <2>5, <2>6
  <1> QED BY <1>1, <1>2

\* A session and its mailbox entry change together.
LEMMA BecomeGood ==
    ASSUME SessInv, MailInv, NEW s \in Station, NEW m,
           GoodSession(m, s, Holders), Become(s, m)
    PROVE  Holders' = Holders /\ SessInv' /\ MailInv' /\ CustodyStep
  <1> DEFINE e == MailAfter(mail[s], m)
  <1>1. GoodMail(mail[s], s, Holders) BY DEF MailInv
  <1>2. Holders \in SUBSET Station BY DEF Holders
  <1>3. /\ GoodMail(e, s, Holders)
        /\ \/ e.box = mail[s].box
           \/ /\ e.box = "sent" /\ mail[s].box # "none"
              /\ s # Dest /\ Holders \ {s} # {}
    BY <1>1, <1>2, FiledGood
  <1>4. mail' = [mail EXCEPT ![s] = e] /\ sess' = [sess EXCEPT ![s] = m]
    BY DEF Become
  <1> HIDE DEF e
  <1>5. \A t \in Station : mail'[t] = IF t = s THEN e ELSE mail[t]
    BY <1>4 DEF MailInv
  <1>6. Holders' = Holders BY <1>3, <1>5 DEF Holders, Holds
  <1>7. SessInv' BY <1>4, <1>6, SessionsGrow
  <1>8. MailInv' BY <1>3, <1>4, <1>6, MailGrows
  <1>9. CASE e.box = mail[s].box
    <2>1. Owners' = Owners BY <1>5, <1>9 DEF Owners
    <2> QED BY <1>6, <1>7, <1>8, <2>1 DEF CustodyStep
  <1>10. CASE /\ e.box = "sent" /\ mail[s].box # "none"
              /\ s # Dest /\ Holders \ {s} # {}
    <2>1. Owners' = Owners \ {s} BY <1>5, <1>10 DEF Owners
    <2>2. Promise!Release(s)
      BY <1>6, <1>10, <2>1 DEF Promise!Release, Holders
    <2> QED BY <1>6, <1>7, <1>8, <2>2 DEF CustodyStep
  <1> QED BY <1>3, <1>9, <1>10

\* A step of a timer or a payload that moves one session on and queues frames.
LEMMA LocalStep ==
    ASSUME IInv, NEW s \in Station, NEW m, NEW frames,
           GoodSession(m, s, Holders), Become(s, m),
           \A f \in frames : GoodFrame(f, Holders) /\ f.src = s,
           Send(s, frames) \/ SendAndStop(s, frames) \/ UNCHANGED txq,
           InboxInv', RestInv'
    PROVE  Good
  <1>1. Holders' = Holders /\ SessInv' /\ MailInv' /\ CustodyStep
    BY BecomeGood DEF IInv
  <1>2. \A f \in frames : GoodFrame(f, Holders') /\ f.src = s BY <1>1
  <1>3. TxqInv' BY <1>1, <1>2, SendGood DEF IInv
  <1> QED BY <1>1, <1>3 DEF Good, IInv

\* What no timer, operator or payload completion touches.
LEMMA TimerRestGood ==
    ASSUME IInv, TimerRest, Holders \subseteq Holders'
    PROVE  InboxInv' /\ RestInv'
  <1>1. InboxInv' BY InboxKept DEF IInv, TimerRest, StationRest, AllButLate
  <1> QED BY <1>1 DEF IInv, RestInv, TimerRest, StationRest, AllButLate

\* A timer, a payload or the operator moves the session on, or fails it.
LEMMA TimerStep ==
    ASSUME IInv, NEW s \in Station, NEW m, NEW frames, TimerRest,
           GoodSession(m, s, Holders),
           \A f \in frames : GoodFrame(f, Holders) /\ f.src = s,
           \/ Become(s, m) /\ (\/ Send(s, frames) \/ SendAndStop(s, frames)
                                \/ UNCHANGED txq)
           \/ FailWith(s, m, frames)
    PROVE  Good
  <1> DEFINE n == Enter(m, "failed")
  <1>1. Holders \in SUBSET Station BY DEF Holders
  <1>2. GoodSession(n, s, Holders) BY <1>1, EnterGood, PlainStates
  <1> HIDE DEF n
  <1>3. CASE Become(s, m) /\ (\/ Send(s, frames) \/ SendAndStop(s, frames)
                              \/ UNCHANGED txq)
    <2>1. Holders' = Holders BY <1>3, BecomeGood DEF IInv
    <2>2. InboxInv' /\ RestInv' BY <2>1, TimerRestGood
    <2> QED BY <1>3, <2>2, LocalStep
  <1>4. CASE FailWith(s, m, frames)
    <2>1. Become(s, n) /\ SendAndStop(s, frames) BY <1>4 DEF FailWith, n
    <2>2. Holders' = Holders BY <1>2, <2>1, BecomeGood DEF IInv
    <2>3. InboxInv' /\ RestInv' BY <2>2, TimerRestGood
    <2> QED BY <1>2, <2>1, <2>3, LocalStep
  <1> QED BY <1>3, <1>4

\* A timer that transmits nothing.
LEMMA QuietTimer ==
    ASSUME IInv, NEW s \in Station, NEW m, TimerRest,
           GoodSession(m, s, Holders), Become(s, m), UNCHANGED txq
    PROVE  Good
  <1> DEFINE none == {}
  <1>1. \A f \in none : GoodFrame(f, Holders) /\ f.src = s OBVIOUS
  <1> HIDE DEF none
  <1>2. Become(s, m) /\ (\/ Send(s, none) \/ SendAndStop(s, none)
                         \/ UNCHANGED txq)
    OBVIOUS
  <1> QED BY <1>1, <1>2, TimerStep

\* So does the handler of a heard frame.
LEMMA HandlerStep ==
    ASSUME IInv, NEW s \in Station, NEW m, NEW frames, NEW g, NEW type,
           Heard(s, g, type), RxRest, learned' \in [Station -> Hop],
           GoodSession(m, s, Holders),
           \A f \in frames : GoodFrame(f, Holders) /\ f.src = s,
           \/ Become(s, m) /\ (\/ Send(s, frames) \/ SendAndStop(s, frames)
                                \/ UNCHANGED txq)
           \/ FailWith(s, m, frames)
    PROVE  Good
  <1> DEFINE n == Enter(m, "failed")
  <1>1. Holders \in SUBSET Station BY DEF Holders
  <1>2. GoodSession(n, s, Holders) BY <1>1, EnterGood, PlainStates
  <1>3. RestInv' BY DEF IInv, RestInv, RxRest
  <1> HIDE DEF n
  <1>4. CASE Become(s, m) /\ (\/ Send(s, frames) \/ SendAndStop(s, frames)
                              \/ UNCHANGED txq)
    <2>1. Holders' = Holders BY <1>4, BecomeGood DEF IInv
    <2>2. InboxInv' BY <2>1, HeardGood DEF IInv
    <2> QED BY <1>3, <1>4, <2>2, LocalStep
  <1>5. CASE FailWith(s, m, frames)
    <2>1. Become(s, n) /\ SendAndStop(s, frames) BY <1>5 DEF FailWith, n
    <2>2. Holders' = Holders BY <1>2, <2>1, BecomeGood DEF IInv
    <2>3. InboxInv' BY <2>2, HeardGood DEF IInv
    <2> QED BY <1>2, <1>3, <2>1, <2>3, LocalStep
  <1> QED BY <1>4, <1>5

\* A frame handler that transmits nothing.
LEMMA QuietHandler ==
    ASSUME IInv, NEW s \in Station, NEW m, NEW g, NEW type,
           Heard(s, g, type), RxRest, learned' \in [Station -> Hop],
           GoodSession(m, s, Holders), Become(s, m), UNCHANGED txq
    PROVE  Good
  <1> DEFINE none == {}
  <1>1. \A f \in none : GoodFrame(f, Holders) /\ f.src = s OBVIOUS
  <1> HIDE DEF none
  <1>2. Become(s, m) /\ (\/ Send(s, none) \/ SendAndStop(s, none)
                         \/ UNCHANGED txq)
    OBVIOUS
  <1> QED BY <1>1, <1>2, HandlerStep

\* The session of a station is good.
LEMMA Here ==
    ASSUME IInv, NEW s \in Station
    PROVE  /\ GoodSession(sess[s], s, Holders) /\ sess[s] \in Session
           /\ Holders \in SUBSET Station
           /\ \A st \in Plain : GoodSession(Enter(sess[s], st), s, Holders)
           /\ learned \in [Station -> Hop] /\ profile[s] \in Token
  <1>1. GoodSession(sess[s], s, Holders) /\ Holders \in SUBSET Station
    BY DEF IInv, SessInv, Holders
  <1>2. \A st \in Plain : GoodSession(Enter(sess[s], st), s, Holders)
    BY <1>1, EnterGood
  <1> QED BY <1>1, <1>2 DEF GoodSession, IInv, RestInv

----------------------------------------------------------------------------
(* How a leg starts                                                        *)

\* Routing names stations.
LEMMA HopsAreHops ==
    ASSUME RestInv, NEW s \in Station, NEW exclude, NEW now \in Evidence[s]
    PROVE  Hops(s, exclude, now) \subseteq Hop
  <1>1. now \subseteq Station BY StationAssumption
  <1> QED BY <1>1 DEF Hops, Hop, RestInv

\* Entering multi-hop discovery.
LEMMA MultihopGood ==
    ASSUME NEW s \in Station, NEW H \in SUBSET Station, NEW m,
           GoodSession(m, s, H)
    PROVE  /\ GoodSession(Multihop(m), s, H)
           /\ Multihop(m).dir = m.dir /\ Multihop(m).prev = m.prev
  <1> DEFINE n == Enter(m, "multihop-discovery")
  <1>1. m \in Session /\ "multihop-discovery" \in State
    BY PlainStates DEF GoodSession, Plain
  <1>2. n \in Session /\ n.dir = m.dir /\ n.prev = m.prev BY <1>1, EnterFacts
  <1>3. GoodSession(n, s, H) BY EnterGood, PlainStates
  <1>4. Multihop(m) = [n EXCEPT !.tried = TRUE] BY DEF Multihop
  <1> HIDE DEF n
  <1>5. /\ [n EXCEPT !.tried = TRUE].dir = n.dir
        /\ [n EXCEPT !.tried = TRUE].prev = n.prev
    BY <1>2 DEF Session
  <1>6. GoodSession([n EXCEPT !.tried = TRUE], s, H) BY <1>3, SearchFlags
  <1> QED BY <1>2, <1>4, <1>5, <1>6

\* Every way an outbound leg may start.
LEMMA LaunchGood ==
    ASSUME RestInv, NEW s \in Station, NEW H \in SUBSET Station, NEW m,
           GoodSession(m, s, H), m.dir = "out", NEW otherwise,
           GoodSession(otherwise, s, H), otherwise.dir = "out",
           otherwise.prev = m.prev, NEW n \in Launch(s, m, otherwise)
    PROVE  GoodSession(n, s, H) /\ n.dir = "out" /\ n.prev = m.prev
  <1>1. PICK now \in Evidence[s] :
            LET hops == Hops(s, {m.prev}, now) IN
            n \in IF hops # {} THEN {Announce(m, h) : h \in hops}
                  ELSE IF CanDiscover(s, m) THEN {Multihop(m)}
                  ELSE IF AutoRoute[s] THEN {Enter(m, "discovery")}
                  ELSE {otherwise}
    BY DEF Launch
  <1> DEFINE hops == Hops(s, {m.prev}, now)
  <1>2. m \in Session /\ "discovery" \in State
    BY PlainStates DEF GoodSession, Plain
  <1>3. hops \subseteq Hop BY HopsAreHops
  <1>4. CASE hops # {}
    <2>1. PICK h \in hops : n = Announce(m, h) BY <1>1, <1>4
    <2> QED BY <1>3, <2>1, AnnounceGood
  <1>5. CASE hops = {} /\ CanDiscover(s, m)
    BY <1>1, <1>5, MultihopGood
  <1>6. CASE n = Enter(m, "discovery")
    BY <1>2, <1>6, EnterGood, EnterFacts, PlainStates
  <1>7. CASE n = otherwise
    BY <1>7
  <1> QED BY <1>1, <1>4, <1>5, <1>6, <1>7

----------------------------------------------------------------------------
(* The operator and the route plane                                        *)

\* send_queued, by the operator or by the mail sweep.
LEMMA QueueStep ==
    ASSUME IInv, NEW s \in Station, Queue(s)
    PROVE  Good
  <1> DEFINE e == mail[s]
             m == Leg(s, e.prev, e.ttl)
  <1>1. GoodMail(e, s, Holders) /\ e \in Mail BY DEF IInv, MailInv
  <1>2. Holders \in SUBSET Station BY DEF Holders
  <1>3. /\ e.box \in {"outbox", "transit"} /\ e.ttl \in Nat \ {0}
        /\ s \in Holders /\ s # Dest
        /\ e.prev \in Holders \cup {NoStation}
    BY <1>1 DEF Queue, GoodMail, Mail, Holders, Holds
  <1>4. GoodSession(m, s, Holders) /\ m.dir = "out" /\ m.prev = e.prev
    <2>1. PICK prev, ttl : prev = e.prev /\ ttl = e.ttl
      OBVIOUS
    <2>2. prev \in Holders \cup {NoStation} /\ ttl \in Nat \ {0} /\ s \in Holders /\ s # Dest
      BY <1>3, <2>1
    <2>3. PICK l : l = Leg(s, prev, ttl)
      OBVIOUS
    <2>4. GoodSession(l, s, Holders) /\ l.dir = "out" /\ l.prev = prev
      BY <1>2, <2>2, <2>3, Here, LegGood
    <2>5. m = l
      BY <2>1, <2>3
    <2> QED
      BY <2>1, <2>4, <2>5
  <1>5. PICK n \in Launch(s, m, Announce(m, Dest)) :
            /\ sess' = [sess EXCEPT ![s] = n]
            /\ mail' = [mail EXCEPT ![s].status = "sending"]
            /\ Send(s, Queries(s, n))
    BY DEF Queue
  <1> HIDE DEF m
  <1>6. Dest \in Hop BY StationAssumption DEF Hop
  <1>7. /\ GoodSession(Announce(m, Dest), s, Holders)
        /\ Announce(m, Dest).dir = "out" /\ Announce(m, Dest).prev = m.prev
    BY <1>2, <1>4, <1>6, AnnounceGood
  <1>8. GoodSession(n, s, Holders)
    BY <1>2, <1>4, <1>5, <1>7, LaunchGood DEF IInv
  <1> DEFINE e2 == [e EXCEPT !.status = "sending"]
  <1>9. mail' = [mail EXCEPT ![s] = e2] BY <1>5 DEF IInv, MailInv
  <1>10. e2.box = e.box /\ GoodMail(e2, s, Holders) BY <1>1 DEF GoodMail, Mail
  <1> HIDE DEF e, e2
  <1>11. \A t \in Station : mail'[t].box = mail[t].box
    BY <1>9, <1>10 DEF IInv, MailInv, e
  <1>12. Holders' = Holders /\ Owners' = Owners
    BY <1>11 DEF Holders, Holds, Owners
  <1>13. SessInv' /\ MailInv'
    BY <1>5, <1>8, <1>9, <1>10, <1>12, SessionsGrow, MailGrows DEF IInv
  <1>14. TxqInv' BY <1>5, <1>12, QueryFrames, SendGood DEF IInv
  <1>15. InboxInv' BY <1>12, InboxKept DEF IInv, Queue, StationRest, AllButLate
  <1>16. RestInv' BY DEF IInv, RestInv, Queue, StationRest, AllButLate
  <1> QED BY <1>12, <1>13, <1>14, <1>15, <1>16 DEF Good, IInv, CustodyStep

\* cancel.
LEMMA CancelStep ==
    ASSUME IInv, NEW s \in Station, Cancel(s)
    PROVE  Good
  <1> DEFINE n == Enter(sess[s], "cancelled")
  <1>1. GoodSession(n, s, Holders) BY Here, PlainStates
  <1>2. Become(s, n) /\ TimerRest BY DEF Cancel
  <1> HIDE DEF n
  <1>3. Holders' = Holders /\ SessInv' /\ MailInv' /\ CustodyStep
    BY <1>1, <1>2, BecomeGood DEF IInv
  <1> DEFINE Q == Answers(txq[s]) \cup Cancelling(s)
  <1>4. txq' = [txq EXCEPT ![s] = Q] BY DEF Cancel
  <1>5. \A f \in Q : f \in txq[s] \/ (GoodFrame(f, Holders') /\ f.src = s)
    BY CancelFrames DEF Answers, IInv
  <1> HIDE DEF Q
  <1>6. TxqInv' BY <1>3, <1>4, <1>5, QueueGrows DEF IInv
  <1>7. InboxInv' /\ RestInv' BY <1>2, <1>3, TimerRestGood
  <1> QED BY <1>3, <1>6, <1>7 DEF Good, IInv

\* Without a change of mail the mailboxes keep their copies.
LEMMA NothingMailed ==
    ASSUME IInv, UNCHANGED mail
    PROVE  Holders' = Holders /\ Owners' = Owners /\ MailInv'
  BY DEF Holders, Holds, Owners, IInv, MailInv

\* A change of the own profile.
LEMMA ReconfigureStep ==
    ASSUME IInv, NEW s \in Station, Reconfigure(s)
    PROVE  Good
  <1>1. Holders' = Holders /\ Owners' = Owners /\ MailInv'
    BY NothingMailed DEF Reconfigure
  <1>2. UNCHANGED <<sess, txq, inbox>> BY DEF Reconfigure
  <1>3. SessInv' /\ TxqInv' /\ InboxInv'
    BY <1>1, <1>2, SessionsGrow, QueueGrows, InboxKept DEF IInv
  <1>4. profile' \in [Station -> Token] BY Tokens DEF Reconfigure, IInv, RestInv
  <1>5. RestInv' BY <1>4 DEF Reconfigure, IInv, RestInv
  <1> QED BY <1>1, <1>3, <1>5 DEF Good, IInv, CustodyStep

\* A discovered or approved route, or a live one: its first hop is announced to.
LEMMA RouteFound ==
    ASSUME IInv, NEW s \in Station, NEW hop \in Hop, sess[s].dir = "out",
           Become(s, Announce(sess[s], hop)), TimerRest,
           UNCHANGED txq \/ SendAndStop(s, {})
    PROVE  Good
  <1>1. GoodSession(Announce(sess[s], hop), s, Holders) BY Here, AnnounceGood
  <1> QED BY <1>1, TimerStep

\* The results of route discovery.
LEMMA DiscovererStep ==
    ASSUME IInv, NEW s \in Station, Discoverer(s) \/ Approve(s)
    PROVE  Good
  <1>1. Neighbours(s) \subseteq Hop BY DEF Neighbours, Hop
  <1>2. CASE Approve(s)
    BY <1>1, <1>2, RouteFound DEF Approve, Out
  <1>3. CASE DiscoveryResult(s)
    <2>1. CASE Become(s, Enter(sess[s], "route-approval"))
      <3>1. GoodSession(Enter(sess[s], "route-approval"), s, Holders)
        BY Here, PlainStates
      <3> QED BY <1>3, <2>1, <3>1, QuietTimer DEF DiscoveryResult
    <2>2. CASE \E hop \in Neighbours(s) : Become(s, Announce(sess[s], hop))
      BY <1>1, <1>3, <2>2, RouteFound DEF DiscoveryResult, Out
    <2> QED BY <1>3, <2>1, <2>2 DEF DiscoveryResult
  <1>4. CASE DiscoveryFailure(s)
    BY <1>4, Here, TimerStep DEF DiscoveryFailure
  <1>5. CASE ResumeRoute(s)
    <2>1. PICK now \in Evidence[s] :
            \E hop \in Hops(s, sess[s].failed \cup {sess[s].prev}, now) :
                Become(s, Announce(sess[s], hop))
      BY <1>5 DEF ResumeRoute
    <2>2. PICK hop \in Hop : Become(s, Announce(sess[s], hop))
      BY <2>1, HopsAreHops DEF IInv
    <2> QED BY <1>5, <2>2, RouteFound DEF ResumeRoute, Out
  <1> QED BY <1>2, <1>3, <1>4, <1>5 DEF Discoverer

----------------------------------------------------------------------------
(* Payload completions                                                     *)

\* A payload reaches the backend of the receiver.
LEMMA PayloadArrivesStep ==
    ASSUME IInv, NEW a \in Station, NEW r \in Station, PayloadArrives(a, r)
    PROVE  Good
  <1> DEFINE m == sess[r]
             hops == mail[a].hops
             n == [m EXCEPT !.got = TRUE, !.hops = hops, !.hollow = FALSE]
  <1>1. GoodMail(mail[a], a, Holders) BY DEF IInv, MailInv
  <1>2. hops \in Seq(Station) /\ \A i \in DOMAIN hops : hops[i] \in Holders
    BY <1>1 DEF GoodMail, Mail
  <1>3. GoodSession(m, r, Holders) /\ m \in Session BY Here
  <1>4. sess' = [sess EXCEPT ![r] = n]
    <2>1. sess[a].hollow = FALSE BY Here DEF GoodSession, Session
    <2>2. sess' = [sess EXCEPT ![r].got = TRUE, ![r].hops = hops, ![r].hollow = FALSE]
      BY <2>1 DEF PayloadArrives
    <2> QED BY <2>2 DEF IInv, SessInv
  <1> HIDE DEF m, hops
  <1>5. /\ n \in Session /\ n.dir = m.dir /\ n.src = m.src /\ n.prev = m.prev
        /\ n.ttl = m.ttl /\ n.st = m.st /\ n.hop = m.hop /\ n.hops = hops
        /\ n.hollow = m.hollow
    BY <1>2, <1>3 DEF GoodSession, Session
  <1> HIDE DEF n
  <1>6. Holders \in SUBSET Station BY DEF Holders
  <1>7. GoodSession(n, r, Holders) BY <1>2, <1>3, <1>5, <1>6, KeepsGood
  <1>8. Holders' = Holders /\ Owners' = Owners /\ MailInv'
    BY NothingMailed DEF PayloadArrives
  <1>9. SessInv' BY <1>4, <1>7, <1>8, SessionsGrow DEF IInv
  <1>10. TxqInv' BY <1>8, QueueGrows DEF PayloadArrives, IInv
  <1>11. InboxInv' /\ RestInv' BY <1>8, TimerRestGood DEF PayloadArrives
  <1> QED BY <1>8, <1>9, <1>10, <1>11 DEF Good, IInv, CustodyStep

\* notify_payload_delivered with ok = False.
LEMMA ReceiveFailsStep ==
    ASSUME IInv, NEW s \in Station, ReceiveFails(s)
    PROVE  Good
  <1> DEFINE n == Enter(sess[s], "failed")
  <1>1. GoodSession(n, s, Holders) /\ Holders \in SUBSET Station
    BY Here, PlainStates
  <1>2. Alike(n, [n EXCEPT !.rx = FALSE]) BY <1>1 DEF GoodSession, Alike, Session
  <1> HIDE DEF n
  <1>3. GoodSession([n EXCEPT !.rx = FALSE], s, Holders) BY <1>1, <1>2, AlikeGood
  <1>4. \A f \in Cancelling(s) : GoodFrame(f, Holders) /\ f.src = s
    BY CancelFrames DEF IInv
  <1> QED BY <1>3, <1>4, TimerStep DEF ReceiveFails, n

\* The reports of late receptions change nothing else.
LEMMA LateRest ==
    ASSUME IInv, NEW report \in {"failure", "success"}, Mistaken(report),
           Holders' = Holders
    PROVE  InboxInv' /\ RestInv'
  <1>1. InboxInv' BY InboxKept DEF IInv, Mistaken, AllButLate
  <1> QED BY <1>1 DEF IInv, RestInv, Mistaken, AllButLate

\* A session that is rid of a late reception, or has one more, is the same one.
LEMMA LeftAlike ==
    ASSUME NEW m \in Session, NEW n \in Session, Alike(m, n),
           NEW l \in [Late -> Nat]
    PROVE  Alike(m, [n EXCEPT !.left = l])
  <1> DEFINE k == [n EXCEPT !.left = l]
  <1>1. k \in Session /\ k.rx = n.rx /\ k.left = l BY DEF Session
  <1>2. n = [m EXCEPT !.rx = n.rx, !.left = n.left] BY DEF Alike
  <1>3. k = [m EXCEPT !.rx = n.rx, !.left = l] BY <1>2 DEF Session
  <1> HIDE DEF k
  <1> QED BY <1>1, <1>3 DEF Alike, k

\* The report of a late reception that is there.
LEMMA RidAlike ==
    ASSUME NEW m \in Session, NEW w \in Late, m.left[w] > 0
    PROVE  Alike(m, Rid(m, w))
  <1> DEFINE d == Detached(m)
             l == [d.left EXCEPT ![w] = @ - 1]
  <1>1. Alike(m, d) /\ d.left \in [Late -> Nat] BY DetachedAlike
  <1>2. d.left[w] > 0
    <2>1. CASE ~m.rx BY <2>1 DEF Detached
    <2>2. CASE m.rx
      <3>1. d.left = [m.left EXCEPT ![Reception(m)] = @ + 1]
        BY <2>2 DEF Detached, Session
      <3>2. m.left \in [Late -> Nat] BY DEF Session
      <3> HIDE DEF d
      <3> QED BY <3>1, <3>2
    <2> QED BY <2>1, <2>2
  <1> HIDE DEF d
  <1>3. l \in [Late -> Nat] BY <1>1, <1>2
  <1>4. Rid(m, w) = [d EXCEPT !.left = l]
    <2>1. Rid(m, w) = [d EXCEPT !.left[w] = @ - 1] BY DEF Rid, d
    <2>2. d \in Session BY <1>1 DEF Alike
    <2> QED BY <2>1, <2>2 DEF Session
  <1> HIDE DEF l
  <1>5. d \in Session BY <1>1 DEF Alike
  <1> QED BY <1>1, <1>3, <1>4, <1>5, LeftAlike

\* A late reception fails: so does the session that followed.
LEMMA LateFailsStep ==
    ASSUME IInv, NEW s \in Station, LateFails(s)
    PROVE  Good
  <1>1. PICK w \in Late :
            Reports(s, w) /\ Become(s, Enter(Rid(sess[s], w), "failed"))
    BY DEF LateFails
  <1> DEFINE m == Rid(sess[s], w)
             n == Enter(m, "failed")
  <1>2. Alike(sess[s], m) BY <1>1, Here, RidAlike DEF Reports
  <1>3. GoodSession(m, s, Holders) BY <1>2, Here, AlikeGood
  <1> HIDE DEF m
  <1>4. GoodSession(n, s, Holders) BY <1>3, Here, EnterGood, PlainStates
  <1>5. Become(s, n) BY <1>1 DEF m
  <1> HIDE DEF n
  <1>6. Holders' = Holders BY <1>4, <1>5, BecomeGood DEF IInv
  <1>7. InboxInv' /\ RestInv' BY <1>6, LateRest DEF LateFails
  <1>8. \A f \in Cancelling(s) : GoodFrame(f, Holders) /\ f.src = s
    BY CancelFrames DEF IInv
  <1> QED BY <1>4, <1>5, <1>7, <1>8, LocalStep DEF LateFails

\* A session whose receptions change, and nothing else.
LEMMA ReceptionStep ==
    ASSUME IInv, NEW r \in Station, NEW n, Alike(sess[r], n),
           sess' = [sess EXCEPT ![r] = n], UNCHANGED <<mail, txq>>, TimerRest
    PROVE  Good
  <1>1. GoodSession(n, r, Holders) BY Here, AlikeGood
  <1>2. Holders' = Holders /\ Owners' = Owners /\ MailInv' BY NothingMailed
  <1>3. SessInv' BY <1>1, <1>2, SessionsGrow DEF IInv
  <1>4. TxqInv' BY <1>2, QueueGrows DEF IInv
  <1>5. InboxInv' /\ RestInv' BY <1>2, TimerRestGood
  <1> QED BY <1>2, <1>3, <1>4, <1>5 DEF Good, IInv, CustodyStep

\* What PayloadStrays makes of the session.
LEMMA StraysAlike ==
    ASSUME IInv, NEW a \in Station, NEW r \in Station, PayloadStrays(a, r)
    PROVE  \E n : Alike(sess[r], n) /\ sess' = [sess EXCEPT ![r] = n]
  <1> DEFINE m == IF Open(r) THEN sess[r] ELSE Detached(sess[r])
             open == <<sess[a].trans, "open">>
             full == <<sess[a].trans, "full">>
             l == [m.left EXCEPT ![open] = @ - 1, ![full] = @ + 1]
  <1>1. sess[r] \in Session /\ sess[a] \in Session BY Here
  <1>2. Alike(sess[r], m) /\ m.left \in [Late -> Nat]
    <2>1. CASE Open(r)
      <3>1. sess[r] = [sess[r] EXCEPT !.rx = sess[r].rx, !.left = sess[r].left]
        BY <1>1 DEF Session
      <3> QED BY <1>1, <2>1, <3>1 DEF Alike, Session
    <2>2. CASE ~Open(r) BY <1>1, <2>2, DetachedAlike
    <2> QED BY <2>1, <2>2
  <1>3. m \in Session /\ m.left[open] > 0
        /\ sess' = [sess EXCEPT ![r] = [m EXCEPT !.left[open] = @ - 1,
                                                 !.left[full] = @ + 1]]
    BY <1>2 DEF PayloadStrays, Alike
  <1> HIDE DEF m
  <1>4. open \in Late /\ full \in Late BY <1>1 DEF Late, Session
  <1>5. open # full OBVIOUS
  <1>6. [m EXCEPT !.left[open] = @ - 1, !.left[full] = @ + 1] = [m EXCEPT !.left = l]
    BY <1>3 DEF Session
  <1> HIDE DEF open, full
  <1>7. l \in [Late -> Nat] BY <1>2, <1>3, <1>4, <1>5
  <1> HIDE DEF l
  <1> QED BY <1>1, <1>2, <1>3, <1>6, <1>7, LeftAlike

\* A payload goes to a reception that was given up.
LEMMA PayloadStraysStep ==
    ASSUME IInv, NEW a \in Station, NEW r \in Station, PayloadStrays(a, r)
    PROVE  Good
  BY StraysAlike, ReceptionStep DEF PayloadStrays

\* _on_send_done.
LEMMA SendDoneStep ==
    ASSUME IInv, NEW s \in Station, SendDone(s)
    PROVE  Good
  <1> DEFINE m == sess[s]
             n == [m EXCEPT !.sent = TRUE, !.queries = 0]
  <1>1. GoodSession(m, s, Holders) /\ m \in Session BY Here
  <1>2. /\ n \in Session /\ n.dir = m.dir /\ n.src = m.src /\ n.prev = m.prev
        /\ n.ttl = m.ttl /\ n.st = m.st /\ n.hop = m.hop /\ n.hops = m.hops
        /\ n.hollow = m.hollow
    BY <1>1 DEF Session
  <1>3. Holders \in SUBSET Station BY DEF Holders
  <1>4. GoodSession(n, s, Holders) BY <1>1, <1>2, <1>3, KeepsGood
  <1>5. CASE Become(s, n) /\ UNCHANGED txq
    BY <1>4, <1>5, QuietTimer DEF SendDone
  <1>6. CASE FailWith(s, m, Cancelling(s))
    <2>1. \A f \in Cancelling(s) : GoodFrame(f, Holders) /\ f.src = s
      BY CancelFrames DEF IInv
    <2> QED BY <1>1, <1>6, <2>1, TimerStep DEF SendDone
  <1> QED BY <1>5, <1>6 DEF SendDone

\* The message is filed, with the hop it just made.
LEMMA StoredGood ==
    ASSUME NEW s \in Station, NEW H \in SUBSET Station, NEW m,
           GoodSession(m, s, H), m.dir = "in"
    PROVE  /\ GoodMail(Stored(s, m), s, H \cup {s})
           /\ Stored(s, m).box = IF s = Dest THEN "inbox" ELSE "transit"
  <1> DEFINE hops == IF \E i \in DOMAIN m.hops : m.hops[i] = m.src THEN m.hops
                     ELSE Append(m.hops, m.src)
  <1>1. m \in Session /\ m.src \in H /\ m.ttl \in Nat \ {0}
    BY DEF GoodSession, Session
  <1>2. m.hops \in Seq(Station) /\ m.src \in Station /\ m.src \in Hop
    BY <1>1 DEF Session, Hop
  <1>3. hops \in Seq(Station) BY <1>2
  <1>4. \A i \in DOMAIN hops : hops[i] \in H
    <2>1. CASE hops = m.hops BY <2>1 DEF GoodSession
    <2>2. CASE hops = Append(m.hops, m.src)
      <3>1. \A i \in DOMAIN m.hops : m.hops[i] \in H BY DEF GoodSession
      <3>2. ASSUME NEW i \in DOMAIN hops PROVE hops[i] \in H
        <4>1. DOMAIN m.hops = 1..Len(m.hops) /\ Len(m.hops) \in Nat BY <1>2
        <4>2. DOMAIN hops = 1..Len(m.hops) + 1 BY <1>2, <2>2
        <4>3. CASE i = Len(m.hops) + 1 BY <1>1, <1>2, <2>2, <4>3
        <4>4. CASE i # Len(m.hops) + 1
          <5>1. i \in 1..Len(m.hops) BY <3>2, <4>1, <4>2, <4>4
          <5>2. hops[i] = m.hops[i] BY <1>2, <2>2, <5>1
          <5> QED BY <3>1, <4>1, <5>1, <5>2
        <4> QED BY <4>3, <4>4
      <3> QED BY <3>2
    <2> QED BY <2>1, <2>2
  <1>5. m.ttl - 1 \in Nat BY <1>1
  <1>6. Stored(s, m) = [box |-> IF s = Dest THEN "inbox" ELSE "transit",
            status |-> IF s = Dest THEN "received" ELSE "waiting",
            prev |-> m.src, ttl |-> m.ttl - 1, hops |-> hops]
    BY DEF Stored
  <1> HIDE DEF hops
  <1> QED BY <1>1, <1>2, <1>3, <1>4, <1>5, <1>6 DEF GoodMail, Mail

\* A reception that completes: the message is stored, and shown or relayed.
LEMMA CompletionFacts ==
    ASSUME IInv, NEW s \in Station, ReceiveCompletes(s)
    PROVE  \E m : /\ Alike(sess[s], m) /\ GoodSession(m, s, Holders)
                  /\ mail' = [mail EXCEPT ![s] = Stored(s, sess[s])]
                  /\ DeliverHere(s, m) \/ TakeCustody(s, m)
  <1> DEFINE m == [sess[s] EXCEPT !.rx = FALSE]
  <1>0. sess[s] \in Session BY Here
  <1>1. Alike(sess[s], m)
    <2>1. m \in Session /\ m.rx = FALSE /\ m.left = sess[s].left
      BY <1>0 DEF Session
    <2>2. m = [sess[s] EXCEPT !.rx = FALSE, !.left = sess[s].left]
      BY <1>0 DEF Session
    <2> QED BY <1>0, <2>1, <2>2 DEF Alike
  <1>2. Taken(s, m) BY DEF ReceiveCompletes
  <1> HIDE DEF m
  <1>3. GoodSession(m, s, Holders) BY <1>1, Here, AlikeGood
  <1>4. Stored(s, m) = Stored(s, sess[s]) BY <1>1, AlikeFields DEF Stored
  <1>5. mail' = [mail EXCEPT ![s] = Stored(s, sess[s])]
    BY <1>2, <1>3, <1>4 DEF Taken, GoodSession
  <1> QED BY <1>1, <1>2, <1>3, <1>5 DEF Taken

\* A whole message: from here on the station answers for it.
LEMMA ReceiveCompletesStep ==
    ASSUME IInv, NEW s \in Station, ReceiveCompletes(s)
    PROVE  Good
  <1>0. PICK m : /\ Alike(sess[s], m) /\ GoodSession(m, s, Holders)
                 /\ mail' = [mail EXCEPT ![s] = Stored(s, sess[s])]
                 /\ DeliverHere(s, m) \/ TakeCustody(s, m)
    BY CompletionFacts
  <1> DEFINE e == Stored(s, m)
             J == Holders \cup {s}
  <1>1. GoodSession(m, s, Holders) /\ m \in Session /\ J \in SUBSET Station
    BY <1>0, Here DEF GoodSession
  <1>2. /\ m.dir = "in" /\ m.st = "receiving" /\ TimerRest
        /\ m.hop = sess[s].hop /\ Stored(s, m) = Stored(s, sess[s])
    <2>1. /\ m.dir = sess[s].dir /\ m.st = sess[s].st /\ m.hop = sess[s].hop
          /\ m.src = sess[s].src /\ m.ttl = sess[s].ttl /\ m.hops = sess[s].hops
      BY <1>0, AlikeFields
    <2>2. sess[s].dir = "in" /\ sess[s].st = "receiving" /\ TimerRest
      BY DEF ReceiveCompletes, In
    <2> QED BY <2>1, <2>2 DEF Stored
  <1>3. m.src \in Holders \ {s} /\ m.ttl \in Nat \ {0} /\ m.hop \in Hop
    BY <1>1, <1>2 DEF GoodSession, Session
  <1>4. GoodMail(e, s, J) /\ e.box \in {"inbox", "transit"}
    BY <1>1, <1>2, StoredGood
  <1>5. mail' = [mail EXCEPT ![s] = e] BY <1>0, <1>2
  <1>6. \A t \in Station : mail'[t] = IF t = s THEN e ELSE mail[t]
    BY <1>5 DEF IInv, MailInv
  <1>7. Holders' = J BY <1>4, <1>6 DEF Holders, Holds
  <1>8. Owners' = Owners \cup {s} BY <1>4, <1>6 DEF Owners
  <1>9. CustodyStep
    BY <1>3, <1>7, <1>8 DEF CustodyStep, Promise!Accept, Holders
  <1>10. MailInv' BY <1>4, <1>5, <1>7, MailGrows DEF IInv
  <1>11. InboxInv' /\ RestInv' BY <1>2, <1>7, TimerRestGood
  <1>12. GoodSession(m, s, J)
    BY <1>1 DEF GoodSession
  <1> DEFINE answer == {Say("RECEIVED", s)}
  <1>13. \A f \in answer : GoodFrame(f, J) /\ f.src = s
    BY <1>2, <1>3, ReceivedFrame DEF Say
  <1> HIDE DEF e, J
  <1>14. Holders \subseteq Holders' BY <1>7 DEF J
  <1>15. CASE DeliverHere(s, m)
    <2> DEFINE n == Enter(m, "delivered")
               frames == answer \cup {Receipt(s, m.src, ReceiptTtl)}
    <2>1. s = Dest /\ sess' = [sess EXCEPT ![s] = n]
      BY <1>15 DEF DeliverHere
    <2>2. GoodSession(n, s, J)
      <3>1. "delivered" \in State BY DEF State, Terminal
      <3>2. /\ n \in Session /\ n.st = "delivered" /\ n.dir = m.dir
            /\ n.src = m.src /\ n.prev = m.prev /\ n.ttl = m.ttl
            /\ n.hops = m.hops /\ n.hollow = m.hollow
        BY <1>1, <3>1, EnterFacts
      <3>3. s \in J BY DEF J
      <3> HIDE DEF n
      <3> QED BY <1>2, <1>12, <2>1, <3>2, <3>3 DEF GoodSession
    <2>3. SessInv' BY <1>7, <1>14, <2>1, <2>2, SessionsGrow DEF IInv
    <2>4. Send(s, frames) BY <1>15 DEF DeliverHere, Send
    <2>5. GoodFrame(Receipt(s, m.src, ReceiptTtl), J)
          /\ Receipt(s, m.src, ReceiptTtl).src = s
      <3>1. m.src \in J /\ Dest \in J /\ J \in SUBSET Station
        BY <1>1, <1>3, <2>1 DEF J
      <3> QED BY <3>1, BoundAssumption, ReceiptFrame
    <2>6. \A f \in frames : GoodFrame(f, Holders') /\ f.src = s
      BY <1>7, <1>13, <2>5
    <2> HIDE DEF frames
    <2>7. TxqInv' BY <1>14, <2>4, <2>6, SendGood DEF IInv
    <2> QED BY <1>9, <1>10, <1>11, <2>3, <2>7 DEF Good, IInv
  <1>16. CASE TakeCustody(s, m)
    <2> DEFINE left == m.ttl - 1
               new == Leg(s, m.src, left)
               leg == Onward(s, m)
    <2>1. s # Dest BY <1>16 DEF TakeCustody
    <2>2. CASE ~Relay[s] \/ m.ttl <= 1
      <3> DEFINE n == Enter(m, "received")
      <3>1. sess' = [sess EXCEPT ![s] = n] /\ Send(s, answer)
        BY <1>16, <2>2 DEF TakeCustody
      <3>2. GoodSession(n, s, J)
        <4>1. "received" \in State BY DEF State
        <4>2. /\ n \in Session /\ n.st = "received" /\ n.dir = m.dir
              /\ n.src = m.src /\ n.prev = m.prev /\ n.ttl = m.ttl
              /\ n.hops = m.hops /\ n.hollow = m.hollow
          BY <1>1, <4>1, EnterFacts
        <4>3. s \in J BY DEF J
        <4> HIDE DEF n
        <4> QED BY <1>2, <1>12, <4>2, <4>3 DEF GoodSession
      <3>3. SessInv' BY <1>7, <1>14, <3>1, <3>2, SessionsGrow DEF IInv
      <3>4. \A f \in answer : GoodFrame(f, Holders') /\ f.src = s BY <1>7, <1>13
      <3> HIDE DEF answer
      <3>5. TxqInv' BY <1>14, <3>1, <3>4, SendGood DEF IInv
      <3> QED BY <1>9, <1>10, <1>11, <3>3, <3>5 DEF Good, IInv
    <2>3. CASE Relay[s] /\ ~(m.ttl <= 1)
      <3>1. PICK n \in Launch(s, leg, Enter(leg, "failed")) :
                /\ sess' = [sess EXCEPT ![s] = n]
                /\ IF n.st = "failed" THEN SendAndStop(s, answer)
                   ELSE Send(s, answer \cup Queries(s, n))
        BY <1>16, <2>3 DEF TakeCustody
      <3>2. left \in Nat \ {0} BY <1>3, <2>3
      <3> HIDE DEF left
      <3>3. s \in J /\ m.src \in J \cup {NoStation} /\ J \in SUBSET Station
        BY <1>1, <1>3 DEF J
      <3>4. GoodSession(leg, s, J) /\ leg.dir = "out" /\ leg.prev = m.src
        <4>1. GoodSession(new, s, J) /\ new.dir = "out" /\ new.prev = m.src
          BY <2>1, <3>2, <3>3, Here, LegGood
        <4>2. m.src \in Hop /\ ~m.hollow /\ m.ttl - 1 \in Nat
          BY <1>1, <3>2 DEF GoodSession, Session, left
        <4>3. Alike(new, leg) BY <1>1, <4>2, Here, OnwardAlike DEF left
        <4> HIDE DEF new, leg
        <4> QED BY <3>3, <4>1, <4>3, AlikeGood, AlikeFields
      <3> HIDE DEF leg
      <3>5. /\ GoodSession(Enter(leg, "failed"), s, J)
            /\ Enter(leg, "failed").dir = "out"
            /\ Enter(leg, "failed").prev = leg.prev
        <4>1. leg \in Session /\ "failed" \in State /\ "failed" \in Plain
          BY <3>4, PlainStates DEF GoodSession, Plain
        <4>2. GoodSession(Enter(leg, "failed"), s, J)
          BY <3>3, <3>4, <4>1, EnterGood
        <4> QED BY <3>4, <4>1, <4>2, EnterFacts
      <3>6. GoodSession(n, s, J)
        BY <3>1, <3>3, <3>4, <3>5, LaunchGood DEF IInv
      <3>7. SessInv' BY <1>7, <1>14, <3>1, <3>6, SessionsGrow DEF IInv
      <3> DEFINE frames == answer \cup Queries(s, n)
      <3>8. \A f \in frames : GoodFrame(f, Holders') /\ f.src = s
        BY <1>7, <1>13, QueryFrames
      <3>9. \A f \in answer : GoodFrame(f, Holders') /\ f.src = s
        BY <1>7, <1>13
      <3>10. Send(s, frames) \/ SendAndStop(s, answer) BY <3>1
      <3> HIDE DEF frames, answer
      <3>11. TxqInv' BY <1>14, <3>8, <3>9, <3>10, SendGood DEF IInv
      <3> QED BY <1>9, <1>10, <1>11, <3>7, <3>11 DEF Good, IInv
    <2> QED BY <2>2, <2>3
  <1> QED BY <1>0, <1>15, <1>16

\* Every completion of a payload.
LEMMA PayloadStep ==
    ASSUME IInv, NEW s \in Station, Payload(s), Prompt'
    PROVE  Good
  <1>1. ~LateCompletes(s) BY DEF LateCompletes, Mistaken, Prompt
  <1> QED BY <1>1, PayloadArrivesStep, PayloadStraysStep, ReceiveFailsStep,
             ReceiveCompletesStep, SendDoneStep, LateFailsStep DEF Payload

----------------------------------------------------------------------------
(* Timers                                                                  *)

\* Every way a session goes on after a hop that did not answer.
LEMMA NextHopGood ==
    ASSUME RestInv, NEW s \in Station, NEW H \in SUBSET Station, NEW m,
           GoodSession(m, s, H), m.dir = "out",
           NEW now \in Evidence[s], NEW n \in NextHop(s, m, now)
    PROVE  GoodSession(n, s, H)
  <1> DEFINE hops == Hops(s, m.failed \cup {m.prev}, now)
  <1>1. hops \subseteq Hop BY HopsAreHops
  <1>2. CASE /\ HasBackup(s, m.failed \cup {m.prev})
             /\ n = [Announce(m, Backup[s]) EXCEPT !.triedBackup = TRUE]
    <2>1. Backup[s] \in Hop BY <1>2 DEF HasBackup, Hop
    <2>2. GoodSession(Announce(m, Backup[s]), s, H) BY <2>1, AnnounceGood
    <2> QED BY <1>2, <2>2, SearchFlags
  <1>3. CASE \E h \in hops : n = Announce(m, h)
    BY <1>1, <1>3, AnnounceGood
  <1>4. CASE n = [Enter(m, "discovery") EXCEPT !.triedBackup = TRUE, !.offers = {}]
    <2>1. GoodSession(Enter(m, "discovery"), s, H) BY EnterGood, PlainStates
    <2> QED BY <1>4, <2>1, SearchFlags
  <1>5. CASE n = Multihop(m)
    BY <1>5, MultihopGood
  <1>6. CASE n = Enter(m, "failed")
    BY <1>6, EnterGood, PlainStates
  <1> QED BY <1>2, <1>3, <1>4, <1>5, <1>6 DEF NextHop

\* The same announcement or offer once more.
LEMMA RetryStep ==
    ASSUME IInv, NEW s \in Station, Retry(s), TimerRest
    PROVE  Good
  <1> DEFINE m == sess[s]
             again == m.att + 1
             n == [m EXCEPT !.att = again, !.tx = "queued"]
  <1>1. GoodSession(m, s, Holders) /\ m \in Session /\ Holders \in SUBSET Station
    BY Here
  <1>2. Become(s, n) /\ UNCHANGED txq BY DEF Retry
  <1>3. again \in Nat BY <1>1 DEF Session
  <1> HIDE DEF m, again
  <1>4. /\ n \in Session /\ n.dir = m.dir /\ n.src = m.src /\ n.prev = m.prev
        /\ n.ttl = m.ttl /\ n.st = m.st /\ n.hop = m.hop /\ n.hops = m.hops
        /\ n.hollow = m.hollow
    BY <1>1, <1>3 DEF Session, TxStage
  <1>5. GoodSession(n, s, Holders) BY <1>1, <1>4, KeepsGood
  <1> HIDE DEF n
  <1> QED BY <1>2, <1>5, QuietTimer

\* _announce_timeout.
LEMMA AnnounceTimeoutStep ==
    ASSUME IInv, NEW s \in Station, AnnounceTimeout(s)
    PROVE  Good
  <1> DEFINE m == sess[s]
  <1>1. GoodSession(m, s, Holders) /\ m \in Session /\ Holders \in SUBSET Station
    BY Here
  <1>2. m.dir = "out" /\ TimerRest BY DEF AnnounceTimeout, Out
  <1>3. CASE Retry(s)
    BY <1>2, <1>3, RetryStep
  <1>4. CASE \E now \in Evidence[s] : \E n \in NextHop(s, Spent(m), now) :
               /\ Become(s, n)
               /\ IF n.st = "failed" THEN SendAndStop(s, {})
                  ELSE Send(s, Queries(s, n))
    <2>1. /\ Spent(m) \in Session /\ Spent(m).dir = "out"
          /\ Spent(m).src = m.src /\ Spent(m).prev = m.prev
          /\ Spent(m).ttl = m.ttl /\ Spent(m).st = m.st
          /\ Spent(m).hop = m.hop /\ Spent(m).hops = m.hops
          /\ Spent(m).hollow = m.hollow
      BY <1>1, <1>2 DEF Spent, Session
    <2>2. GoodSession(Spent(m), s, Holders) BY <1>1, <1>2, <2>1, KeepsGood
    <2>0. PICK now \in Evidence[s] : \E n \in NextHop(s, Spent(m), now) :
               /\ Become(s, n)
               /\ SendAndStop(s, {}) \/ Send(s, Queries(s, n))
      BY <1>4
    <2>3. PICK n \in NextHop(s, Spent(m), now) :
               /\ Become(s, n)
               /\ SendAndStop(s, {}) \/ Send(s, Queries(s, n))
      BY <2>0
    <2>4. GoodSession(n, s, Holders)
      BY <1>1, <2>1, <2>2, NextHopGood DEF IInv
    <2>5. CASE Send(s, Queries(s, n))
      BY <1>2, <2>3, <2>4, <2>5, QueryFrames, TimerStep
    <2>6. CASE SendAndStop(s, {})
      BY <1>2, <2>3, <2>4, <2>6, TimerStep
    <2> QED BY <2>3, <2>5, <2>6
  <1> QED BY <1>3, <1>4 DEF AnnounceTimeout

\* A timer that can only fail the session, or offer once more.
LEMMA GivesUp ==
    ASSUME IInv, NEW s \in Station, NEW frames, TimerRest,
           FailWith(s, sess[s], frames), frames \in {{}, Cancelling(s)}
    PROVE  Good
  <1>1. \A f \in frames : GoodFrame(f, Holders) /\ f.src = s
    BY CancelFrames DEF IInv
  <1>2. GoodSession(sess[s], s, Holders) BY Here
  <1> QED BY <1>1, <1>2, TimerStep

\* The confirmation of a payload that went out is missing.
LEMMA ReceiptTimeoutStep ==
    ASSUME IInv, NEW s \in Station, ReceiptTimeout(s)
    PROVE  Good
  <1> DEFINE m == sess[s]
             n == [m EXCEPT !.queries = @ + 1]
             frames == {HaveMsg(s, m)}
  <1>1. GoodSession(m, s, Holders) /\ m \in Session /\ Holders \in SUBSET Station
    BY Here
  <1>2. m.dir = "out" /\ TimerRest BY DEF ReceiptTimeout, Out
  <1>3. s \in Holders /\ m.ttl # 0 BY <1>1, <1>2 DEF GoodSession
  <1>4. CASE FailWith(s, m, {})
    BY <1>2, <1>4, GivesUp
  <1>5. CASE Become(s, n) /\ Send(s, frames)
    <2> DEFINE asked == m.queries + 1
    <2>0. n = [m EXCEPT !.queries = asked] /\ asked \in Nat BY <1>1 DEF Session
    <2> HIDE DEF asked, n
    <2>1. /\ n \in Session /\ n.dir = m.dir /\ n.src = m.src /\ n.prev = m.prev
          /\ n.ttl = m.ttl /\ n.st = m.st /\ n.hop = m.hop /\ n.hops = m.hops
          /\ n.hollow = m.hollow
      BY <1>1, <2>0 DEF Session
    <2>2. GoodSession(n, s, Holders) BY <1>1, <2>1, KeepsGood
    <2>3. \A f \in frames : GoodFrame(f, Holders) /\ f.src = s
      BY <1>1, <1>3, AnnouncementFrame DEF IInv
    <2> HIDE DEF frames
    <2> QED BY <1>2, <1>5, <2>2, <2>3, TimerStep
  <1> QED BY <1>4, <1>5 DEF ReceiptTimeout

\* _discovery_timeout.
LEMMA DiscoveryTimeoutStep ==
    ASSUME IInv, NEW s \in Station, DiscoveryTimeout(s)
    PROVE  Good
  <1> DEFINE m == sess[s]
             guess == [Announce(m, Dest) EXCEPT !.blind = TRUE]
  <1>1. GoodSession(m, s, Holders) /\ m \in Session /\ Holders \in SUBSET Station
    BY Here
  <1>2. m.dir = "out" /\ TimerRest /\ UNCHANGED txq BY DEF DiscoveryTimeout, Out
  <1>3. Dest \in Hop /\ m.offers \subseteq Hop
    BY <1>1, StationAssumption DEF Session, Hop
  <1>4. CASE Become(s, guess)
    <2>1. GoodSession(guess, s, Holders) BY <1>1, <1>2, <1>3, AnnounceGood, SearchFlags
    <2> HIDE DEF guess
    <2> QED BY <1>2, <1>4, <2>1, QuietTimer
  <1>5. CASE \E hop \in Hop : Become(s, Announce(m, hop))
    <2>1. PICK hop \in Hop : Become(s, Announce(m, hop)) BY <1>5
    <2> QED BY <1>2, <2>1, RouteFound
  <1> QED BY <1>3, <1>4, <1>5 DEF DiscoveryTimeout

\* A confirmed session ends without a delivery receipt.
LEMMA ConfirmTimeoutStep ==
    ASSUME IInv, NEW s \in Station, ConfirmTimeout(s)
    PROVE  Good
  <1> DEFINE m == sess[s]
             n == Enter(m, "forwarded")
  <1>1. GoodSession(m, s, Holders) /\ m \in Session BY Here
  <1>2. m.dir = "out" /\ m.st = "confirmed" /\ TimerRest /\ UNCHANGED txq
        /\ Become(s, n)
    BY DEF ConfirmTimeout, Out
  <1>3. "forwarded" \in State BY DEF State, Terminal
  <1>4. /\ n \in Session /\ n.st = "forwarded" /\ n.dir = m.dir
        /\ n.src = m.src /\ n.prev = m.prev /\ n.ttl = m.ttl
        /\ n.hops = m.hops /\ n.hop = m.hop
        /\ n.hollow = m.hollow
    BY <1>1, <1>3, EnterFacts
  <1> HIDE DEF n
  <1>5. GoodSession(n, s, Holders) BY <1>1, <1>2, <1>4 DEF GoodSession
  <1> QED BY <1>2, <1>5, QuietTimer

\* Every timer of tick.
LEMMA TickStep ==
    ASSUME IInv, NEW s \in Station, Tick(s)
    PROVE  Good
  <1>1. CASE BusyRetry(s)
    <2>1. sess[s].hop \in Hop BY Here DEF Session
    <2> QED BY <1>1, <2>1, RouteFound DEF BusyRetry, Out
  <1>2. CASE WorkingTimeout(s)
    BY <1>2, RetryStep, GivesUp DEF WorkingTimeout
  <1>3. CASE ProfileTimeout(s)
    <2>1. CASE Retry(s) BY <1>3, <2>1, RetryStep DEF ProfileTimeout
    <2>2. CASE FailWith(s, sess[s], Cancelling(s))
      BY <1>3, <2>2, GivesUp DEF ProfileTimeout
    <2>3. CASE FailWith(s, sess[s], {})
      BY <1>3, <2>3, GivesUp DEF ProfileTimeout
    <2> QED BY <1>3, <2>1, <2>2, <2>3 DEF ProfileTimeout
  <1>4. CASE StartTimeout(s)
    BY <1>4, GivesUp DEF StartTimeout
  <1>5. CASE AckedTimeout(s)
    BY <1>5, GivesUp DEF AckedTimeout
  <1>6. CASE TransferTimeout(s)
    BY <1>6, GivesUp DEF TransferTimeout
  <1> QED BY <1>1, <1>2, <1>3, <1>4, <1>5, <1>6, AnnounceTimeoutStep,
             DiscoveryTimeoutStep, ReceiptTimeoutStep, ConfirmTimeoutStep DEF Tick

----------------------------------------------------------------------------
(* Frame handlers that leave the mailbox to the session                    *)

\* A handler that leaves the sessions and the mailboxes alone.
LEMMA AnswerOnly ==
    ASSUME IInv, NEW s \in Station, NEW frames, NEW g, NEW type,
           Heard(s, g, type), RxRest, UNCHANGED learned,
           UNCHANGED <<sess, mail>>,
           \A f \in frames : GoodFrame(f, Holders) /\ f.src = s,
           Send(s, frames) \/ UNCHANGED txq
    PROVE  Good
  <1>1. Holders' = Holders /\ Owners' = Owners /\ MailInv' BY NothingMailed
  <1>2. SessInv' BY <1>1, SessionsGrow DEF IInv
  <1>3. \A f \in frames : GoodFrame(f, Holders') /\ f.src = s BY <1>1
  <1>4. TxqInv' BY <1>1, <1>3, SendGood DEF IInv
  <1>5. InboxInv' BY <1>1, HeardGood DEF IInv
  <1>6. RestInv' BY DEF IInv, RestInv, RxRest
  <1> QED BY <1>1, <1>2, <1>4, <1>5, <1>6 DEF Good, IInv, CustodyStep

\* learned_paths stays a function to hops.
LEMMA LearnedKept ==
    ASSUME IInv, UNCHANGED learned
    PROVE  learned' \in [Station -> Hop]
  BY DEF IInv, RestInv

\* A frame no handler applies to.
LEMMA MissStep ==
    ASSUME IInv, NEW s \in Station, Miss(s)
    PROVE  Good
  <1>1. UNCHANGED <<sess, mail, txq, learned>> /\ RxRest BY DEF Miss
  <1>2. Holders' = Holders /\ Owners' = Owners /\ MailInv'
    BY <1>1, NothingMailed
  <1>3. SessInv' /\ TxqInv'
    BY <1>1, <1>2, SessionsGrow, QueueGrows DEF IInv
  <1>4. InboxInv' BY <1>2, InboxTail DEF IInv, Miss
  <1>5. RestInv' BY <1>1 DEF IInv, RestInv, RxRest
  <1> QED BY <1>2, <1>3, <1>4, <1>5 DEF Good, IInv, CustodyStep

\* _rx_route_query.
LEMMA RxRouteQueryStep ==
    ASSUME IInv, NEW s \in Station, NEW f, RxRouteQuery(s, f)
    PROVE  Good
  <1> DEFINE frames == {FrameTo("ROUTE_OFFER", s, f.src)}
  <1>1. Heard(s, f, "ROUTE_QUERY") /\ Send(s, frames) /\ RxRest
        /\ UNCHANGED <<sess, mail>> /\ UNCHANGED learned
    BY DEF RxRouteQuery
  <1>2. Holders' = Holders BY <1>1, NothingMailed
  <1>3. f.src \in Hop BY <1>1, <1>2, HeardGood, Hops0 DEF IInv
  <1>4. \A g \in frames : GoodFrame(g, Holders) /\ g.src = s
    BY <1>3, OrdinaryFrame, OrdinaryTypes
  <1> HIDE DEF frames
  <1> QED BY <1>1, <1>4, AnswerOnly

\* _rx_route_offer.
LEMMA RxRouteOfferStep ==
    ASSUME IInv, NEW s \in Station, NEW f, RxRouteOffer(s, f)
    PROVE  Good
  <1> DEFINE m == sess[s]
             n == [m EXCEPT !.offers = @ \cup {f.src}]
  <1>1. Heard(s, f, "ROUTE_OFFER") /\ RxRest /\ UNCHANGED <<mail, txq, learned>>
    BY DEF RxRouteOffer
  <1>2. Holders' = Holders /\ Owners' = Owners /\ MailInv'
    BY <1>1, NothingMailed
  <1>3. InboxInv' /\ f.src \in Station BY <1>1, <1>2, HeardGood DEF IInv
  <1>4. sess' = [sess EXCEPT ![s] = n] BY DEF RxRouteOffer, IInv, SessInv
  <1>5. GoodSession(m, s, Holders) /\ m \in Session /\ Holders \in SUBSET Station
    BY Here
  <1>6. /\ n \in Session /\ n.dir = m.dir /\ n.src = m.src /\ n.prev = m.prev
        /\ n.ttl = m.ttl /\ n.st = m.st /\ n.hop = m.hop /\ n.hops = m.hops
        /\ n.hollow = m.hollow
    BY <1>3, <1>5 DEF Session
  <1> HIDE DEF n
  <1>7. GoodSession(n, s, Holders) BY <1>5, <1>6, KeepsGood
  <1>8. SessInv' BY <1>2, <1>4, <1>7, SessionsGrow DEF IInv
  <1>9. TxqInv' BY <1>1, <1>2, QueueGrows DEF IInv
  <1>10. RestInv' BY <1>1 DEF IInv, RestInv, RxRest
  <1> QED BY <1>2, <1>3, <1>8, <1>9, <1>10 DEF Good, IInv, CustodyStep

\* What a handler knows of its frame before it did anything.
LEMMA HeardNow ==
    ASSUME IInv, NEW s \in Station, NEW f, NEW type, Heard(s, f, type)
    PROVE  /\ GoodFrame(f, Holders) /\ f.type = type
           /\ f.src \in Station /\ f.src \in Hop /\ f.hop \in Hop
           /\ f.ttl \in Nat /\ f.cap \in BOOLEAN /\ f.tok \in Token
           /\ f.src # s
  <1>1. GoodFrame(f, Holders) /\ f.src # s /\ f.type = type
    BY HeadGood DEF Heard, IInv
  <1> QED BY <1>1 DEF GoodFrame, Frame, Hop

\* The session a fresh HAVE_MSG creates.
LEMMA ReceiverGood ==
    ASSUME IInv, NEW s \in Station, NEW f, Heard(s, f, "HAVE_MSG")
    PROVE  GoodSession(Receiver(s, f), s, Holders)
  <1> DEFINE agreed == f.cap /\ profile[s] # NoToken
             m == NewSession("in", f.src, s, NoStation, f.ttl, agreed)
             trans == IF agreed THEN "ofdm_vhf" ELSE "vara_p2p"
             tok == IF agreed /\ IsSC(profile[s]) /\ f.tok = profile[s]
                    THEN profile[s] ELSE NoToken
             k == After(sess[s], m)
             n == [k EXCEPT !.st = "acked", !.trans = trans, !.tok = tok]
  <1>1. /\ f.src \in Hop /\ f.src \in Holders \ {s} /\ f.ttl \in Nat
        /\ f.ttl # 0 /\ f.cap \in BOOLEAN
    BY HeardNow DEF GoodFrame
  <1>2. s \in Hop /\ NoStation \in Hop /\ agreed \in BOOLEAN BY <1>1, Hops0
  <1>3. trans \in Transport /\ "acked" \in State /\ "acked" \in Plain
    BY PlainStates DEF Transport, Plain
  <1>4. tok \in Token BY Here, Tokens
  <1>5. Receiver(s, f) = n BY DEF Receiver
  <1> HIDE DEF agreed, trans, tok
  <1>6. m \in Session BY <1>1, <1>2, FreshSession
  <1>7. m.dir = "in" /\ m.src = f.src /\ m.prev = NoStation /\ m.ttl = f.ttl
        /\ m.hops = <<>> /\ ~m.hollow
    BY DEF NewSession
  <1> HIDE DEF m
  <1>9. Alike(m, k) BY <1>6, Here, AfterAlike
  <1> HIDE DEF k
  <1>10. /\ k \in Session /\ k.dir = "in" /\ k.src = f.src /\ k.prev = NoStation
         /\ k.ttl = f.ttl /\ k.hops = <<>> /\ ~k.hollow
    BY <1>7, <1>9 DEF Alike, Session
  <1>8. /\ n \in Session /\ n.dir = "in" /\ n.src = f.src /\ n.prev = NoStation
        /\ n.ttl = f.ttl /\ n.st = "acked" /\ n.hops = <<>> /\ ~n.hollow
    BY <1>3, <1>4, <1>10 DEF Session
  <1> HIDE DEF n
  <1> QED BY <1>1, <1>5, <1>8 DEF GoodSession

\* _rx_have_msg: confirm again, acknowledge again, or answer.
LEMMA RxHaveMsgStep ==
    ASSUME IInv, NEW s \in Station, NEW f, RxHaveMsg(s, f)
    PROVE  Good
  <1> DEFINE m == sess[s]
  <1>1. Heard(s, f, "HAVE_MSG") /\ RxRest /\ UNCHANGED learned
    BY DEF RxHaveMsg
  <1>2. GoodSession(m, s, Holders) /\ m \in Session /\ Holders \in SUBSET Station
    BY Here
  <1>3. f.src \in Holders /\ f.src \in Hop /\ s \in Hop
    BY <1>1, HeardNow, Hops0 DEF GoodFrame
  <1>4. learned' \in [Station -> Hop] BY <1>1, LearnedKept
  <1>5. CASE Reconfirm(s, f)
    <2> DEFINE hop == IF m.dir = "out" THEN f.src ELSE m.hop
               receipts == IF m.st = "delivered"
                           THEN {Receipt(s, f.src, ReceiptTtl)} ELSE {}
               frames == {FrameTo("RECEIVED", s, hop)} \cup receipts
    <2>1. Become(s, m) /\ Send(s, frames) /\ AlreadyTook(s, f.src)
      BY <1>5 DEF Reconfirm
    <2>2. hop \in Hop BY <1>2, <1>3 DEF Session
    <2>3. s \in Holders BY <1>2, <2>1 DEF AlreadyTook, GoodSession
    <2>4. \A g \in receipts : GoodFrame(g, Holders) /\ g.src = s
      <3>1. m.st = "delivered" => Dest \in Holders BY <1>2 DEF GoodSession
      <3> QED BY <1>2, <1>3, <3>1, BoundAssumption, ReceiptFrame
    <2> HIDE DEF hop, receipts
    <2>5. \A g \in frames : GoodFrame(g, Holders) /\ g.src = s
      BY <2>2, <2>3, <2>4, ReceivedFrame
    <2> HIDE DEF frames
    <2> QED BY <1>1, <1>2, <1>4, <2>1, <2>5, HandlerStep
  <1>6. CASE ReAck(s)
    <2> DEFINE frames == {AckHave(s, m)}
    <2>1. Send(s, frames) /\ UNCHANGED <<sess, mail>> BY <1>6 DEF ReAck
    <2>2. \A g \in frames : GoodFrame(g, Holders) /\ g.src = s
      BY <1>2, AckFrame
    <2> HIDE DEF frames
    <2> QED BY <1>1, <2>1, <2>2, AnswerOnly
  <1>7. CASE Answer(s, f)
    <2> DEFINE n == Receiver(s, f)
               failed == Enter(n, "failed")
    <2>1. GoodSession(n, s, Holders) BY <1>1, ReceiverGood
    <2>2. GoodSession(failed, s, Holders) BY <1>2, <2>1, EnterGood, PlainStates
    <2>3. CASE \E type \in {"CANCEL", "BUSY"} :
                Become(s, failed) /\ SendAndStop(s, {FrameTo(type, s, s)})
      <3>1. PICK type \in {"CANCEL", "BUSY"} :
                Become(s, failed) /\ SendAndStop(s, {FrameTo(type, s, s)})
        BY <2>3
      <3> DEFINE frames == {FrameTo(type, s, s)}
      <3>2. \A g \in frames : GoodFrame(g, Holders) /\ g.src = s
        BY <1>3, OrdinaryFrame, OrdinaryTypes
      <3>3. Become(s, failed) /\ SendAndStop(s, frames) BY <3>1
      <3> HIDE DEF frames, failed
      <3> QED BY <1>1, <1>4, <2>2, <3>2, <3>3, HandlerStep
    <2>4. CASE Become(s, n) /\ Send(s, {AckHave(s, n)})
      <3> DEFINE frames == {AckHave(s, n)}
      <3>1. n \in Session BY <2>1 DEF GoodSession
      <3>2. \A g \in frames : GoodFrame(g, Holders) /\ g.src = s
        BY <3>1, AckFrame
      <3>3. Become(s, n) /\ Send(s, frames) BY <2>4
      <3> HIDE DEF frames, n
      <3> QED BY <1>1, <1>4, <2>1, <3>2, <3>3, HandlerStep
    <2> QED BY <1>7, <2>3, <2>4 DEF Answer
  <1> QED BY <1>5, <1>6, <1>7 DEF RxHaveMsg

\* What the negotiation fixes does not matter to a session's standing.
LEMMA WorkGood ==
    ASSUME NEW s \in Station, NEW H \in SUBSET Station, NEW m, GoodSession(m, s, H),
           NEW tok \in Token
    PROVE  GoodSession([m EXCEPT !.work = tok], s, H)
  <1> DEFINE n == [m EXCEPT !.work = tok]
  <1>1. m \in Session BY DEF GoodSession
  <1>2. /\ n \in Session /\ n.dir = m.dir /\ n.src = m.src /\ n.prev = m.prev
        /\ n.ttl = m.ttl /\ n.st = m.st /\ n.hop = m.hop /\ n.hops = m.hops
        /\ n.hollow = m.hollow
    BY <1>1 DEF Session
  <1> HIDE DEF n
  <1>3. GoodSession(n, s, H) BY <1>2, KeepsGood
  <1> QED BY <1>3 DEF n

\* A session that queues START_VARA.
LEMMA StartingGood ==
    ASSUME NEW s \in Station, NEW H \in SUBSET Station, NEW m, GoodSession(m, s, H)
    PROVE  GoodSession(Starting(m), s, H)
  <1> DEFINE n == Enter(m, "starting")
  <1>1. GoodSession(n, s, H) BY EnterGood, PlainStates
  <1>2. Starting(m) = [n EXCEPT !.tx = "queued"] BY DEF Starting
  <1> HIDE DEF n
  <1> DEFINE k == [n EXCEPT !.tx = "queued"]
  <1>3. GoodSession(k, s, H)
    <2>1. n \in Session BY <1>1 DEF GoodSession
    <2>2. /\ k \in Session /\ k.dir = n.dir /\ k.src = n.src /\ k.prev = n.prev
          /\ k.ttl = n.ttl /\ k.st = n.st /\ k.hop = n.hop /\ k.hops = n.hops
          /\ k.hollow = n.hollow
      BY <2>1 DEF Session, TxStage
    <2> HIDE DEF k
    <2> QED BY <1>1, <2>2, KeepsGood
  <1> QED BY <1>2, <1>3

\* An offer waits for the transmitter with its own counter of attempts.
LEMMA ProfileOfferGood ==
    ASSUME NEW s \in Station, NEW H \in SUBSET Station, NEW o, GoodSession(o, s, H),
           NEW tok \in Token
    PROVE  GoodSession([Enter(o, "g2-profile") EXCEPT
                !.tok = tok, !.att = 1, !.tx = "queued"], s, H)
  <1> DEFINE m == Enter(o, "g2-profile")
             n == [m EXCEPT !.tok = tok, !.att = 1, !.tx = "queued"]
  <1>1. GoodSession(m, s, H) BY EnterGood, PlainStates
  <1>2. m \in Session BY <1>1 DEF GoodSession
  <1> HIDE DEF m
  <1>3. /\ n \in Session /\ n.dir = m.dir /\ n.src = m.src /\ n.prev = m.prev
        /\ n.ttl = m.ttl /\ n.st = m.st /\ n.hop = m.hop /\ n.hops = m.hops
        /\ n.hollow = m.hollow
    BY <1>2 DEF Session, TxStage
  <1> HIDE DEF n
  <1>4. GoodSession(n, s, H) BY <1>1, <1>3, KeepsGood
  <1> QED BY <1>4 DEF m, n

\* A session that offers a working channel.
LEMMA ChannelOfferGood ==
    ASSUME NEW s \in Station, NEW H \in SUBSET Station, NEW o, GoodSession(o, s, H),
           NEW tok \in Token
    PROVE  GoodSession([Enter(o, "working") EXCEPT
                !.work = tok, !.att = 1, !.tx = "queued"], s, H)
  <1> DEFINE m == Enter(o, "working")
             n == [m EXCEPT !.work = tok, !.att = 1, !.tx = "queued"]
  <1>1. GoodSession(m, s, H) BY EnterGood, PlainStates
  <1>2. m \in Session BY <1>1 DEF GoodSession
  <1> HIDE DEF m
  <1>3. /\ n \in Session /\ n.dir = m.dir /\ n.src = m.src /\ n.prev = m.prev
        /\ n.ttl = m.ttl /\ n.st = m.st /\ n.hop = m.hop /\ n.hops = m.hops
        /\ n.hollow = m.hollow
    BY <1>2 DEF Session, TxStage
  <1> HIDE DEF n
  <1>4. GoodSession(n, s, H) BY <1>1, <1>3, KeepsGood
  <1> QED BY <1>4 DEF m, n

\* _negotiate_g2_profile_or_start.
LEMMA NegotiateGood ==
    ASSUME IInv, NEW s \in Station, NEW m, GoodSession(m, s, Holders)
    PROVE  GoodSession(Negotiate(s, m), s, Holders)
  <1>1. profile[s] \in Token /\ Holders \in SUBSET Station BY Here
  <1>2. GoodSession(Starting(m), s, Holders) BY <1>1, StartingGood
  <1>3. GoodSession([Enter(m, "g2-profile") EXCEPT
                !.tok = profile[s], !.att = 1, !.tx = "queued"], s, Holders)
    BY <1>1, ProfileOfferGood
  <1> QED BY <1>2, <1>3 DEF Negotiate

\* What an ACK settles of the session.
LEMMA AcknowledgedGood ==
    ASSUME IInv, NEW s \in Station, NEW f, Heard(s, f, "ACK_HAVE")
    PROVE  GoodSession(Acknowledged(s, f), s, Holders)
  <1> DEFINE m == sess[s]
             agreed == f.cap /\ profile[s] # NoToken
             trans == IF agreed THEN "ofdm_vhf" ELSE "vara_p2p"
             tok == IF agreed /\ IsSC(f.tok) /\ f.tok = profile[s] THEN f.tok
                    ELSE m.tok
  <1>1. GoodSession(m, s, Holders) /\ m \in Session /\ Holders \in SUBSET Station
    BY Here
  <1>2. trans \in Transport BY DEF Transport
  <1>3. f.tok \in Token BY HeardNow
  <1>4. tok \in Token BY <1>1, <1>3 DEF Session
  <1>5. Acknowledged(s, f) = [m EXCEPT !.trans = trans, !.tok = tok]
    BY DEF Acknowledged
  <1> DEFINE n == [m EXCEPT !.trans = trans, !.tok = tok]
  <1> HIDE DEF m, trans, tok
  <1>6. /\ n \in Session /\ n.dir = m.dir /\ n.src = m.src /\ n.prev = m.prev
        /\ n.ttl = m.ttl /\ n.st = m.st /\ n.hop = m.hop /\ n.hops = m.hops
        /\ n.hollow = m.hollow
    BY <1>1, <1>2, <1>4 DEF Session
  <1> HIDE DEF n
  <1>7. GoodSession(n, s, Holders) BY <1>1, <1>6, KeepsGood
  <1> QED BY <1>5, <1>7 DEF n

\* _rx_ack.
LEMMA RxAckStep ==
    ASSUME IInv, NEW s \in Station, NEW f, RxAck(s, f)
    PROVE  Good
  <1> DEFINE m == Acknowledged(s, f)
             offered == [Enter(m, "working") EXCEPT
                            !.work = Channel, !.att = 1, !.tx = "queued"]
  <1>1. Heard(s, f, "ACK_HAVE") /\ RxRest /\ UNCHANGED learned
    BY DEF RxAck
  <1>2. learned' \in [Station -> Hop] BY <1>1, LearnedKept
  <1>3. GoodSession(m, s, Holders) BY <1>1, AcknowledgedGood
  <1>4. Holders \in SUBSET Station BY DEF Holders
  <1>5. \/ FailWith(s, m, Cancelling(s))
        \/ FailWith(s, m, {})
        \/ Become(s, Negotiate(s, m)) /\ UNCHANGED txq
        \/ Become(s, offered) /\ UNCHANGED txq
    BY DEF RxAck
  <1> HIDE DEF m
  <1>6. CASE FailWith(s, m, Cancelling(s))
    <2>1. \A g \in Cancelling(s) : GoodFrame(g, Holders) /\ g.src = s
      BY CancelFrames DEF IInv
    <2> QED BY <1>1, <1>2, <1>3, <1>6, <2>1, HandlerStep
  <1>7. CASE FailWith(s, m, {})
    <2>1. \A g \in {} : GoodFrame(g, Holders) /\ g.src = s OBVIOUS
    <2> QED BY <1>1, <1>2, <1>3, <1>7, <2>1, HandlerStep
  <1>8. CASE Become(s, Negotiate(s, m)) /\ UNCHANGED txq
    BY <1>1, <1>2, <1>3, <1>8, NegotiateGood, QuietHandler
  <1>9. CASE Become(s, offered) /\ UNCHANGED txq
    <2>1. GoodSession(offered, s, Holders) BY <1>3, <1>4, Tokens, ChannelOfferGood
    <2> HIDE DEF offered
    <2> QED BY <1>1, <1>2, <1>9, <2>1, QuietHandler
  <1> QED BY <1>5, <1>6, <1>7, <1>8, <1>9

\* _rx_working_offer and _rx_working_ack.
LEMMA RxWorkingStep ==
    ASSUME IInv, NEW s \in Station, NEW f,
           RxWorkingOffer(s, f) \/ RxWorkingAck(s, f)
    PROVE  Good
  <1> DEFINE m == sess[s]
  <1>1. GoodSession(m, s, Holders) /\ Holders \in SUBSET Station BY Here
  <1>2. CASE RxWorkingOffer(s, f)
    <2>1. Heard(s, f, "WORKING_OFFER") /\ RxRest /\ UNCHANGED learned
      BY <1>2 DEF RxWorkingOffer
    <2>2. learned' \in [Station -> Hop] BY <2>1, LearnedKept
    <2>3. f.tok \in Token /\ f.src \in Hop BY <2>1, HeardNow
    <2>4. PICK token \in {f.tok, Calling} :
            /\ Become(s, [m EXCEPT !.work = token])
            /\ Send(s, {Tokened("WORKING_ACK", s, f.src, token)})
      BY <1>2 DEF RxWorkingOffer
    <2> DEFINE n == [m EXCEPT !.work = token]
               frames == {Tokened("WORKING_ACK", s, f.src, token)}
    <2>5. token \in Token BY <2>3, Tokens
    <2>6. GoodSession(n, s, Holders)
      BY <1>1, <2>5, WorkGood
    <2>7. \A g \in frames : GoodFrame(g, Holders) /\ g.src = s
      <3>1. "WORKING_ACK" \in Ordinary BY OrdinaryTypes
      <3> QED BY <2>3, <2>5, <3>1, TokenedFrame
    <2>8. Become(s, n) /\ Send(s, frames) BY <2>4
    <2> HIDE DEF n, frames
    <2> QED BY <2>1, <2>2, <2>6, <2>7, <2>8, HandlerStep
  <1>3. CASE RxWorkingAck(s, f)
    <2> DEFINE n == [m EXCEPT !.work = f.tok]
    <2>1. /\ Heard(s, f, "WORKING_ACK") /\ RxRest
          /\ UNCHANGED <<txq, learned>> /\ Become(s, Negotiate(s, n))
      BY <1>3 DEF RxWorkingAck
    <2>2. learned' \in [Station -> Hop] BY <2>1, LearnedKept
    <2>3. f.tok \in Token BY <2>1, HeardNow
    <2>4. GoodSession(n, s, Holders)
      BY <1>1, <2>3, WorkGood
    <2> HIDE DEF n
    <2>5. GoodSession(Negotiate(s, n), s, Holders) BY <2>4, NegotiateGood
    <2> QED BY <2>1, <2>2, <2>5, QuietHandler
  <1> QED BY <1>2, <1>3

\* A session whose profile was agreed.
LEMMA AgreedGood ==
    ASSUME NEW s \in Station, NEW H \in SUBSET Station, NEW m, GoodSession(m, s, H),
           NEW tok \in Token
    PROVE  GoodSession(Agreed(m, tok), s, H)
  <1> DEFINE trans == IF tok = A500 THEN "ardop" ELSE m.trans
             n == [m EXCEPT !.tok = tok, !.trans = trans]
  <1>1. m \in Session BY DEF GoodSession
  <1>2. trans \in Transport BY <1>1 DEF Session, Transport
  <1>3. Agreed(m, tok) = n BY DEF Agreed
  <1> HIDE DEF trans
  <1>4. /\ n \in Session /\ n.dir = m.dir /\ n.src = m.src /\ n.prev = m.prev
        /\ n.ttl = m.ttl /\ n.st = m.st /\ n.hop = m.hop /\ n.hops = m.hops
        /\ n.hollow = m.hollow
    BY <1>1, <1>2 DEF Session
  <1> HIDE DEF n
  <1> QED BY <1>3, <1>4, KeepsGood

\* A session that falls back to VARA.
LEMMA FallbackGood ==
    ASSUME NEW s \in Station, NEW H \in SUBSET Station, NEW m, GoodSession(m, s, H),
           NEW tok \in Token
    PROVE  GoodSession(Fallback(m, tok), s, H)
  <1> DEFINE trans == "vara_p2p"
             n == [m EXCEPT !.tok = tok, !.trans = trans]
  <1>1. m \in Session BY DEF GoodSession
  <1>2. trans \in Transport BY <1>1 DEF Session, Transport
  <1>3. Fallback(m, tok) = n BY DEF Fallback
  <1> HIDE DEF trans
  <1>4. /\ n \in Session /\ n.dir = m.dir /\ n.src = m.src /\ n.prev = m.prev
        /\ n.ttl = m.ttl /\ n.st = m.st /\ n.hop = m.hop /\ n.hops = m.hops
        /\ n.hollow = m.hollow
    BY <1>1, <1>2 DEF Session
  <1> HIDE DEF n
  <1> QED BY <1>3, <1>4, KeepsGood

\* _rx_g2_profile_offer and _rx_g2_profile_ack.
LEMMA RxG2ProfileStep ==
    ASSUME IInv, NEW s \in Station, NEW f,
           RxG2ProfileOffer(s, f) \/ RxG2ProfileAck(s, f)
    PROVE  Good
  <1> DEFINE m == sess[s]
  <1>1. GoodSession(m, s, Holders) /\ m \in Session /\ Holders \in SUBSET Station
        /\ profile[s] \in Token
    BY Here
  <1>2. \A g \in Cancelling(s) : GoodFrame(g, Holders) /\ g.src = s
    BY CancelFrames DEF IInv
  <1>3. CASE RxG2ProfileOffer(s, f)
    <2> DEFINE n == ProfileAnswer(m, f.tok, profile[s])
               frames == {Tokened("G2_PROFILE_ACK", s, m.src, n.tok)}
    <2>1. Heard(s, f, "G2_PROFILE_OFFER") /\ RxRest /\ UNCHANGED learned
      BY <1>3 DEF RxG2ProfileOffer
    <2>2. learned' \in [Station -> Hop] BY <2>1, LearnedKept
    <2>3. f.tok \in Token BY <2>1, HeardNow
    <2>4. GoodSession(n, s, Holders)
      BY <1>1, <2>3, AgreedGood, FallbackGood, Tokens DEF ProfileAnswer
    <2>5. m.src \in Hop /\ n.tok \in Token
      BY <1>1, <2>4 DEF GoodSession, Session
    <2>6. \A g \in frames : GoodFrame(g, Holders) /\ g.src = s
      <3>1. "G2_PROFILE_ACK" \in Ordinary BY OrdinaryTypes
      <3> HIDE DEF n
      <3> QED BY <2>5, <3>1, TokenedFrame
    <2>7. FailWith(s, m, Cancelling(s)) \/ (Become(s, n) /\ Send(s, frames))
      BY <1>3 DEF RxG2ProfileOffer
    <2> HIDE DEF n, frames
    <2>8. CASE FailWith(s, m, Cancelling(s))
      BY <1>1, <1>2, <2>1, <2>2, <2>8, HandlerStep
    <2>9. CASE Become(s, n) /\ Send(s, frames)
      BY <2>1, <2>2, <2>4, <2>6, <2>9, HandlerStep
    <2> QED BY <2>7, <2>8, <2>9
  <1>4. CASE RxG2ProfileAck(s, f)
    <2> DEFINE n == ProfileSettled(m, f.tok)
    <2>1. Heard(s, f, "G2_PROFILE_ACK") /\ RxRest /\ UNCHANGED learned
      BY <1>4 DEF RxG2ProfileAck
    <2>2. learned' \in [Station -> Hop] BY <2>1, LearnedKept
    <2>3. f.tok \in Token BY <2>1, HeardNow
    <2>4. GoodSession(n, s, Holders)
      BY <1>1, <2>3, AgreedGood, FallbackGood, Tokens DEF ProfileSettled
    <2>5. \/ FailWith(s, m, Cancelling(s))
          \/ Become(s, Starting(n)) /\ UNCHANGED txq
      BY <1>4 DEF RxG2ProfileAck
    <2> HIDE DEF n
    <2>6. GoodSession(Starting(n), s, Holders) BY <1>1, <2>4, StartingGood
    <2>7. CASE FailWith(s, m, Cancelling(s))
      BY <1>1, <1>2, <2>1, <2>2, <2>7, HandlerStep
    <2>8. CASE Become(s, Starting(n)) /\ UNCHANGED txq
      BY <2>1, <2>2, <2>6, <2>8, QuietHandler
    <2> QED BY <2>5, <2>7, <2>8
  <1> QED BY <1>3, <1>4

\* _rx_busy, _rx_start and _rx_cancel.
LEMMA RxPlainStep ==
    ASSUME IInv, NEW s \in Station, NEW f,
           RxBusy(s, f) \/ RxStart(s, f) \/ RxCancel(s, f)
    PROVE  Good
  <1>1. /\ GoodSession(Enter(sess[s], "waiting"), s, Holders)
        /\ GoodSession(Enter(sess[s], "receiving"), s, Holders)
        /\ GoodSession(Enter(sess[s], "cancelled"), s, Holders)
    BY Here, PlainStates
  <1>2. CASE RxBusy(s, f)
    BY <1>1, <1>2, LearnedKept, QuietHandler DEF RxBusy
  <1>3. CASE RxStart(s, f)
    <2> DEFINE n == Enter(sess[s], "receiving")
    <2>1. PICK began \in BOOLEAN : Become(s, [n EXCEPT !.rx = began])
      BY <1>3 DEF RxStart
    <2>2. Alike(n, [n EXCEPT !.rx = began])
      BY <1>1 DEF GoodSession, Alike, Session
    <2> HIDE DEF n
    <2>3. GoodSession([n EXCEPT !.rx = began], s, Holders)
      BY <1>1, <2>2, Here, AlikeGood DEF n
    <2> QED BY <1>3, <2>1, <2>3, LearnedKept, QuietHandler DEF RxStart
  <1>4. CASE RxCancel(s, f)
    <2> DEFINE n == Enter(sess[s], "cancelled")
    <2>1. /\ Heard(s, f, "CANCEL") /\ RxRest /\ UNCHANGED learned
          /\ Become(s, n) /\ SendAndStop(s, {})
      BY <1>4 DEF RxCancel
    <2>2. learned' \in [Station -> Hop] BY <2>1, LearnedKept
    <2>3. \A g \in {} : GoodFrame(g, Holders) /\ g.src = s OBVIOUS
    <2> HIDE DEF n
    <2>4. GoodSession(n, s, Holders) BY <1>1 DEF n
    <2> QED BY <2>1, <2>2, <2>3, <2>4, HandlerStep
  <1> QED BY <1>2, <1>3, <1>4

\* The next hop has the message: it said so, and only holders do.
LEMMA RxReceivedStep ==
    ASSUME IInv, NEW s \in Station, NEW f, RxReceived(s, f)
    PROVE  Good
  <1> DEFINE m == sess[s]
             n == Enter(m, Confirmation(f.src))
  <1>1. /\ Heard(s, f, "RECEIVED") /\ RxRest /\ UNCHANGED txq
        /\ m.dir = "out" /\ f.src = m.hop /\ Become(s, n)
        /\ learned' = [learned EXCEPT ![s] = f.src]
    BY DEF RxReceived, Out
  <1>2. f.src \in Hop /\ f.src \in Holders \ {s}
    BY <1>1, HeardNow DEF GoodFrame
  <1>3. learned' \in [Station -> Hop] BY <1>1, <1>2, Here
  <1>4. GoodSession(m, s, Holders) /\ m \in Session BY Here
  <1>5. /\ Confirmation(f.src) \in {"delivered", "confirmed"}
        /\ Confirmation(f.src) = "delivered" => f.src = Dest
    BY DEF Confirmation
  <1>6. Confirmation(f.src) \in State BY <1>5 DEF State, Terminal
  <1>7. /\ n \in Session /\ n.st = Confirmation(f.src) /\ n.dir = m.dir
        /\ n.src = m.src /\ n.prev = m.prev /\ n.ttl = m.ttl
        /\ n.hops = m.hops /\ n.hop = m.hop
        /\ n.hollow = m.hollow
    BY <1>4, <1>6, EnterFacts
  <1> HIDE DEF n
  <1>8. GoodSession(n, s, Holders)
    BY <1>1, <1>2, <1>4, <1>5, <1>7 DEF GoodSession
  <1> QED BY <1>1, <1>3, <1>8, QuietHandler

\* A receipt only travels once the destination has the message.
LEMMA RxDeliveredStep ==
    ASSUME IInv, NEW s \in Station, NEW f, RxDelivered(s, f)
    PROVE  Good
  <1> DEFINE m == sess[s]
             forward == m.prev # NoStation /\ f.ttl > 1 /\ ~m.rfwd
             n == IF m.st = "delivered" THEN m ELSE Enter(m, "delivered")
             seen == n.rfwd \/ forward
             k == [n EXCEPT !.rfwd = seen]
             frames == IF forward THEN {Receipt(s, m.prev, f.ttl - 1)} ELSE {}
  <1>1. /\ Heard(s, f, "DELIVERED") /\ RxRest /\ UNCHANGED learned
        /\ f.hop = s /\ m.dir # "none"
    BY DEF RxDelivered
  <1>2. Become(s, k) /\ Send(s, frames) BY DEF RxDelivered
  <1>3. learned' \in [Station -> Hop] BY <1>1, LearnedKept
  <1>4. s \in Holders /\ Dest \in Holders /\ f.ttl \in Nat
    BY <1>1, HeardNow DEF GoodFrame
  <1>5. GoodSession(m, s, Holders) /\ m \in Session /\ Holders \in SUBSET Station
    BY Here
  <1>6. "delivered" \in State BY DEF State, Terminal
  <1>7. /\ n \in Session /\ n.st = "delivered" /\ n.dir = m.dir
        /\ n.src = m.src /\ n.prev = m.prev /\ n.ttl = m.ttl
        /\ n.hops = m.hops /\ n.hop = m.hop
        /\ n.hollow = m.hollow
    BY <1>5, <1>6, EnterFacts
  <1>8. \A g \in frames : GoodFrame(g, Holders) /\ g.src = s
    <2>1. CASE forward
      <3> DEFINE left == f.ttl - 1
      <3>1. left \in Nat BY <1>4, <2>1
      <3>2. m.prev \in Holders BY <1>5, <2>1 DEF GoodSession
      <3> HIDE DEF left
      <3>3. GoodFrame(Receipt(s, m.prev, left), Holders)
            /\ Receipt(s, m.prev, left).src = s
        BY <1>4, <1>5, <3>1, <3>2, ReceiptFrame
      <3> QED BY <2>1, <3>3 DEF left
    <2>2. CASE ~forward BY <2>2
    <2> QED BY <2>1, <2>2
  <1>9. seen \in BOOLEAN BY <1>7 DEF Session
  <1> HIDE DEF n, seen, frames
  <1>10. /\ k \in Session /\ k.st = "delivered" /\ k.dir = m.dir
         /\ k.src = m.src /\ k.prev = m.prev /\ k.ttl = m.ttl
         /\ k.hops = m.hops /\ k.hop = m.hop
         /\ k.hollow = m.hollow
    BY <1>7, <1>9 DEF Session
  <1> HIDE DEF k
  <1>11. GoodSession(k, s, Holders) BY <1>4, <1>5, <1>10 DEF GoodSession
  <1> QED BY <1>1, <1>2, <1>3, <1>8, <1>11, HandlerStep

\* A receipt for a message no session knows.
LEMMA RxStrayReceiptStep ==
    ASSUME IInv, NEW s \in Station, NEW f, RxStrayReceipt(s, f)
    PROVE  Good
  <1> DEFINE e == mail[s]
             kept == e.box \in {"outbox", "transit", "sent"}
             n == [e EXCEPT !.box = "sent", !.status = "delivered"]
  <1>1. /\ Heard(s, f, "DELIVERED") /\ f.hop = s
        /\ UNCHANGED <<sess, learned, profile, sends, configs, restarts>>
        /\ receiptSeen' = receiptSeen \cup {s}
    BY DEF RxStrayReceipt
  <1>2. s \in Holders /\ Dest \in Holders /\ f.ttl \in Nat
    BY <1>1, HeardNow DEF GoodFrame
  <1>3. GoodMail(e, s, Holders) /\ e \in Mail /\ Holders \in SUBSET Station
    BY Here DEF IInv, MailInv, GoodMail
  <1>4. Holders' = Holders /\ MailInv' /\ CustodyStep
    <2>1. CASE kept
      <3>1. mail' = [mail EXCEPT ![s] = n]
        BY <2>1 DEF RxStrayReceipt, IInv, MailInv
      <3>2. s # Dest BY <1>3, <2>1 DEF GoodMail
      <3>3. GoodMail(n, s, Holders) /\ n.box = "sent"
        BY <1>2, <1>3, <3>2 DEF GoodMail, Mail
      <3> HIDE DEF n
      <3>4. \A t \in Station : mail'[t] = IF t = s THEN n ELSE mail[t]
        BY <3>1 DEF IInv, MailInv
      <3>5. Holders' = Holders BY <2>1, <3>3, <3>4 DEF Holders, Holds
      <3>6. Owners' = Owners \ {s} BY <2>1, <3>3, <3>4 DEF Owners
      <3>7. Promise!Release(s)
        BY <1>2, <3>2, <3>5, <3>6 DEF Promise!Release, Holders
      <3>8. MailInv' BY <3>1, <3>3, <3>5, MailGrows DEF IInv
      <3> QED BY <3>5, <3>7, <3>8 DEF CustodyStep
    <2>2. CASE ~kept
      <3>1. UNCHANGED mail BY <2>2 DEF RxStrayReceipt
      <3> QED BY <3>1, NothingMailed DEF CustodyStep
    <2> QED BY <2>1, <2>2
  <1>5. SessInv' BY <1>1, <1>4, SessionsGrow DEF IInv
  <1>6. InboxInv' BY <1>1, <1>4, HeardGood DEF IInv
  <1>7. RestInv' BY <1>1 DEF IInv, RestInv, RxStrayReceipt
  <1>8. TxqInv'
    <2>1. CASE UNCHANGED txq
      BY <1>4, <2>1, QueueGrows DEF IInv
    <2>2. CASE /\ e.hops # <<>> /\ f.ttl > 1
               /\ Send(s, {Receipt(s, e.hops[Len(e.hops)], f.ttl - 1)})
      <3> DEFINE left == f.ttl - 1
                 last == e.hops[Len(e.hops)]
                 frames == {Receipt(s, last, left)}
      <3>1. left \in Nat BY <1>2, <2>2
      <3>2. e.hops \in Seq(Station) BY <1>3 DEF Mail
      <3>3. Len(e.hops) \in DOMAIN e.hops BY <2>2, <3>2
      <3>4. last \in Holders BY <1>3, <3>3 DEF GoodMail
      <3>5. Send(s, frames) BY <2>2
      <3> HIDE DEF left, last
      <3>6. \A g \in frames : GoodFrame(g, Holders') /\ g.src = s
        BY <1>2, <1>3, <1>4, <3>1, <3>4, ReceiptFrame
      <3> HIDE DEF frames
      <3> QED BY <1>4, <3>5, <3>6, SendGood DEF IInv
    <2> QED BY <2>1, <2>2 DEF RxStrayReceipt
  <1> QED BY <1>4, <1>5, <1>6, <1>7, <1>8 DEF Good, IInv

\* Every frame handler.
LEMMA ReceiveStep ==
    ASSUME IInv, NEW s \in Station, Receive(s)
    PROVE  Good
  <1> DEFINE f == Head(inbox[s])
  <1>1. \/ Miss(s) \/ RxRouteQuery(s, f) \/ RxRouteOffer(s, f) \/ RxHaveMsg(s, f)
        \/ RxAck(s, f) \/ RxWorkingOffer(s, f) \/ RxWorkingAck(s, f)
        \/ RxG2ProfileOffer(s, f) \/ RxG2ProfileAck(s, f) \/ RxBusy(s, f)
        \/ RxStart(s, f) \/ RxReceived(s, f) \/ RxStrayReceipt(s, f)
        \/ RxDelivered(s, f) \/ RxCancel(s, f)
    BY DEF Receive
  <1> HIDE DEF f
  <1> QED BY <1>1, MissStep, RxRouteQueryStep, RxRouteOfferStep, RxHaveMsgStep,
             RxAckStep, RxWorkingStep, RxG2ProfileStep, RxPlainStep,
             RxReceivedStep, RxStrayReceiptStep, RxDeliveredStep

----------------------------------------------------------------------------
(* The transmitter, and the process                                        *)

\* A queued frame goes on the air.
LEMMA TransmitStep ==
    ASSUME IInv, NEW s \in Station, Transmit(s)
    PROVE  Good
  <1>1. PICK f \in txq[s] : txq' = [txq EXCEPT ![s] = @ \ {f}] /\ Air(s, f)
    BY DEF Transmit
  <1>2. UNCHANGED <<sess, mail, learned>> /\ RxRest BY DEF Transmit
  <1>3. Holders' = Holders /\ Owners' = Owners /\ MailInv'
    BY <1>2, NothingMailed
  <1>4. GoodFrame(f, Holders) /\ f.src = s BY DEF IInv, TxqInv
  <1>5. InboxInv' BY <1>1, <1>3, <1>4, AirGood DEF IInv
  <1> DEFINE Q == txq[s] \ {f}
  <1>6. txq' = [txq EXCEPT ![s] = Q] BY <1>1
  <1>7. \A g \in Q : g \in txq[s] OBVIOUS
  <1> HIDE DEF Q
  <1>8. TxqInv' BY <1>3, <1>6, <1>7, QueueGrows DEF IInv
  <1>9. SessInv' BY <1>2, <1>3, SessionsGrow DEF IInv
  <1>10. RestInv' BY <1>2 DEF IInv, RestInv, RxRest
  <1> QED BY <1>3, <1>5, <1>8, <1>9, <1>10 DEF Good, IInv, CustodyStep

\* The frame a session waits behind is good.
LEMMA GuardedGood ==
    ASSUME IInv, NEW s \in Station
    PROVE  GoodFrame(Guarded(s), Holders) /\ Guarded(s).src = s
  <1> DEFINE m == sess[s]
  <1>1. GoodSession(m, s, Holders) /\ m \in Session /\ m.hop \in Hop
        /\ m.work \in Token /\ m.tok \in Token
    BY Here DEF Session
  <1>2. CASE m.st = "announcing"
    <2>1. Guarded(s) = HaveMsg(s, m) BY <1>2 DEF Guarded
    <2>2. s \in Holders /\ m.ttl # 0 BY <1>1, <1>2 DEF GoodSession
    <2> QED BY <1>1, <2>1, <2>2, AnnouncementFrame DEF IInv
  <1>3. CASE m.st = "working"
    <2>1. Guarded(s) = Tokened("WORKING_OFFER", s, m.hop, m.work)
      BY <1>3 DEF Guarded
    <2>2. "WORKING_OFFER" \in Ordinary BY OrdinaryTypes
    <2> QED BY <1>1, <2>1, <2>2, TokenedFrame
  <1>4. CASE m.st = "g2-profile"
    <2>1. Guarded(s) = Tokened("G2_PROFILE_OFFER", s, m.hop, m.tok)
      BY <1>4 DEF Guarded
    <2>2. "G2_PROFILE_OFFER" \in Ordinary BY OrdinaryTypes
    <2> QED BY <1>1, <2>1, <2>2, TokenedFrame
  <1>5. CASE m.st \notin {"announcing", "working", "g2-profile"}
    <2>1. Guarded(s) = FrameTo("START_VARA", s, m.hop) BY <1>5 DEF Guarded
    <2> QED BY <1>1, <2>1, OrdinaryFrame, OrdinaryTypes
  <1> QED BY <1>2, <1>3, <1>4, <1>5

\* A guarded frame goes on the air.
LEMMA TransmitGuardedStep ==
    ASSUME IInv, NEW s \in Station, TransmitGuarded(s)
    PROVE  Good
  <1> DEFINE m == sess[s]
             tx == IF m.st = "starting" THEN "aired" ELSE "done"
             n == [m EXCEPT !.tx = tx]
  <1>1. Air(s, Guarded(s)) /\ UNCHANGED <<mail, txq, learned>> /\ RxRest
    BY DEF TransmitGuarded
  <1>2. sess' = [sess EXCEPT ![s] = n] BY DEF TransmitGuarded, IInv, SessInv
  <1>3. Holders' = Holders /\ Owners' = Owners /\ MailInv'
    BY <1>1, NothingMailed
  <1>4. InboxInv' BY <1>1, <1>3, GuardedGood, AirGood DEF IInv
  <1>5. GoodSession(m, s, Holders) /\ m \in Session /\ Holders \in SUBSET Station
    BY Here
  <1>6. tx \in TxStage BY DEF TxStage
  <1> HIDE DEF tx
  <1>7. /\ n \in Session /\ n.dir = m.dir /\ n.src = m.src /\ n.prev = m.prev
        /\ n.ttl = m.ttl /\ n.st = m.st /\ n.hop = m.hop /\ n.hops = m.hops
        /\ n.hollow = m.hollow
    BY <1>5, <1>6 DEF Session
  <1> HIDE DEF n
  <1>8. GoodSession(n, s, Holders) BY <1>5, <1>7, KeepsGood
  <1>9. SessInv' BY <1>2, <1>3, <1>8, SessionsGrow DEF IInv
  <1>10. TxqInv' BY <1>1, <1>3, QueueGrows DEF IInv
  <1>11. RestInv' BY <1>1 DEF IInv, RestInv, RxRest
  <1> QED BY <1>3, <1>4, <1>9, <1>10, <1>11 DEF Good, IInv, CustodyStep

\* The transmitter.
LEMMA TransmitterStep ==
    ASSUME IInv, NEW s \in Station, Transmitter(s)
    PROVE  Good
  <1>1. CASE StartComplete(s)
    <2> DEFINE n == Enter(sess[s], "transferring")
    <2>1. GoodSession(n, s, Holders) BY Here, PlainStates
    <2>2. Become(s, n) /\ UNCHANGED txq /\ TimerRest
      BY <1>1 DEF StartComplete
    <2> HIDE DEF n
    <2> QED BY <2>1, <2>2, QuietTimer
  <1> QED BY <1>1, TransmitStep, TransmitGuardedStep DEF Transmitter

\* A restart loses sessions and frames, never mail.
LEMMA RestartStep ==
    ASSUME IInv, NEW s \in Station, Restart(s)
    PROVE  Good
  <1>1. Holders' = Holders /\ Owners' = Owners /\ MailInv'
    BY NothingMailed DEF Restart
  <1>2. GoodSession(NoSession, s, Holders')
    <2>1. Holders \in SUBSET Station BY DEF Holders
    <2> QED BY <1>1, <2>1, NoSessionGood
  <1>3. SessInv' BY <1>1, <1>2, SessionsGrow DEF IInv, Restart
  <1>4. TxqInv'
    <2> DEFINE none == {}
    <2>1. txq' = [txq EXCEPT ![s] = none] BY DEF Restart
    <2>2. \A f \in none : f \in txq[s] OBVIOUS
    <2> HIDE DEF none
    <2> QED BY <1>1, <2>1, <2>2, QueueGrows DEF IInv
  <1>5. InboxInv'
    <2>1. inbox' \in [Station -> Seq(Frame)] BY DEF Restart, IInv, InboxInv
    <2>2. ASSUME NEW t \in Station, NEW i \in 1..Len(inbox'[t])
          PROVE  GoodFrame(inbox'[t][i], Holders') /\ inbox'[t][i].src # t
      <3>1. CASE t = s
        <4>1. inbox'[t] = <<>> BY <3>1 DEF Restart, IInv, InboxInv
        <4> QED BY <2>2, <4>1
      <3>2. CASE t # s
        <4>1. inbox'[t] = inbox[t] BY <3>2 DEF Restart, IInv, InboxInv
        <4> QED BY <1>1, <2>2, <4>1 DEF IInv, InboxInv
      <3> QED BY <3>1, <3>2
    <2> QED BY <2>1, <2>2 DEF InboxInv
  <1>6. RestInv' BY Hops0 DEF IInv, RestInv, Restart
  <1> QED BY <1>1, <1>3, <1>4, <1>5, <1>6 DEF Good, IInv, CustodyStep

----------------------------------------------------------------------------
(* The invariant                                                           *)

\* The invariant holds when the message has just been composed.
LEMMA InitInv == Init => IInv
  <1> SUFFICES ASSUME Init PROVE IInv
    OBVIOUS
  <1>1. Holders \in SUBSET Station BY DEF Holders
  <1>2. \A s \in Station : GoodSession(sess[s], s, Holders)
    BY <1>1, NoSessionGood DEF Init
  <1>3. SessInv BY <1>2 DEF SessInv, Init, GoodSession
  <1>4. ASSUME NEW s \in Station
        PROVE  GoodMail(mail[s], s, Holders)
    <2>1. CASE s = Origin
      <3>1. mail[s] = [box |-> "outbox", status |-> "queued", prev |-> NoStation,
                       ttl |-> InitTtl, hops |-> <<>>]
        BY <2>1 DEF Init, NoMail
      <3>2. <<>> \in Seq(Station) /\ DOMAIN <<>> = {} OBVIOUS
      <3>3. s # Dest /\ InitTtl \in Nat /\ InitTtl # 0
        BY <2>1, StationAssumption, BoundAssumption
      <3> QED BY <3>1, <3>2, <3>3, Hops0 DEF GoodMail, Mail
    <2>2. CASE s # Origin
      <3>1. mail[s] = NoMail BY <2>2 DEF Init
      <3>2. <<>> \in Seq(Station) /\ DOMAIN <<>> = {} OBVIOUS
      <3> QED BY <3>1, <3>2, Hops0 DEF GoodMail, Mail, NoMail
    <2> QED BY <2>1, <2>2
  <1>5. MailInv
    <2>1. \A s \in Station : mail[s] \in Mail BY <1>4 DEF GoodMail
    <2>2. mail = [s \in Station |-> mail[s]] BY DEF Init
    <2> QED BY <1>4, <2>1, <2>2 DEF MailInv
  <1>6. TxqInv BY DEF TxqInv, Init
  <1>7. InboxInv BY DEF InboxInv, Init
  <1>8. RestInv BY Hops0, StationAssumption DEF RestInv, Init
  <1> QED BY <1>3, <1>5, <1>6, <1>7, <1>8 DEF IInv

\* Every step keeps the invariant and is a step of Custody or none.
LEMMA NextInv ==
    ASSUME IInv, Next, Prompt'
    PROVE  Good
  <1>1. PICK s \in Station :
            \/ Operator(s) \/ Discoverer(s) \/ Payload(s) \/ Tick(s)
            \/ Receive(s) \/ Transmitter(s) \/ Restart(s)
    BY DEF Next
  <1>2. CASE Operator(s)
    BY <1>2, QueueStep, CancelStep, DiscovererStep, ReconfigureStep
       DEF Operator, SendQueued, AutoDeliver
  <1> QED BY <1>1, <1>2, DiscovererStep, PayloadStep, TickStep, ReceiveStep,
             TransmitterStep, RestartStep

\* Nothing changes when nothing changes.
LEMMA StutterInv ==
    ASSUME IInv, UNCHANGED vars
    PROVE  IInv' /\ Holders' = Holders
  <1>1. UNCHANGED <<sess, mail, txq, inbox>> BY DEF vars
  <1>2. Holders' = Holders BY <1>1, NothingMailed
  <1>3. SessInv' /\ MailInv' /\ TxqInv' /\ InboxInv'
    <2>1. MailInv' BY <1>1, NothingMailed
    <2>2. SessInv' BY <1>1, <1>2 DEF IInv, SessInv
    <2>3. TxqInv' BY <1>1, <1>2 DEF IInv, TxqInv
    <2>4. InboxInv' BY <1>1, <1>2 DEF IInv, InboxInv
    <2> QED BY <2>1, <2>2, <2>3, <2>4
  <1>4. RestInv' BY DEF vars, IInv, RestInv
  <1> QED BY <1>2, <1>3, <1>4 DEF IInv

\* What late receptions have reported is not forgotten.
LEMMA LateGrows ==
    ASSUME Next
    PROVE  late \subseteq late'
  <1>1. PICK s \in Station :
            \/ Operator(s) \/ Discoverer(s) \/ Payload(s) \/ Tick(s)
            \/ Receive(s) \/ Transmitter(s) \/ Restart(s)
    BY DEF Next
  <1> USE DEF TimerRest, StationRest, AllButLate, RxRest
  <1>2. CASE Operator(s)
    BY <1>2 DEF Operator, SendQueued, AutoDeliver, Queue, Cancel, Approve, Reconfigure
  <1>3. CASE Discoverer(s)
    BY <1>3 DEF Discoverer, DiscoveryResult, DiscoveryFailure, ResumeRoute
  <1>4. CASE Payload(s)
    BY <1>4 DEF Payload, PayloadArrives, PayloadStrays, ReceiveFails,
                ReceiveCompletes, SendDone, LateFails, LateCompletes, Mistaken
  <1>5. CASE Tick(s)
    BY <1>5 DEF Tick, AnnounceTimeout, BusyRetry, DiscoveryTimeout, WorkingTimeout,
                ProfileTimeout, StartTimeout, AckedTimeout, TransferTimeout,
                ReceiptTimeout, ConfirmTimeout
  <1>6. CASE Receive(s)
    <2> DEFINE f == Head(inbox[s])
    <2>1. \/ Miss(s) \/ RxRouteQuery(s, f) \/ RxRouteOffer(s, f) \/ RxHaveMsg(s, f)
          \/ RxAck(s, f) \/ RxWorkingOffer(s, f) \/ RxWorkingAck(s, f)
          \/ RxG2ProfileOffer(s, f) \/ RxG2ProfileAck(s, f) \/ RxBusy(s, f)
          \/ RxStart(s, f) \/ RxReceived(s, f) \/ RxStrayReceipt(s, f)
          \/ RxDelivered(s, f) \/ RxCancel(s, f)
      BY <1>6 DEF Receive
    <2> QED BY <2>1 DEF Miss, RxRouteQuery, RxRouteOffer, RxHaveMsg, RxAck,
         RxWorkingOffer, RxWorkingAck, RxG2ProfileOffer, RxG2ProfileAck, RxBusy,
         RxStart, RxReceived, RxStrayReceipt, RxDelivered, RxCancel
  <1>7. CASE Transmitter(s)
    BY <1>7 DEF Transmitter, Transmit, TransmitGuarded, StartComplete
  <1>8. CASE Restart(s) BY <1>8 DEF Restart
  <1> QED BY <1>1, <1>2, <1>3, <1>4, <1>5, <1>6, <1>7, <1>8

\* So a state that is prompt came from one.
LEMMA StaysPrompt ==
    ASSUME [Next]_vars, Prompt'
    PROVE  Prompt
  BY LateGrows DEF Prompt, vars

\* The inductive invariant, from which the other theorems follow: whoever is
\* named as the origin of an announcement, of a receipt, of an inbound session
\* or of a step of the route has the message.
THEOREM Invariance == Spec => [](Prompt => IInv)
  <1>1. (Prompt => IInv) /\ [Next]_vars => (Prompt => IInv)'
    BY StaysPrompt, NextInv, StutterInv DEF Good
  <1>2. Init => (Prompt => IInv) BY InitInv
  <1> QED BY <1>1, <1>2, PTL DEF Spec

\* Every variable has its type, in runs of any length with any constants.
THEOREM TypeCorrect == Spec => [](Prompt => TypeOK)
  <1>1. IInv => TypeOK
    BY DEF IInv, SessInv, MailInv, TxqInv, InboxInv, RestInv, TypeOK
  <1> QED BY <1>1, Invariance, PTL

\* DELIVERED is only ever shown of a message in the destination's inbox,
\* whatever was lost, repeated, overheard, cancelled or restarted.
THEOREM DeliveriesAreTrue == Spec => []DeliveryTruth
  <1>1. IInv => DeliveryTruth
    <2> SUFFICES ASSUME IInv, NEW s \in Station,
                        sess[s].st = "delivered" \/ mail[s].status = "delivered"
                 PROVE  mail[Dest].box = "inbox"
      BY DEF DeliveryTruth
    <2>1. Dest \in Holders
      BY DEF IInv, SessInv, MailInv, GoodSession, GoodMail
    <2> QED BY <2>1, StationAssumption DEF IInv, MailInv, GoodMail, Holders, Holds
  <1>2. ~Prompt => DeliveryTruth BY DEF DeliveryTruth
  <1> QED BY <1>1, <1>2, Invariance, PTL

\* A sender that files its copy under Sent left one at its next hop.
THEOREM CustodyIsReal == Spec => []CustodyTruth
  <1>1. IInv => CustodyTruth
    BY DEF CustodyTruth, IInv, SessInv, GoodSession, Out, Holders
  <1>2. ~Prompt => CustodyTruth BY DEF CustodyTruth
  <1> QED BY <1>1, <1>2, Invariance, PTL

\* The stations start as Custody does.
LEMMA CustodyInit == Init => Promise!Init
  <1> SUFFICES ASSUME Init PROVE Promise!Init
    OBVIOUS
  <1>1. \A s \in Station : mail[s].box = IF s = Origin THEN "outbox" ELSE "none"
    BY DEF Init, NoMail
  <1>2. \A s \in Station : mail[s].status # "delivered" /\ sess[s].st # "delivered"
    <2>1. NoSession.st = "none" BY DEF NoSession, NewSession
    <2>2. NoMail.status = "none" BY DEF NoMail
    <2>3. ASSUME NEW s \in Station
          PROVE  mail[s].status # "delivered" /\ sess[s].st # "delivered"
      <3>1. sess[s].st # "delivered" BY <2>1 DEF Init
      <3>2. CASE s = Origin BY <3>1, <3>2 DEF Init, NoMail
      <3>3. CASE s # Origin BY <2>2, <3>1, <3>3 DEF Init
      <3> QED BY <3>2, <3>3
    <2> QED BY <2>3
  <1> QED BY <1>1, <1>2, StationAssumption DEF Promise!Init, Holds, Owners, Told

\* Every step is a step of Custody or none.
LEMMA CustodySteps ==
    ASSUME IInv, Prompt', [Next]_vars
    PROVE  [Promise!Next]_(Promise!vars)
  <1>1. ASSUME IInv, Next, Prompt'
        PROVE  Promise!Next
    <2>1. IInv' /\ CustodyStep BY <1>1, NextInv DEF Good
    <2>2. Told' # {} => Dest \in Owners'
      <3>1. SUFFICES ASSUME NEW s \in Station,
                  sess'[s].st = "delivered" \/ mail'[s].status = "delivered"
            PROVE  Dest \in Owners'
        BY DEF Told
      <3>2. Dest \in Holders'
        BY <2>1, <3>1 DEF IInv, SessInv, MailInv, GoodSession, GoodMail
      <3>3. mail'[Dest].box = "inbox"
        BY <2>1, <3>2, StationAssumption
           DEF IInv, MailInv, GoodMail, Holders, Holds
      <3> QED BY <3>3, StationAssumption DEF Owners
    <2>3. Promise!Report BY <2>2 DEF Promise!Report, Told
    <2>4. \/ \E s \in Station : Promise!Accept(s) \/ Promise!Release(s)
          \/ /\ {s \in Station : Holds(s)}' = {s \in Station : Holds(s)}
             /\ Owners' = Owners
      BY <2>1 DEF CustodyStep, Holders
    <2> QED BY <2>3, <2>4 DEF Promise!Next
  <1>2. ASSUME UNCHANGED vars
        PROVE  UNCHANGED Promise!vars
    BY <1>2 DEF vars, Promise!vars, Holds, Owners, Told
  <1> QED BY <1>1, <1>2

\* The stations implement the abstract Custody, as long as no late reception
\* confirms a session that has not taken the message.
THEOREM Refinement == Spec /\ []Prompt => ImplementsCustody
  <1>1. IInv /\ Prompt' /\ [Next]_vars => [Promise!Next]_(Promise!vars)
    BY CustodySteps
  <1> QED BY <1>1, CustodyInit, Invariance, PTL DEF Spec, ImplementsCustody, Promise!Spec

-----------------------------------------------------------------------------
(* Sessions at work: every action but a restart is the business of one
   station, and what its session is about does not change under it. *)

\* What a session never changes of itself.
Same(m, n) == n.dir = m.dir /\ n.src = m.src /\ n.prev = m.prev

\* Mail shown as being sent is being sent.
SendOk(s) ==
    mail[s].status = "sending" =>
        Open(s) /\ sess[s].dir = "out" /\ mail[s].box # "none"

\* What is shown of every action but a restart: it is the business of one
\* station, whose session stays what it is while it is at work.
Orderly(s) ==
    /\ \A t \in Station \ {s} : sess'[t] = sess[t] /\ mail'[t] = mail[t]
    /\ Open(s) =>
        \/ Same(sess[s], sess'[s])
        \/ In(s, "receiving") /\ sess'[s].dir = "out" /\ sess'[s].prev = sess[s].src
    /\ SendOk(s) => SendOk(s)'

\* Nothing but the session's end is filed as one.
LEMMA FiledSending ==
    ASSUME NEW e \in Mail, NEW m, MailAfter(e, m).status = "sending"
    PROVE  /\ e.status = "sending"
           /\ m.dir = "out" /\ e.box # "none" => m.st \notin Terminal
           /\ MailAfter(e, m).box = e.box
  <1>1. CASE m.dir # "out" \/ e.box = "none" BY <1>1 DEF MailAfter
  <1>2. CASE ~(m.dir # "out" \/ e.box = "none")
    <2>1. MailAfter(e, m) = Filed(e, m.st) BY <1>2 DEF MailAfter
    <2>2. m.st # "delivered" BY <2>1 DEF Filed, Mail
    <2>3. m.st \notin {"confirmed", "forwarded"} BY <2>1, <2>2 DEF Filed, Mail
    <2>4. m.st \notin {"failed", "cancelled"} BY <2>1, <2>2, <2>3 DEF Filed, Mail
    <2>5. Filed(e, m.st) = e BY <2>2, <2>3, <2>4 DEF Filed
    <2> QED BY <2>1, <2>2, <2>3, <2>4, <2>5 DEF Terminal
  <1> QED BY <1>1, <1>2

\* A session that moves on by itself.
LEMMA MovesOn ==
    ASSUME IInv, NEW s \in Station, NEW m, Become(s, m), Same(sess[s], m)
    PROVE  Orderly(s)
  <1> DEFINE e == MailAfter(mail[s], m)
  <1>1. sess' = [sess EXCEPT ![s] = m] /\ mail' = [mail EXCEPT ![s] = e]
    BY DEF Become
  <1> HIDE DEF e
  <1>2. sess'[s] = m /\ mail'[s] = e BY <1>1 DEF IInv, SessInv, MailInv
  <1>3. \A t \in Station \ {s} : sess'[t] = sess[t] /\ mail'[t] = mail[t]
    BY <1>1 DEF IInv, SessInv, MailInv
  <1>4. SendOk(s) => SendOk(s)'
    <2> SUFFICES ASSUME SendOk(s), e.status = "sending"
                 PROVE  Open(s)' /\ sess'[s].dir = "out" /\ mail'[s].box # "none"
      BY <1>2 DEF SendOk
    <2>1. mail[s] \in Mail BY DEF IInv, MailInv
    <2>2. /\ mail[s].status = "sending"
          /\ m.dir = "out" /\ mail[s].box # "none" => m.st \notin Terminal
          /\ e.box = mail[s].box
      BY <2>1, FiledSending DEF e
    <2>3. sess[s].dir = "out" /\ mail[s].box # "none" BY <2>2 DEF SendOk
    <2>4. m.dir = "out" BY <2>3 DEF Same
    <2> QED BY <1>2, <2>2, <2>3, <2>4 DEF Open
  <1> QED BY <1>2, <1>3, <1>4 DEF Orderly

\* Nothing happens to any session or mail.
LEMMA NobodyMoves ==
    ASSUME NEW s \in Station, UNCHANGED <<sess, mail>>
    PROVE  Orderly(s)
  BY DEF Orderly, Same, SendOk, Open

\* A detail of the session changes.
LEMMA DetailChanges ==
    ASSUME IInv, NEW s \in Station, NEW m, sess' = [sess EXCEPT ![s] = m],
           UNCHANGED mail, Same(sess[s], m), m.st = sess[s].st
    PROVE  Orderly(s)
  <1>1. sess'[s] = m /\ \A t \in Station \ {s} : sess'[t] = sess[t]
    BY DEF IInv, SessInv
  <1>2. SendOk(s) => SendOk(s)' BY <1>1 DEF SendOk, Open, Same
  <1> QED BY <1>1, <1>2 DEF Orderly

\* Entering a state leaves a session what it is.
LEMMA EnterSame ==
    ASSUME NEW m \in Session, NEW st
    PROVE  Same(m, Enter(m, st))
  BY DEF Same, Enter, Session

\* So does announcing.
LEMMA AnnounceSame ==
    ASSUME NEW m \in Session, NEW h
    PROVE  Same(m, Announce(m, h))
  BY DEF Same, Announce, Enter, Session

\* A session has its type.
LEMMA Sessions ==
    ASSUME IInv, NEW s \in Station
    PROVE  sess[s] \in Session
  BY DEF IInv, SessInv

\* A session that fails is filed as failed.
LEMMA FailOrderly ==
    ASSUME IInv, NEW s \in Station, NEW m \in Session, NEW frames,
           Same(sess[s], m), FailWith(s, m, frames)
    PROVE  Orderly(s)
  <1>1. Same(sess[s], Enter(m, "failed")) BY EnterSame DEF Same
  <1> QED BY <1>1, MovesOn DEF FailWith

\* A leg that is launched goes out and is at work.
LEMMA LaunchOpens ==
    ASSUME NEW s \in Station, NEW m \in Session, m.dir = "out",
           NEW otherwise, NEW n \in Launch(s, m, otherwise)
    PROVE  \/ n.dir = "out" /\ n.prev = m.prev /\ n.st \notin Terminal
           \/ n = otherwise
  <1>1. PICK now \in Evidence[s] :
            \/ \E h \in Hops(s, {m.prev}, now) : n = Announce(m, h)
            \/ n = Multihop(m) \/ n = Enter(m, "discovery") \/ n = otherwise
    BY DEF Launch
  <1>2. CASE \E h \in Hops(s, {m.prev}, now) : n = Announce(m, h)
    BY <1>2 DEF Announce, Enter, Session, Terminal
  <1>3. CASE n = Multihop(m) BY <1>3 DEF Multihop, Enter, Session, Terminal
  <1>4. CASE n = Enter(m, "discovery") BY <1>4 DEF Enter, Session, Terminal
  <1> QED BY <1>1, <1>2, <1>3, <1>4

\* Mail becomes "sending" together with the session that sends it.
LEMMA QueueOrderly ==
    ASSUME IInv, NEW s \in Station, Queue(s)
    PROVE  Orderly(s)
  <1> DEFINE m == Leg(s, mail[s].prev, mail[s].ttl)
  <1>1. m \in Session /\ m.dir = "out"
    <2>1. GoodMail(mail[s], s, Holders) /\ mail[s] \in Mail BY DEF IInv, MailInv
    <2>2. mail[s].prev \in Hop /\ mail[s].ttl \in Nat BY <2>1 DEF Mail
    <2> QED BY <2>2, Sessions, LegSession
  <1>2. PICK n \in Launch(s, m, Announce(m, Dest)) :
            sess' = [sess EXCEPT ![s] = n] /\ mail' = [mail EXCEPT ![s].status = "sending"]
    BY DEF Queue
  <1>3. Announce(m, Dest).dir = "out" /\ Announce(m, Dest).st = "announcing"
    BY <1>1 DEF Announce, Enter, Session
  <1> HIDE DEF m
  <1>4. n.dir = "out" /\ n.st \notin Terminal
    BY <1>1, <1>3, LaunchOpens DEF Terminal
  <1>5. sess'[s] = n /\ mail'[s] = [mail[s] EXCEPT !.status = "sending"]
    BY <1>2 DEF IInv, SessInv, MailInv
  <1>6. \A t \in Station \ {s} : sess'[t] = sess[t] /\ mail'[t] = mail[t]
    BY <1>2 DEF IInv, SessInv, MailInv
  <1>7. mail'[s].box # "none"
    <2>1. mail[s] \in Mail /\ mail[s].box # "none" BY DEF IInv, MailInv, Queue
    <2> QED BY <1>5, <2>1 DEF Mail
  <1>8. ~Open(s) BY DEF Queue
  <1>9. SendOk(s)' BY <1>4, <1>5, <1>7 DEF SendOk, Open
  <1> QED BY <1>6, <1>8, <1>9 DEF Orderly

\* What the operator, the mail sweep and the discovery start.
LEMMA OperatorOrderly ==
    ASSUME IInv, NEW s \in Station, Operator(s) \/ Discoverer(s)
    PROVE  Orderly(s)
  <1>1. sess[s] \in Session BY Sessions
  <1>2. CASE SendQueued(s) \/ AutoDeliver(s)
    BY <1>2, QueueOrderly DEF SendQueued, AutoDeliver
  <1>3. CASE Cancel(s)
    BY <1>1, <1>3, EnterSame, MovesOn DEF Cancel
  <1>4. CASE Reconfigure(s) BY <1>4, NobodyMoves DEF Reconfigure
  <1>5. CASE \E hop \in Station : Become(s, Announce(sess[s], hop))
    BY <1>1, <1>5, AnnounceSame, MovesOn
  <1>6. CASE Become(s, Enter(sess[s], "route-approval"))
    BY <1>1, <1>6, EnterSame, MovesOn
  <1>7. CASE DiscoveryFailure(s)
    BY <1>1, <1>7, FailOrderly DEF DiscoveryFailure, Same
  <1>8. CASE ResumeRoute(s)
    <2>1. PICK hop : Become(s, Announce(sess[s], hop)) BY <1>8 DEF ResumeRoute
    <2> QED BY <1>1, <2>1, AnnounceSame, MovesOn
  <1>9. CASE Approve(s) BY <1>5, <1>9 DEF Approve, Neighbours
  <1>10. CASE DiscoveryResult(s)
    BY <1>5, <1>6, <1>10 DEF DiscoveryResult, Neighbours
  <1> QED BY <1>2, <1>3, <1>4, <1>7, <1>8, <1>9, <1>10 DEF Operator, Discoverer

\* The relay leg takes the place of the session that received the message.
LEMMA StoreOrderly ==
    ASSUME IInv, NEW s \in Station, ReceiveCompletes(s)
    PROVE  Orderly(s)
  <1>1. PICK m : /\ Alike(sess[s], m) /\ GoodSession(m, s, Holders)
                 /\ mail' = [mail EXCEPT ![s] = Stored(s, sess[s])]
                 /\ DeliverHere(s, m) \/ TakeCustody(s, m)
    BY CompletionFacts
  <1>2. /\ mail'[s] = Stored(s, sess[s])
        /\ \A t \in Station \ {s} : mail'[t] = mail[t]
    BY <1>1 DEF IInv, MailInv
  <1>3. mail'[s].status # "sending" BY <1>2 DEF Stored
  <1>4. SendOk(s)' BY <1>3 DEF SendOk
  <1>5. In(s, "receiving") BY DEF ReceiveCompletes
  <1>6. ASSUME NEW n, sess' = [sess EXCEPT ![s] = n],
               Same(m, n) \/ (n.dir = "out" /\ n.prev = m.src)
        PROVE  Orderly(s)
    <2>1. sess'[s] = n /\ \A t \in Station \ {s} : sess'[t] = sess[t]
      BY <1>6 DEF IInv, SessInv
    <2>2. m.dir = sess[s].dir /\ m.src = sess[s].src /\ m.prev = sess[s].prev
      BY <1>1, AlikeFields
    <2> QED BY <1>2, <1>4, <1>5, <1>6, <2>1, <2>2 DEF Orderly, Same
  <1>7. m \in Session BY <1>1 DEF Alike
  <1>8. CASE DeliverHere(s, m)
    BY <1>6, <1>7, <1>8, EnterSame DEF DeliverHere
  <1>9. CASE TakeCustody(s, m)
    <2> DEFINE leg == Onward(s, m)
    <2>1. leg \in Session /\ leg.dir = "out" /\ leg.prev = m.src
      <3>1. m.src \in Hop /\ ~m.hollow /\ m.dir = "in"
        BY <1>1, <1>5, <1>7, AlikeFields DEF GoodSession, In, Session
      <3>2. PICK ttl \in Nat : ttl = m.ttl - 1
        BY <1>1, <3>1 DEF GoodSession, Session
      <3>3. Leg(s, m.src, ttl).dir = "out" /\ Leg(s, m.src, ttl).prev = m.src
        BY <3>1, Sessions, LegSession
      <3>4. Alike(Leg(s, m.src, ttl), leg)
        BY <1>7, <3>1, <3>2, Sessions, OnwardAlike
      <3> QED BY <3>3, <3>4, AlikeFields
    <2>2. /\ Enter(leg, "failed").dir = "out"
          /\ Enter(leg, "failed").prev = m.src
      BY <2>1, EnterSame DEF Same
    <2> HIDE DEF leg
    <2>3. \/ sess' = [sess EXCEPT ![s] = Enter(m, "received")]
          \/ \E n \in Launch(s, leg, Enter(leg, "failed")) : sess' = [sess EXCEPT ![s] = n]
      BY <1>9 DEF TakeCustody, leg
    <2>4. CASE sess' = [sess EXCEPT ![s] = Enter(m, "received")]
      BY <1>6, <1>7, <2>4, EnterSame
    <2>5. CASE \E n \in Launch(s, leg, Enter(leg, "failed")) : sess' = [sess EXCEPT ![s] = n]
      <3>1. PICK n \in Launch(s, leg, Enter(leg, "failed")) : sess' = [sess EXCEPT ![s] = n]
        BY <2>5
      <3>2. n.dir = "out" /\ n.prev = m.src
        BY <2>1, <2>2, LaunchOpens
      <3> QED BY <1>6, <3>1, <3>2
    <2> QED BY <2>3, <2>4, <2>5
  <1> QED BY <1>1, <1>8, <1>9

\* The completions of the payload.
LEMMA PayloadOrderly ==
    ASSUME IInv, NEW s \in Station, Payload(s), Prompt'
    PROVE  \E t \in Station : Orderly(t)
  <1>1. \A t \in Station : sess[t] \in Session BY Sessions
  <1>2. CASE \E r \in Station : PayloadArrives(s, r)
    <2>1. PICK r \in Station : PayloadArrives(s, r) BY <1>2
    <2> DEFINE m == [sess[r] EXCEPT !.got = TRUE, !.hops = mail[s].hops,
                                    !.hollow = sess[s].hollow]
    <2>2. sess' = [sess EXCEPT ![r] = m] /\ UNCHANGED mail
      BY <2>1, <1>1 DEF PayloadArrives, IInv, SessInv, Session
    <2>3. Same(sess[r], m) /\ m.st = sess[r].st BY <1>1 DEF Same, Session
    <2> HIDE DEF m
    <2> QED BY <2>2, <2>3, DetailChanges
  <1>3. CASE ReceiveFails(s)
    <2> DEFINE n == Enter(sess[s], "failed")
    <2>1. Same(sess[s], n) BY <1>1, EnterSame
    <2>2. Become(s, [n EXCEPT !.rx = FALSE]) BY <1>3 DEF ReceiveFails
    <2>3. n \in Session
      BY <1>1, EnterFacts, PlainStates DEF Plain
    <2> HIDE DEF n
    <2>4. Same(sess[s], [n EXCEPT !.rx = FALSE]) BY <2>1, <2>3 DEF Same, Session
    <2> QED BY <2>2, <2>4, MovesOn
  <1>4. CASE SendDone(s)
    <2> DEFINE m == [sess[s] EXCEPT !.sent = TRUE, !.queries = 0]
    <2>1. Same(sess[s], m) BY <1>1 DEF Same, Session
    <2>2. Become(s, m) \/ FailWith(s, sess[s], Cancelling(s)) BY <1>4 DEF SendDone
    <2> HIDE DEF m
    <2> QED BY <1>1, <2>1, <2>2, MovesOn, FailOrderly DEF Same
  <1>5. CASE \E r \in Station : PayloadStrays(s, r)
    <2>1. PICK r \in Station : PayloadStrays(s, r) BY <1>5
    <2>2. PICK n : Alike(sess[r], n) /\ sess' = [sess EXCEPT ![r] = n]
      BY <2>1, StraysAlike
    <2>3. Same(sess[r], n) /\ n.st = sess[r].st BY <2>2, AlikeFields DEF Same
    <2> QED BY <2>1, <2>2, <2>3, DetailChanges DEF PayloadStrays
  <1>6. CASE LateFails(s)
    <2>1. PICK w \in Late :
              Reports(s, w) /\ Become(s, Enter(Rid(sess[s], w), "failed"))
      BY <1>6 DEF LateFails
    <2> DEFINE m == Rid(sess[s], w)
    <2>2. Alike(sess[s], m) BY <1>1, <2>1, RidAlike DEF Reports
    <2> HIDE DEF m
    <2>3. Same(sess[s], m) /\ m \in Session BY <2>2, AlikeFields DEF Same
    <2>4. Same(sess[s], Enter(m, "failed")) BY <2>3, EnterSame DEF Same
    <2> QED BY <2>1, <2>4, MovesOn DEF m
  <1>7. ~LateCompletes(s) BY DEF LateCompletes, Mistaken, Prompt
  <1> QED BY <1>2, <1>3, <1>4, <1>5, <1>6, <1>7, StoreOrderly DEF Payload

\* What is left of the hops when one did not answer.
LEMMA NextHopSame ==
    ASSUME NEW s \in Station, NEW m \in Session, NEW now,
           NEW n \in NextHop(s, Spent(m), now)
    PROVE  Same(m, n)
  <1> DEFINE k == Spent(m)
  <1>1. /\ k \in [{"dir", "st", "src", "hop", "prev", "ttl", "att", "tx", "cap",
                   "trans", "tok", "work", "failed", "triedBackup", "blind",
                   "tried", "offers", "sent", "queries", "got", "hops", "rfwd",
                   "rx", "left", "hollow"}
                  -> {k[x] : x \in DOMAIN k}]
        /\ Same(m, k)
    BY DEF Spent, Session, Same
  <1>2. \/ n = [Announce(k, Backup[s]) EXCEPT !.triedBackup = TRUE]
        \/ \E h : n = Announce(k, h)
        \/ n = [Enter(k, "discovery") EXCEPT !.triedBackup = TRUE, !.offers = {}]
        \/ n = Multihop(k)
        \/ n = Enter(k, "failed")
    BY DEF NextHop
  <1> HIDE DEF k
  <1>3. CASE n = [Announce(k, Backup[s]) EXCEPT !.triedBackup = TRUE]
    BY <1>1, <1>3 DEF Same, Announce, Enter
  <1>4. CASE \E h : n = Announce(k, h)
    BY <1>1, <1>4 DEF Same, Announce, Enter
  <1>5. CASE n = [Enter(k, "discovery") EXCEPT !.triedBackup = TRUE, !.offers = {}]
    BY <1>1, <1>5 DEF Same, Enter
  <1>6. CASE n = Multihop(k) \/ n = Enter(k, "failed")
    BY <1>1, <1>6 DEF Same, Multihop, Enter
  <1> QED BY <1>2, <1>3, <1>4, <1>5, <1>6

\* The timers.
LEMMA TickOrderly ==
    ASSUME IInv, NEW s \in Station, Tick(s)
    PROVE  Orderly(s)
  <1>1. sess[s] \in Session BY Sessions
  <1>2. ASSUME NEW st, Become(s, Enter(sess[s], st)) PROVE Orderly(s)
    BY <1>1, <1>2, EnterSame, MovesOn
  <1>3. ASSUME NEW h, Become(s, Announce(sess[s], h)) PROVE Orderly(s)
    BY <1>1, <1>3, AnnounceSame, MovesOn
  <1>4. ASSUME NEW frames, FailWith(s, sess[s], frames) PROVE Orderly(s)
    BY <1>1, <1>4, FailOrderly DEF Same
  <1>5. CASE Retry(s)
    <2>1. Same(sess[s], [sess[s] EXCEPT !.att = @ + 1, !.tx = "queued"])
      BY <1>1 DEF Same, Session
    <2> QED BY <1>5, <2>1, MovesOn DEF Retry
  <1>6. CASE AnnounceTimeout(s)
    <2>1. \/ Retry(s)
          \/ \E now \in Evidence[s] : \E n \in NextHop(s, Spent(sess[s]), now) : Become(s, n)
      BY <1>6 DEF AnnounceTimeout
    <2> QED BY <1>1, <1>5, <2>1, NextHopSame, MovesOn
  <1>7. CASE BusyRetry(s) BY <1>3, <1>7 DEF BusyRetry
  <1>8. CASE DiscoveryTimeout(s)
    <2> DEFINE m == [Announce(sess[s], Dest) EXCEPT !.blind = TRUE]
    <2>1. Same(sess[s], m) BY <1>1 DEF Same, Announce, Enter, Session
    <2>2. Become(s, m) \/ \E h : Become(s, Announce(sess[s], h))
      BY <1>8 DEF DiscoveryTimeout
    <2> HIDE DEF m
    <2> QED BY <1>3, <2>1, <2>2, MovesOn
  <1>9. CASE WorkingTimeout(s) BY <1>4, <1>5, <1>9 DEF WorkingTimeout
  <1>10. CASE ProfileTimeout(s) BY <1>4, <1>5, <1>10 DEF ProfileTimeout
  <1>11. CASE StartTimeout(s) BY <1>4, <1>11 DEF StartTimeout
  <1>12. CASE AckedTimeout(s) BY <1>4, <1>12 DEF AckedTimeout
  <1>13. CASE TransferTimeout(s) BY <1>4, <1>13 DEF TransferTimeout
  <1>14. CASE ReceiptTimeout(s)
    <2> DEFINE m == [sess[s] EXCEPT !.queries = @ + 1]
    <2>1. Same(sess[s], m) BY <1>1 DEF Same, Session
    <2>2. FailWith(s, sess[s], {}) \/ Become(s, m) BY <1>14 DEF ReceiptTimeout
    <2> HIDE DEF m
    <2> QED BY <1>4, <2>1, <2>2, MovesOn
  <1>15. CASE ConfirmTimeout(s) BY <1>2, <1>15 DEF ConfirmTimeout
  <1> QED BY <1>6, <1>7, <1>8, <1>9, <1>10, <1>11, <1>12, <1>13, <1>14, <1>15
      DEF Tick

\* A fresh announcement finds no session at work.
LEMMA HaveMsgOrderly ==
    ASSUME IInv, NEW s \in Station, NEW f \in Frame, RxHaveMsg(s, f)
    PROVE  Orderly(s)
  <1>1. sess[s] \in Session BY Sessions
  <1>2. CASE Reconfirm(s, f) BY <1>2, MovesOn DEF Reconfirm, Same
  <1>3. CASE ReAck(s) BY <1>3, NobodyMoves DEF ReAck
  <1>4. CASE Answer(s, f)
    <2>1. PICK m : Become(s, m) /\ m.dir = "in"
      <3>1. Receiver(s, f).dir = "in" /\ Enter(Receiver(s, f), "failed").dir = "in"
        BY DEF Receiver, After, NewSession, Enter
      <3> QED BY <1>4, <3>1 DEF Answer
    <2>2. ~Open(s) BY <1>4 DEF Answer, MayAnswer
    <2>3. sess'[s] = m /\ \A t \in Station \ {s} : sess'[t] = sess[t] /\ mail'[t] = mail[t]
      BY <2>1 DEF Become, IInv, SessInv, MailInv
    <2>4. SendOk(s) => SendOk(s)'
      <3>1. mail'[s] = mail[s] BY <2>1 DEF Become, MailAfter, IInv, MailInv
      <3> QED BY <2>2, <3>1 DEF SendOk
    <2> QED BY <2>2, <2>3, <2>4 DEF Orderly
  <1> QED BY <1>2, <1>3, <1>4 DEF RxHaveMsg

\* The settled and the refused profile leave the session what it is.
LEMMA SettlingSame ==
    ASSUME NEW s \in Station, NEW m \in Session, NEW f \in Frame, NEW tok
    PROVE  /\ Same(m, Negotiate(s, m))
           /\ Same(m, ProfileAnswer(m, tok, profile[s]))
           /\ Same(m, Starting(ProfileSettled(m, tok)))
           /\ Same(m, [m EXCEPT !.work = tok])
           /\ Same(m, Negotiate(s, [m EXCEPT !.work = tok]))
  <1>1. Same(m, Negotiate(s, m))
    BY DEF Same, Negotiate, Starting, Enter, Session
  <1>2. Same(m, ProfileAnswer(m, tok, profile[s]))
    BY DEF Same, ProfileAnswer, Agreed, Fallback, Session
  <1>3. Same(m, Starting(ProfileSettled(m, tok)))
    BY DEF Same, ProfileSettled, Agreed, Fallback, Starting, Enter, Session
  <1>4. Same(m, [m EXCEPT !.work = tok]) BY DEF Same, Session
  <1>5. Same(m, Negotiate(s, [m EXCEPT !.work = tok]))
    BY DEF Same, Negotiate, Starting, Enter, Session
  <1> QED BY <1>1, <1>2, <1>3, <1>4, <1>5

\* An acknowledgement moves the announcing session on.
LEMMA AckOrderly ==
    ASSUME IInv, NEW s \in Station, NEW f \in Frame, RxAck(s, f)
    PROVE  Orderly(s)
  <1> DEFINE m == Acknowledged(s, f)
             n == [Enter(m, "working") EXCEPT
                    !.work = Channel, !.att = 1, !.tx = "queued"]
  <1>1. sess[s] \in Session BY Sessions
  <1>2. m \in Session /\ Same(sess[s], m)
    <2>1. f.tok \in Token /\ profile[s] \in Token BY DEF Frame, IInv, RestInv
    <2> QED BY <1>1, <2>1 DEF Acknowledged, Same, Session, Transport
  <1> HIDE DEF m
  <1>3. Same(m, n) BY <1>2 DEF Same, Enter, Session
  <1> HIDE DEF n
  <1>4. \/ \E frames : FailWith(s, m, frames)
        \/ Become(s, Negotiate(s, m)) \/ Become(s, n)
    BY DEF RxAck, m, n
  <1>5. Same(sess[s], Negotiate(s, m)) /\ Same(sess[s], n)
    BY <1>2, <1>3, SettlingSame DEF Same
  <1> QED BY <1>2, <1>4, <1>5, FailOrderly, MovesOn

\* A receipt for a forgotten session files the mail only.
LEMMA StrayOrderly ==
    ASSUME IInv, NEW s \in Station, NEW f \in Frame, RxStrayReceipt(s, f)
    PROVE  Orderly(s)
  <1>1. UNCHANGED sess /\ sess[s].dir = "none" BY DEF RxStrayReceipt
  <1>2. \/ UNCHANGED mail
        \/ mail' = [mail EXCEPT ![s].box = "sent", ![s].status = "delivered"]
    BY DEF RxStrayReceipt
  <1>3. \A t \in Station \ {s} : mail'[t] = mail[t]
    BY <1>2 DEF IInv, MailInv
  <1>4. SendOk(s) => SendOk(s)'
    <2>1. CASE UNCHANGED mail BY <1>1, <2>1 DEF SendOk, Open
    <2>2. CASE mail' = [mail EXCEPT ![s].box = "sent", ![s].status = "delivered"]
      <3>1. mail'[s].status = "delivered" BY <2>2 DEF IInv, MailInv, Mail
      <3> QED BY <3>1 DEF SendOk
    <2> QED BY <1>2, <2>1, <2>2
  <1> QED BY <1>1, <1>3, <1>4 DEF Orderly, Open

\* The frame handlers.
LEMMA ReceiveOrderly ==
    ASSUME IInv, NEW s \in Station, Receive(s)
    PROVE  Orderly(s)
  <1>1. sess[s] \in Session BY Sessions
  <1>2. CASE Miss(s) BY <1>2, NobodyMoves DEF Miss
  <1> DEFINE f == Head(inbox[s])
  <1>3. SUFFICES ASSUME inbox[s] # <<>>,
            \/ RxRouteQuery(s, f) \/ RxRouteOffer(s, f) \/ RxHaveMsg(s, f)
            \/ RxAck(s, f) \/ RxWorkingOffer(s, f) \/ RxWorkingAck(s, f)
            \/ RxG2ProfileOffer(s, f) \/ RxG2ProfileAck(s, f) \/ RxBusy(s, f)
            \/ RxStart(s, f) \/ RxReceived(s, f) \/ RxStrayReceipt(s, f)
            \/ RxDelivered(s, f) \/ RxCancel(s, f)
        PROVE Orderly(s)
    BY <1>2 DEF Receive
  <1>4. f \in Frame BY <1>3 DEF IInv, InboxInv
  <1> HIDE DEF f
  <1>5. ASSUME NEW st, Become(s, Enter(sess[s], st)) PROVE Orderly(s)
    BY <1>1, <1>5, EnterSame, MovesOn
  <1>6. ASSUME NEW frames, FailWith(s, sess[s], frames) PROVE Orderly(s)
    BY <1>1, <1>6, FailOrderly DEF Same
  <1>7. CASE RxRouteQuery(s, f) BY <1>7, NobodyMoves DEF RxRouteQuery
  <1>8. CASE RxRouteOffer(s, f)
    <2> DEFINE m == [sess[s] EXCEPT !.offers = @ \cup {f.src}]
    <2>1. Same(sess[s], m) /\ m.st = sess[s].st BY <1>1 DEF Same, Session
    <2>2. sess' = [sess EXCEPT ![s] = m] /\ UNCHANGED mail
      BY <1>8 DEF RxRouteOffer, IInv, SessInv, Session
    <2> HIDE DEF m
    <2> QED BY <2>1, <2>2, DetailChanges
  <1>9. CASE RxWorkingOffer(s, f)
    <2>1. PICK tok : Become(s, [sess[s] EXCEPT !.work = tok])
      BY <1>9 DEF RxWorkingOffer
    <2> QED BY <1>1, <1>4, <2>1, SettlingSame, MovesOn
  <1>10. CASE RxWorkingAck(s, f)
    BY <1>1, <1>4, <1>10, SettlingSame, MovesOn DEF RxWorkingAck
  <1>11. CASE RxG2ProfileOffer(s, f)
    BY <1>1, <1>4, <1>6, <1>11, SettlingSame, MovesOn DEF RxG2ProfileOffer
  <1>12. CASE RxG2ProfileAck(s, f)
    BY <1>1, <1>4, <1>6, <1>12, SettlingSame, MovesOn DEF RxG2ProfileAck
  <1>13. CASE RxBusy(s, f) BY <1>5, <1>13 DEF RxBusy
  <1>14. CASE RxStart(s, f)
    <2> DEFINE k == Enter(sess[s], "receiving")
    <2>1. PICK b : Become(s, [k EXCEPT !.rx = b]) BY <1>14 DEF RxStart
    <2>2. Same(sess[s], [k EXCEPT !.rx = b])
      BY <1>1 DEF Same, Enter, Session
    <2> HIDE DEF k
    <2> QED BY <2>1, <2>2, MovesOn
  <1>15. CASE RxReceived(s, f) BY <1>5, <1>15 DEF RxReceived
  <1>16. CASE RxDelivered(s, f)
    <2> DEFINE k == IF sess[s].st = "delivered" THEN sess[s] ELSE Enter(sess[s], "delivered")
    <2>1. PICK b : Become(s, [k EXCEPT !.rfwd = b])
      BY <1>16 DEF RxDelivered
    <2>2. Same(sess[s], [k EXCEPT !.rfwd = b])
      BY <1>1 DEF Same, Enter, Session
    <2> HIDE DEF k
    <2> QED BY <2>1, <2>2, MovesOn
  <1>17. CASE RxCancel(s, f) BY <1>5, <1>17 DEF RxCancel
  <1> QED BY <1>3, <1>4, <1>7, <1>8, <1>9, <1>10, <1>11, <1>12, <1>13, <1>14,
             <1>15, <1>16, <1>17, HaveMsgOrderly, AckOrderly, StrayOrderly

\* The transmitter.
LEMMA TransmitterOrderly ==
    ASSUME IInv, NEW s \in Station, Transmitter(s)
    PROVE  Orderly(s)
  <1>1. sess[s] \in Session BY Sessions
  <1>2. CASE Transmit(s) BY <1>2, NobodyMoves DEF Transmit
  <1>3. CASE TransmitGuarded(s)
    <2>1. PICK tx : sess' = [sess EXCEPT ![s].tx = tx] /\ UNCHANGED mail
      BY <1>3 DEF TransmitGuarded
    <2> DEFINE m == [sess[s] EXCEPT !.tx = tx]
    <2>2. Same(sess[s], m) /\ m.st = sess[s].st BY <1>1 DEF Same, Session
    <2>3. sess' = [sess EXCEPT ![s] = m] BY <2>1 DEF IInv, SessInv, Session
    <2> HIDE DEF m
    <2> QED BY <2>1, <2>2, <2>3, DetailChanges
  <1>4. CASE StartComplete(s)
    BY <1>1, <1>4, EnterSame, MovesOn DEF StartComplete
  <1> QED BY <1>2, <1>3, <1>4 DEF Transmitter

\* Only a restart is counted as one.
LEMMA RestartsCounted ==
    ASSUME NEW s \in Station,
           \/ Operator(s) \/ Discoverer(s) \/ Payload(s) \/ Tick(s)
           \/ Receive(s) \/ Transmitter(s)
    PROVE  restarts' = restarts
  <1>1. CASE Operator(s) \/ Discoverer(s)
    BY <1>1 DEF Operator, SendQueued, AutoDeliver, Queue, Cancel, Approve,
       Reconfigure, Discoverer, DiscoveryResult, DiscoveryFailure, ResumeRoute,
       TimerRest, StationRest, AllButLate
  <1>2. CASE Payload(s)
    BY <1>2 DEF Payload, PayloadArrives, PayloadStrays, ReceiveFails, ReceiveCompletes,
       SendDone, LateFails, LateCompletes, Mistaken, TimerRest, StationRest, AllButLate
  <1>3. CASE Tick(s)
    BY <1>3 DEF Tick, AnnounceTimeout, BusyRetry, DiscoveryTimeout, WorkingTimeout,
       ProfileTimeout, StartTimeout, AckedTimeout, TransferTimeout, ReceiptTimeout,
       ConfirmTimeout, TimerRest, StationRest, AllButLate
  <1>4. CASE Receive(s)
    BY <1>4 DEF Receive, Miss, RxRouteQuery, RxRouteOffer, RxHaveMsg, RxAck,
       RxWorkingOffer, RxWorkingAck, RxG2ProfileOffer, RxG2ProfileAck, RxBusy,
       RxStart, RxReceived, RxStrayReceipt, RxDelivered, RxCancel, RxRest
  <1>5. CASE Transmitter(s)
    BY <1>5 DEF Transmitter, Transmit, TransmitGuarded, StartComplete, RxRest,
       TimerRest, StationRest, AllButLate
  <1> QED BY <1>1, <1>2, <1>3, <1>4, <1>5

\* A step is the restart of a station or the orderly business of one.
LEMMA NextOrderly ==
    ASSUME IInv, Next, Prompt'
    PROVE  \/ restarts' = restarts + 1
           \/ restarts' = restarts /\ \E s \in Station : Orderly(s)
  <1>1. PICK s \in Station :
            \/ Operator(s) \/ Discoverer(s) \/ Payload(s) \/ Tick(s)
            \/ Receive(s) \/ Transmitter(s) \/ Restart(s)
    BY DEF Next
  <1>2. CASE Restart(s) BY <1>2 DEF Restart
  <1>3. CASE ~Restart(s)
    <2>1. \E t \in Station : Orderly(t)
      BY <1>1, <1>3, OperatorOrderly, PayloadOrderly, TickOrderly,
         ReceiveOrderly, TransmitterOrderly
    <2> QED BY <1>1, <1>3, <2>1, RestartsCounted
  <1> QED BY <1>2, <1>3

\* A session at work is never replaced, by a repeated announcement, by another
\* sender or by the operator, except by the relay leg of its own message.
THEOREM SessionsStay == Spec => OpenSessionIsKept
  <1> DEFINE Kept ==
        \A s \in Station : Open(s) /\ restarts' = restarts /\ Prompt' =>
            \/ /\ sess'[s].dir = sess[s].dir
               /\ sess'[s].src = sess[s].src /\ sess'[s].prev = sess[s].prev
            \/ /\ In(s, "receiving")
               /\ sess'[s].dir = "out" /\ sess'[s].prev = sess[s].src
  <1>1. (Prompt => IInv) /\ [Next]_vars => [Kept]_vars
    <2> SUFFICES ASSUME IInv, Next, restarts' = restarts, Prompt',
                        NEW t \in Station, Open(t)
                 PROVE  \/ /\ sess'[t].dir = sess[t].dir
                           /\ sess'[t].src = sess[t].src /\ sess'[t].prev = sess[t].prev
                        \/ /\ In(t, "receiving")
                           /\ sess'[t].dir = "out" /\ sess'[t].prev = sess[t].src
      BY StaysPrompt
    <2>1. restarts \in Nat BY DEF IInv, RestInv
    <2>2. PICK s \in Station : Orderly(s) BY <2>1, NextOrderly
    <2> QED BY <2>2 DEF Orderly, Same
  <1> QED BY <1>1, Invariance, PTL DEF Spec, OpenSessionIsKept

\* Mail shown as being sent has an outbound session at work, unless the
\* process was restarted since: whatever ends the session files the mail.
THEOREM SendingIsReal == Spec => [](Prompt => NoOrphanSending)
  <1> DEFINE Sends == restarts = 0 => \A s \in Station : SendOk(s)
  <1>1. Init => Sends
    <2> SUFFICES ASSUME Init, NEW s \in Station PROVE SendOk(s)
      OBVIOUS
    <2>1. mail[s].status \in {"queued", "none"} BY DEF Init, NoMail
    <2> QED BY <2>1 DEF SendOk
  <1>2. IInv /\ Sends /\ Prompt' /\ [Next]_vars => Sends'
    <2>1. ASSUME IInv, Sends, Next, Prompt', restarts' = 0, NEW t \in Station
          PROVE  SendOk(t)'
      <3>1. restarts \in Nat BY <2>1 DEF IInv, RestInv
      <3>2. restarts = 0 /\ \E s \in Station : Orderly(s)
        BY <2>1, <3>1, NextOrderly
      <3>3. PICK s \in Station : Orderly(s) BY <3>2
      <3>4. SendOk(s) /\ SendOk(t) BY <2>1, <3>2
      <3>5. CASE t = s BY <3>3, <3>4, <3>5 DEF Orderly
      <3>6. CASE t # s
        <4>1. sess'[t] = sess[t] /\ mail'[t] = mail[t] BY <3>3, <3>6 DEF Orderly
        <4> QED BY <3>4, <4>1 DEF SendOk, Open
      <3> QED BY <3>5, <3>6
    <2>2. ASSUME Sends, UNCHANGED vars PROVE Sends'
      BY <2>2 DEF vars, SendOk, Open
    <2> QED BY <2>1, <2>2
  <1>3. Sends => NoOrphanSending BY DEF SendOk, NoOrphanSending
  <1> HIDE DEF Sends
  <1>4. [Next]_vars /\ Prompt' => Prompt BY StaysPrompt
  <1> QED BY <1>1, <1>2, <1>3, <1>4, Invariance, PTL DEF Spec

----------------------------------------------------------------------------
(* What the promise of Custody means for the message                       *)

\* The copies are never lost, and whoever has to send or show the message
\* has one.
THEOREM CopiesAreKept == Spec => [](Prompt => Promise!Kept)
  <1> USE DEF Promise!Kept
  <1>1. Promise!Init => Promise!Kept BY DEF Promise!Init
  <1>2. Promise!Kept /\ [Promise!Next]_Promise!vars => Promise!Kept'
    <2> SUFFICES ASSUME Promise!Kept, [Promise!Next]_Promise!vars PROVE Promise!Kept'
      OBVIOUS
    <2>1. ASSUME NEW s \in Station, Promise!Accept(s) PROVE Promise!Kept'
      BY <2>1 DEF Promise!Accept
    <2>2. ASSUME NEW s \in Station, Promise!Release(s) PROVE Promise!Kept'
      BY <2>2 DEF Promise!Release
    <2>3. CASE UNCHANGED <<{s \in Station : Holds(s)}, Owners>>
      BY <2>3
    <2> QED BY <2>1, <2>2, <2>3 DEF Promise!Next, Promise!vars
  <1> HIDE DEF Promise!Kept
  <1>3. (Prompt => IInv) /\ (Prompt => Promise!Kept) /\ [Next]_vars
            => (Prompt => Promise!Kept)'
    BY <1>2, CustodySteps, StaysPrompt
  <1> QED BY <1>1, <1>3, CustodyInit, Invariance, PTL DEF Spec

\* The author stops trying only when another station has the message.
THEOREM AuthorKeepsTrying == Spec => [](Prompt => Promise!AuthorTries)
  <1> USE DEF Promise!AuthorTries
  <1>1. Promise!Init => Promise!AuthorTries BY DEF Promise!Init
  <1>2. Promise!AuthorTries /\ [Promise!Next]_Promise!vars => Promise!AuthorTries'
    <2> SUFFICES ASSUME Promise!AuthorTries, [Promise!Next]_Promise!vars
                 PROVE  Promise!AuthorTries'
      OBVIOUS
    <2>1. ASSUME NEW s \in Station, Promise!Accept(s) PROVE Promise!AuthorTries'
      BY <2>1 DEF Promise!Accept
    <2>2. ASSUME NEW s \in Station, Promise!Release(s) PROVE Promise!AuthorTries'
      BY <2>2 DEF Promise!Release
    <2>3. CASE UNCHANGED <<{s \in Station : Holds(s)}, Owners>>
      BY <2>3
    <2> QED BY <2>1, <2>2, <2>3 DEF Promise!Next, Promise!vars
  <1> HIDE DEF Promise!AuthorTries
  <1>3. (Prompt => IInv) /\ (Prompt => Promise!AuthorTries) /\ [Next]_vars
            => (Prompt => Promise!AuthorTries)'
    BY <1>2, CustodySteps, StaysPrompt
  <1> QED BY <1>1, <1>3, CustodyInit, Invariance, PTL DEF Spec

\* A report of the delivery stays true: the destination never files the
\* message away.
THEOREM ReportsStayTrue == Spec => [](Prompt => Promise!ReportsAreTrue)
  <1> USE DEF Promise!ReportsAreTrue
  <1>1. Promise!Init => Promise!ReportsAreTrue BY DEF Promise!Init
  <1>2. Promise!ReportsAreTrue /\ [Promise!Next]_Promise!vars => Promise!ReportsAreTrue'
    <2>1. CASE UNCHANGED Promise!vars BY <2>1 DEF Promise!vars
    <2>2. CASE Promise!Next
      <3>1. Dest \in Owners => Dest \in Owners'
        BY <2>2 DEF Promise!Next, Promise!Accept, Promise!Release
      <3> QED BY <2>2, <3>1 DEF Promise!Next, Promise!Report
    <2> QED BY <2>1, <2>2
  <1> HIDE DEF Promise!ReportsAreTrue
  <1>3. (Prompt => IInv) /\ (Prompt => Promise!ReportsAreTrue) /\ [Next]_vars
            => (Prompt => Promise!ReportsAreTrue)'
    BY <1>2, CustodySteps, StaysPrompt
  <1> QED BY <1>1, <1>3, CustodyInit, Invariance, PTL DEF Spec

----------------------------------------------------------------------------
(* Where the message goes, and what that costs: for the nets in which the
   next hops of all stations together lead somewhere. *)

Ways(s) == NextHops(s) \cup {NoStation}

\* What a message at a station has cost so far.
Paid(ttl, s) == \A level \in Levels : ttl + level[s] = InitTtl
Short(hops, s) == \A level \in Levels : Len(hops) <= level[s]

\* The states a station only searches in when it is configured to.
MaySearch(st, s) ==
    /\ st = "discovery" => AutoRoute[s]
    /\ st \in {"multihop-discovery", "route-approval"} => Discovery[s] # "off"

WaySession(m, s) ==
    /\ m.dir = "out" => m.hop \in Ways(s) /\ Paid(m.ttl, s)
    /\ m.dir = "in" =>
        /\ s \in NextHops(m.src) /\ m.src # Dest
        /\ Paid(m.ttl, m.src) /\ Short(m.hops, m.src)
    /\ m.offers \subseteq Neighbours(s)
    /\ MaySearch(m.st, s)

WayMail(e, s, H) ==
    /\ e.box = "none" => e.hops = <<>> /\ e.ttl = 0
    /\ e.box # "none" /\ s # Dest => Paid(e.ttl, s) /\ Short(e.hops, s)
    /\ s = Dest => Levels = {} \/ Len(e.hops) + e.ttl <= InitTtl
    /\ e.box = "sent" => \E r \in NextHops(s) \ {s} : r \in H

WayFrame(f) ==
    f.type = "HAVE_MSG" => f.hop \in Ways(f.src) /\ f.src # Dest /\ Paid(f.ttl, f.src)

WaySessions == \A s \in Station : WaySession(sess[s], s)
WayMails == \A s \in Station : WayMail(mail[s], s, Holders)
WayQueues == \A s \in Station : \A f \in txq[s] : WayFrame(f)
WayInboxes ==
    \A s \in Station : \A i \in 1..Len(inbox[s]) :
        WayFrame(inbox[s][i]) /\ inbox[s][i].src \in Neighbours(s)
WayLearned == \A s \in Station : learned[s] \in Ways(s)
WayInv == WaySessions /\ WayMails /\ WayQueues /\ WayInboxes /\ WayLearned

----------------------------------------------------------------------------
(* Sessions *)

\* What a session keeps as long as it is about the same exchange.
Steady(m, n) ==
    /\ n.dir = m.dir /\ n.src = m.src /\ n.ttl = m.ttl /\ n.hops = m.hops
    /\ n.offers \subseteq m.offers

\* A session that keeps to the same exchange stays on a way.
LEMMA SteadyWay ==
    ASSUME NEW s \in Station, NEW m, NEW n, WaySession(m, s), Steady(m, n),
           n.hop = m.hop \/ n.hop \in Ways(s), n.st = m.st \/ MaySearch(n.st, s)
    PROVE  WaySession(n, s)
  BY DEF WaySession, Steady

\* The states no configuration is asked for.
Found == State \ {"discovery", "multihop-discovery", "route-approval"}

\* They may always be entered.
LEMMA FoundFacts ==
    /\ \A st \in Found : st \in State /\ \A s \in Station : MaySearch(st, s)
    /\ {"announcing", "working", "g2-profile", "waiting", "starting",
        "transferring", "confirmed", "forwarded", "delivered", "acked",
        "receiving", "received", "failed", "cancelled", "idle", "none"} \subseteq Found
  BY DEF Found, MaySearch, State, Terminal

\* Entering another state.
LEMMA EnterSteady ==
    ASSUME NEW m \in Session, NEW st
    PROVE  /\ Steady(m, Enter(m, st)) /\ Enter(m, st).st = st
           /\ Enter(m, st).hop = m.hop
  BY DEF Steady, Enter, Session

\* So it keeps to the ways.
LEMMA EnterWay ==
    ASSUME NEW s \in Station, NEW m \in Session, NEW st, WaySession(m, s),
           MaySearch(st, s)
    PROVE  WaySession(Enter(m, st), s)
  BY EnterSteady, SteadyWay

\* Announcing to a next hop.
LEMMA AnnounceWay ==
    ASSUME NEW s \in Station, NEW m \in Session, NEW h \in Ways(s), WaySession(m, s)
    PROVE  WaySession(Announce(m, h), s)
  <1> DEFINE n == Announce(m, h)
  <1>1. Steady(m, n) /\ n.st = "announcing" /\ n.hop = h
    BY DEF Steady, Announce, Enter, Session
  <1>2. MaySearch(n.st, s) BY <1>1, FoundFacts
  <1> HIDE DEF n
  <1>3. WaySession(n, s) BY <1>1, <1>2, SteadyWay
  <1> QED BY <1>3 DEF n

\* Every hop a route, a confirmation, an offer or the backup names is a way.
LEMMA HopsAreWays ==
    ASSUME NEW s \in Station, WayLearned
    PROVE  /\ \A now \in Evidence[s] : \A excluded : Hops(s, excluded, now) \subseteq Ways(s)
           /\ Dest \in Ways(s) /\ NoStation \in Ways(s)
           /\ Backup[s] \in Station => Backup[s] \in Ways(s)
           /\ AutoRoute[s] \/ Discovery[s] # "off" => Neighbours(s) \subseteq Ways(s)
  <1>1. ASSUME NEW now \in Evidence[s], NEW excluded
        PROVE  Hops(s, excluded, now) \subseteq Ways(s)
    <2>1. now \subseteq Ways(s) BY StationAssumption DEF Ways, NextHops
    <2>2. learned[s] \in Ways(s) BY DEF WayLearned
    <2> QED BY <2>1, <2>2 DEF Hops
  <1>2. Dest \in Ways(s) /\ NoStation \in Ways(s)
    BY StationAssumption DEF Ways, NextHops
  <1>3. Backup[s] \in Station => Backup[s] \in Ways(s) BY DEF Ways, NextHops
  <1>4. AutoRoute[s] \/ Discovery[s] # "off" => Neighbours(s) \subseteq Ways(s)
    BY DEF Ways, NextHops, Neighbours
  <1> QED BY <1>1, <1>2, <1>3, <1>4

\* Every way an outbound leg may start.
LEMMA LaunchWay ==
    ASSUME NEW s \in Station, WayLearned, NEW m \in Session, WaySession(m, s),
           NEW otherwise, WaySession(otherwise, s), NEW n \in Launch(s, m, otherwise)
    PROVE  WaySession(n, s)
  <1>1. PICK now \in Evidence[s] :
            \/ \E h \in Hops(s, {m.prev}, now) : n = Announce(m, h)
            \/ CanDiscover(s, m) /\ n = Multihop(m)
            \/ AutoRoute[s] /\ n = Enter(m, "discovery")
            \/ n = otherwise
    BY DEF Launch
  <1>2. CASE \E h \in Hops(s, {m.prev}, now) : n = Announce(m, h)
    BY <1>2, HopsAreWays, AnnounceWay
  <1>3. CASE CanDiscover(s, m) /\ n = Multihop(m)
    <2>1. MaySearch("multihop-discovery", s) BY <1>3 DEF CanDiscover, MaySearch
    <2>2. Steady(m, n) /\ n.st = "multihop-discovery" /\ n.hop = m.hop
      BY <1>3 DEF Steady, Multihop, Enter, Session
    <2> QED BY <2>1, <2>2, SteadyWay
  <1>4. CASE AutoRoute[s] /\ n = Enter(m, "discovery")
    <2>1. MaySearch("discovery", s) BY <1>4 DEF MaySearch
    <2> QED BY <1>4, <2>1, EnterWay
  <1> QED BY <1>1, <1>2, <1>3, <1>4

\* The leg of a message that is paid for.
LEMMA LegWay ==
    ASSUME NEW s \in Station, NEW prev \in Hop, NEW ttl \in Nat, Paid(ttl, s),
           sess[s] \in Session
    PROVE  WaySession(Leg(s, prev, ttl), s)
  <1> DEFINE new == NewSession("out", s, NoStation, prev, ttl, profile[s] # NoToken)
             m == Leg(s, prev, ttl)
  <1>0. Alike(new, m) BY LegSession
  <1>1. /\ m.dir = "out" /\ m.hop = NoStation /\ m.ttl = ttl /\ m.offers = {}
        /\ m.st = "idle"
    BY <1>0, AlikeFields DEF NewSession
  <1>2. MaySearch("idle", s) BY FoundFacts
  <1> HIDE DEF m
  <1>3. WaySession(m, s) BY <1>1, <1>2 DEF WaySession, Ways
  <1> QED BY <1>3 DEF m

\* A session keeps to the ways whatever becomes of its receptions.
LEMMA AlikeWay ==
    ASSUME NEW s \in Station, NEW m, NEW n, Alike(m, n), WaySession(m, s)
    PROVE  WaySession(n, s)
  BY AlikeFields DEF WaySession

\* A hop costs one.
LEMMA OneHop ==
    ASSUME NEW a \in Station \ {Dest}, NEW s \in NextHops(a) \ {a, Dest},
           NEW ttl \in Nat, Paid(ttl, a), s \in Station
    PROVE  /\ ttl # 0 => Paid(ttl - 1, s)
           /\ \A level \in Levels : level[s] = level[a] + 1
  <1>1. \A level \in Levels : /\ level \in [Station -> Nat]
                              /\ level[s] = level[a] + 1
    BY DEF Levels
  <1>2. InitTtl \in Nat BY BoundAssumption
  <1> QED BY <1>1, <1>2 DEF Paid

----------------------------------------------------------------------------
(* The mailbox *)

\* Holders stay holders.
LEMMA HoldersStay ==
    ASSUME CustodyStep
    PROVE  Holders \subseteq Holders'
  BY DEF CustodyStep, Promise!Accept, Promise!Release, Holders

\* What a step may do to the mailbox entry of a station.
MailMoves(t) ==
    \/ mail'[t] = mail[t]
    \/ mail'[t] = MailAfter(mail[t], sess'[t])
    \/ mail[t].box # "none" /\ mail'[t] = [mail[t] EXCEPT !.status = "sending"]
    \/ In(t, "receiving") /\ mail'[t] = Stored(t, sess[t])
    \/ /\ mail[t].box # "none"
       /\ mail'[t] = [mail[t] EXCEPT !.box = "sent", !.status = "delivered"]

\* Filing mail touches neither its price nor its history.
LEMMA FiledFacts ==
    ASSUME NEW e \in Mail, NEW m
    PROVE  /\ MailAfter(e, m).ttl = e.ttl /\ MailAfter(e, m).hops = e.hops
           /\ \/ MailAfter(e, m).box = e.box
              \/ /\ MailAfter(e, m).box = "sent" /\ e.box # "none" /\ m.dir = "out"
                 /\ \/ m.st \in {"confirmed", "forwarded"}
                    \/ MailAfter(e, m).status = "delivered"
  <1>1. CASE m.dir # "out" \/ e.box = "none" BY <1>1 DEF MailAfter
  <1>2. CASE ~(m.dir # "out" \/ e.box = "none")
    <2>1. MailAfter(e, m) = Filed(e, m.st) BY <1>2 DEF MailAfter
    <2>2. CASE m.st \in {"delivered", "confirmed", "forwarded"}
      BY <1>2, <2>1, <2>2 DEF Filed, Mail
    <2>3. CASE m.st \in {"failed", "cancelled"}
      <3>1. \E v : Filed(e, m.st) = [e EXCEPT !.status = v] BY <2>3 DEF Filed
      <3> QED BY <2>1, <3>1 DEF Mail
    <2>4. CASE m.st \notin {"delivered", "confirmed", "forwarded", "failed", "cancelled"}
      BY <2>1, <2>4 DEF Filed
    <2> QED BY <2>2, <2>3, <2>4
  <1> QED BY <1>1, <1>2

\* What arrives cost one more hop than what was sent.
LEMMA StoredWay ==
    ASSUME IInv, NEW s \in Station, In(s, "receiving"), WaySession(sess[s], s)
    PROVE  /\ WayMail(Stored(s, sess[s]), s, Holders')
           /\ s # Dest => Paid(sess[s].ttl - 1, s)
  <1> DEFINE m == sess[s]
             a == sess[s].src
             e == Stored(s, sess[s])
  <1>1. /\ m \in Session /\ m.dir = "in" /\ m.ttl \in Nat /\ m.ttl # 0
        /\ a \in Station \ {s} /\ m.hops \in Seq(Station)
    BY DEF IInv, SessInv, GoodSession, In, Session, Holders
  <1>2. a # Dest /\ s \in NextHops(a) /\ Paid(m.ttl, a) /\ Short(m.hops, a)
    BY <1>1 DEF WaySession
  <1>3. /\ e.ttl = m.ttl - 1 /\ e.ttl \in Nat
        /\ e.box \in {"inbox", "transit"} /\ (e.box = "inbox" <=> s = Dest)
        /\ e.hops = m.hops \/ e.hops = Append(m.hops, a)
    BY <1>1 DEF Stored
  <1>4. Len(m.hops) \in Nat /\ Len(e.hops) \in Nat /\ Len(e.hops) <= Len(m.hops) + 1
    <2>1. Len(m.hops) \in Nat /\ Len(Append(m.hops, a)) = Len(m.hops) + 1
      BY <1>1
    <2> QED BY <1>3, <2>1
  <1> HIDE DEF e
  <1>5. InitTtl \in Nat BY BoundAssumption
  <1>6. ASSUME NEW level \in Levels
        PROVE  /\ level \in [Station -> Nat]
               /\ m.ttl + level[a] = InitTtl /\ Len(m.hops) <= level[a]
    BY <1>2, <1>6 DEF Levels, Paid, Short
  <1>7. ASSUME s # Dest PROVE Paid(e.ttl, s) /\ Short(e.hops, s)
    <2>1. Paid(m.ttl - 1, s) /\ \A level \in Levels : level[s] = level[a] + 1
      BY <1>1, <1>2, <1>7, OneHop
    <2>2. Short(e.hops, s)
      <3> SUFFICES ASSUME NEW level \in Levels PROVE Len(e.hops) <= level[s]
        BY DEF Short
      <3>1. level[s] = level[a] + 1 /\ Len(m.hops) <= level[a] /\ level[a] \in Nat
        BY <1>1, <1>6, <2>1
      <3> QED BY <1>4, <3>1
    <2> QED BY <1>3, <2>1, <2>2
  <1>8. Levels = {} \/ Len(e.hops) + e.ttl <= InitTtl
    <2> SUFFICES ASSUME NEW level \in Levels PROVE Len(e.hops) + e.ttl <= InitTtl
      OBVIOUS
    <2>1. m.ttl + level[a] = InitTtl /\ Len(m.hops) <= level[a] /\ level[a] \in Nat
      BY <1>1, <1>6
    <2>2. m.ttl \in Nat /\ e.ttl = m.ttl - 1 BY <1>1, <1>3
    <2> HIDE DEF m, a
    <2> QED BY <1>4, <1>5, <2>1, <2>2
  <1>9. WayMail(e, s, Holders') BY <1>3, <1>7, <1>8 DEF WayMail
  <1> QED BY <1>3, <1>7, <1>9 DEF e

\* The mailbox follows the sessions.
LEMMA MailWay ==
    ASSUME IInv, IInv', Holders \subseteq Holders', NEW t \in Station,
           WayMail(mail[t], t, Holders), WaySession(sess[t], t),
           WaySession(sess'[t], t), MailMoves(t)
    PROVE  WayMail(mail'[t], t, Holders')
  <1> DEFINE e == mail[t]
             n == mail'[t]
  <1>1. /\ e \in Mail /\ n \in Mail /\ GoodMail(n, t, Holders')
        /\ GoodSession(sess'[t], t, Holders')
    BY DEF IInv, MailInv, SessInv
  <1>2. CASE In(t, "receiving") /\ n = Stored(t, sess[t])
    BY <1>2, StoredWay
  <1>3. CASE \/ n = e
             \/ n = MailAfter(e, sess'[t])
             \/ e.box # "none" /\ n = [e EXCEPT !.status = "sending"]
             \/ /\ e.box # "none"
                /\ n = [e EXCEPT !.box = "sent", !.status = "delivered"]
    <2>1. /\ n.ttl = e.ttl /\ n.hops = e.hops
          /\ \/ n.box = e.box
             \/ /\ n.box = "sent" /\ e.box # "none"
                /\ \/ n.status = "delivered"
                   \/ sess'[t].dir = "out" /\ sess'[t].st \in {"confirmed", "forwarded"}
      <3>1. CASE n = MailAfter(e, sess'[t])
        <4> DEFINE k == MailAfter(e, sess'[t])
        <4>1. /\ k.ttl = e.ttl /\ k.hops = e.hops
              /\ \/ k.box = e.box
                 \/ /\ k.box = "sent" /\ e.box # "none" /\ sess'[t].dir = "out"
                    /\ \/ sess'[t].st \in {"confirmed", "forwarded"}
                       \/ k.status = "delivered"
          BY <1>1, FiledFacts
        <4> HIDE DEF k
        <4> QED BY <3>1, <4>1 DEF k
      <3>2. CASE n # MailAfter(e, sess'[t]) BY <1>1, <1>3, <3>2 DEF Mail
      <3> QED BY <3>1, <3>2
    <2>2. ASSUME n.box = "sent", e.box # "sent"
          PROVE  \E r \in NextHops(t) \ {t} : r \in Holders'
      <3>1. t # Dest BY <1>1, <2>2 DEF GoodMail
      <3>2. CASE n.status = "delivered"
        <4>1. Dest \in Holders' BY <1>1, <3>2 DEF GoodMail
        <4>2. Dest \in NextHops(t) BY StationAssumption DEF NextHops
        <4> QED BY <3>1, <4>1, <4>2
      <3>3. CASE sess'[t].dir = "out" /\ sess'[t].st \in {"confirmed", "forwarded"}
        <4>1. sess'[t].hop \in Holders' \ {t} BY <1>1, <3>3 DEF GoodSession
        <4>2. sess'[t].hop \in Ways(t) BY <3>3 DEF WaySession
        <4>3. sess'[t].hop # NoStation BY <4>1, StationAssumption DEF Holders
        <4> QED BY <4>1, <4>2, <4>3 DEF Ways
      <3> QED BY <2>1, <2>2, <3>2, <3>3
    <2>3. e.box = "sent" => \E r \in NextHops(t) \ {t} : r \in Holders'
      BY DEF WayMail
    <2> QED BY <1>1, <2>1, <2>2, <2>3 DEF WayMail, GoodMail
  <1> QED BY <1>2, <1>3 DEF MailMoves

----------------------------------------------------------------------------
(* The frames *)

\* What a step may add to a transmit queue that announces the message.
QueueMoves ==
    \A t \in Station : \A f \in txq'[t] :
        \/ f \in txq[t] \/ f.type # "HAVE_MSG"
        \/ Out(t, "transferring") /\ f = HaveMsg(t, sess[t])

\* The types of the frames the handlers build.
LEMMA Types ==
    ASSUME NEW s, NEW hop, NEW tok, NEW ttl, NEW m, NEW type
    PROVE  /\ FrameTo(type, s, hop).type = type /\ Say(type, s).type = type
           /\ Tokened(type, s, hop, tok).type = type
           /\ Receipt(s, hop, ttl).type = "DELIVERED"
           /\ AckHave(s, m).type = "ACK_HAVE"
  BY DEF FrameTo, Say, Tokened, Receipt, AckHave

\* So are those of a cancellation and of a search.
LEMMA AsideTypes ==
    ASSUME NEW s, NEW m
    PROVE  \A f \in Cancelling(s) \cup Queries(s, m) : f.type # "HAVE_MSG"
  BY Types DEF Cancelling, Queries

\* Other frames are queued, or requests are withdrawn, or nothing happens.
LEMMA QuietQueue ==
    ASSUME IInv, NEW s \in Station, NEW frames,
           \A f \in frames : f.type # "HAVE_MSG",
           Send(s, frames) \/ SendAndStop(s, frames) \/ UNCHANGED txq
    PROVE  QueueMoves
  <1>1. txq \in [Station -> SUBSET Frame] BY DEF IInv, TxqInv
  <1>2. CASE Send(s, frames) BY <1>1, <1>2 DEF Send, QueueMoves
  <1>3. CASE SendAndStop(s, frames)
    <2>1. \A f \in Answers(txq[s] \cup frames) : f \in txq[s] \/ f.type # "HAVE_MSG"
      BY DEF Answers
    <2>2. txq' = [txq EXCEPT ![s] = Answers(txq[s] \cup frames)]
      BY <1>3 DEF SendAndStop
    <2> QED BY <1>1, <2>1, <2>2 DEF QueueMoves
  <1>4. CASE UNCHANGED txq BY <1>4 DEF QueueMoves
  <1> QED BY <1>2, <1>3, <1>4

\* Nothing is queued.
LEMMA NothingQueued ==
    ASSUME UNCHANGED txq
    PROVE  QueueMoves
  BY DEF QueueMoves

\* A session fails.
LEMMA FailQueue ==
    ASSUME IInv, NEW s \in Station, NEW m, NEW frames, FailWith(s, m, frames),
           \A f \in frames : f.type # "HAVE_MSG"
    PROVE  QueueMoves
  BY QuietQueue DEF FailWith

\* Announcements stay on the ways of their senders.
LEMMA QueueWay ==
    ASSUME IInv, WaySessions, WayQueues, QueueMoves
    PROVE  WayQueues'
  <1> SUFFICES ASSUME NEW t \in Station, NEW f \in txq'[t] PROVE WayFrame(f)
    BY DEF WayQueues, WayFrame
  <1>1. CASE f \in txq[t] \/ f.type # "HAVE_MSG"
    BY <1>1 DEF WayQueues, WayFrame
  <1>2. CASE Out(t, "transferring") /\ f = HaveMsg(t, sess[t])
    <2>1. f.src = t /\ f.hop = sess[t].hop /\ f.ttl = sess[t].ttl
      BY <1>2 DEF HaveMsg, FrameTo
    <2>2. t # Dest BY <1>2 DEF IInv, SessInv, GoodSession, Out
    <2> QED BY <1>2, <2>1, <2>2 DEF WaySessions, WaySession, Out, WayFrame
  <1> QED BY <1>1, <1>2 DEF QueueMoves

\* The net thread takes a frame.
LEMMA TailWay ==
    ASSUME InboxInv, WayInboxes, NEW s \in Station,
           inbox[s] # <<>>, inbox' = [inbox EXCEPT ![s] = Tail(@)]
    PROVE  WayInboxes'
  <1> SUFFICES ASSUME NEW t \in Station, NEW i \in 1..Len(inbox'[t])
               PROVE  WayFrame(inbox'[t][i]) /\ inbox'[t][i].src \in Neighbours(t)
    BY DEF WayInboxes, WayFrame
  <1>1. CASE t = s
    <2>1. inbox[s] \in Seq(Frame) /\ inbox'[t] = Tail(inbox[s])
      BY <1>1 DEF InboxInv
    <2>2. /\ Len(Tail(inbox[s])) = Len(inbox[s]) - 1 /\ Len(inbox[s]) \in Nat
          /\ \A j \in 1..Len(Tail(inbox[s])) : Tail(inbox[s])[j] = inbox[s][j + 1]
      BY <2>1
    <2>3. i \in 1..Len(Tail(inbox[s])) BY <2>1
    <2>4. i + 1 \in 1..Len(inbox[s]) BY <2>2, <2>3
    <2>5. inbox'[t][i] = inbox[s][i + 1] BY <2>1, <2>2, <2>3
    <2> QED BY <1>1, <2>4, <2>5 DEF WayInboxes
  <1>2. CASE t # s
    <2>1. inbox'[t] = inbox[t] BY <1>2 DEF InboxInv
    <2> QED BY <2>1 DEF WayInboxes
  <1> QED BY <1>1, <1>2

\* A frame goes on the air.
LEMMA AirWay ==
    ASSUME InboxInv, WayInboxes, NEW s \in Station, NEW f \in Frame,
           f.src = s, WayFrame(f), Air(s, f)
    PROVE  WayInboxes'
  <1> SUFFICES ASSUME NEW t \in Station, NEW i \in 1..Len(inbox'[t])
               PROVE  WayFrame(inbox'[t][i]) /\ inbox'[t][i].src \in Neighbours(t)
    BY DEF WayInboxes, WayFrame
  <1>1. \/ inbox'[t] = inbox[t]
        \/ s \in Neighbours(t) /\ inbox'[t] = Append(inbox[t], f)
    BY DEF Air, Hears, Neighbours
  <1>2. CASE inbox'[t] = inbox[t] BY <1>2 DEF WayInboxes
  <1>3. CASE s \in Neighbours(t) /\ inbox'[t] = Append(inbox[t], f)
    <2>1. inbox[t] \in Seq(Frame) BY DEF InboxInv
    <2>2. /\ Len(inbox[t]) \in Nat /\ Len(Append(inbox[t], f)) = Len(inbox[t]) + 1
          /\ Append(inbox[t], f)[Len(inbox[t]) + 1] = f
          /\ \A j \in 1..Len(inbox[t]) : Append(inbox[t], f)[j] = inbox[t][j]
      BY <2>1
    <2>3. CASE i = Len(inbox[t]) + 1 BY <1>3, <2>2, <2>3
    <2>4. CASE i # Len(inbox[t]) + 1
      <3>1. i \in 1..Len(inbox[t]) BY <1>3, <2>2, <2>4
      <3> QED BY <1>3, <2>2, <3>1 DEF WayInboxes
    <2> QED BY <2>3, <2>4
  <1> QED BY <1>1, <1>2, <1>3

\* The frame the net thread takes came over a way, from a neighbour.
LEMMA HeadWay ==
    ASSUME InboxInv, WayInboxes, NEW s \in Station, inbox[s] # <<>>
    PROVE  WayFrame(Head(inbox[s])) /\ Head(inbox[s]).src \in Neighbours(s)
  <1>1. inbox[s] \in Seq(Frame) BY DEF InboxInv
  <1>2. 1 \in 1..Len(inbox[s]) /\ Head(inbox[s]) = inbox[s][1] BY <1>1
  <1> QED BY <1>2 DEF WayInboxes

\* What a session waits behind is on its way.
LEMMA GuardedWay ==
    ASSUME IInv, WaySessions, NEW s \in Station
    PROVE  WayFrame(Guarded(s)) /\ Guarded(s).src = s
  <1>1. CASE sess[s].st = "announcing"
    <2>1. Guarded(s) = HaveMsg(s, sess[s]) BY <1>1 DEF Guarded
    <2>2. sess[s].dir = "out" /\ s # Dest BY <1>1 DEF IInv, SessInv, GoodSession
    <2>3. /\ Guarded(s).src = s /\ Guarded(s).hop = sess[s].hop
          /\ Guarded(s).ttl = sess[s].ttl
      BY <2>1 DEF HaveMsg, FrameTo
    <2> QED BY <2>2, <2>3 DEF WaySessions, WaySession, WayFrame
  <1>2. CASE sess[s].st # "announcing"
    <2>1. Guarded(s).type # "HAVE_MSG" /\ Guarded(s).src = s
      BY <1>2 DEF Guarded, Tokened, FrameTo
    <2> QED BY <2>1 DEF WayFrame
  <1> QED BY <1>1, <1>2

----------------------------------------------------------------------------
(* The steps *)

\* What every step does to the sessions and the mailboxes.
Moves == \A t \in Station : WaySession(sess'[t], t) /\ MailMoves(t)

\* A session moves on, and its mailbox entry with it.
LEMMA BecomeMoves ==
    ASSUME IInv, WayInv, NEW s \in Station, NEW m, WaySession(m, s), Become(s, m)
    PROVE  Moves
  <1> DEFINE e == MailAfter(mail[s], m)
  <1>1. sess' = [sess EXCEPT ![s] = m] /\ mail' = [mail EXCEPT ![s] = e]
    BY DEF Become
  <1> HIDE DEF e
  <1>2. sess'[s] = m /\ mail'[s] = e BY <1>1 DEF IInv, SessInv, MailInv
  <1>3. \A t \in Station \ {s} : sess'[t] = sess[t] /\ mail'[t] = mail[t]
    BY <1>1 DEF IInv, SessInv, MailInv
  <1> QED BY <1>2, <1>3 DEF Moves, MailMoves, WayInv, WaySessions, e

\* One session is replaced, and a mailbox entry as MailMoves allows.
LEMMA OneMoves ==
    ASSUME IInv, WayInv, NEW s \in Station, NEW m, WaySession(m, s),
           sess' = [sess EXCEPT ![s] = m], \A t \in Station : MailMoves(t)
    PROVE  Moves
  BY DEF IInv, SessInv, Moves, WayInv, WaySessions

\* Nothing happens to any session or mail.
LEMMA NothingMoves ==
    ASSUME WayInv, UNCHANGED <<sess, mail>>
    PROVE  Moves
  BY DEF Moves, MailMoves, WayInv, WaySessions

\* A session fails.
LEMMA FailMoves ==
    ASSUME IInv, WayInv, NEW s \in Station, NEW m \in Session, NEW frames,
           WaySession(m, s), FailWith(s, m, frames)
    PROVE  Moves
  BY FoundFacts, EnterWay, BecomeMoves DEF FailWith

\* A station's own session.
LEMMA OwnWay ==
    ASSUME IInv, WayInv, NEW s \in Station
    PROVE  /\ sess[s] \in Session /\ WaySession(sess[s], s)
           /\ \A st : MaySearch(st, s) => WaySession(Enter(sess[s], st), s)
           /\ \A h \in Ways(s) : WaySession(Announce(sess[s], h), s)
  <1>1. sess[s] \in Session /\ WaySession(sess[s], s)
    BY Sessions DEF WayInv, WaySessions
  <1> QED BY <1>1, EnterWay, AnnounceWay

\* The message is queued.
LEMMA QueueMoved ==
    ASSUME IInv, WayInv, NEW s \in Station, Queue(s)
    PROVE  Moves /\ QueueMoves
  <1> DEFINE e == mail[s]
             m == Leg(s, e.prev, e.ttl)
  <1>1. e \in Mail /\ e.box # "none" /\ s # Dest /\ WayMail(e, s, Holders)
    BY DEF IInv, MailInv, GoodMail, Queue, WayInv, WayMails
  <1>2. Paid(e.ttl, s) BY <1>1 DEF WayMail
  <1>3. WaySession(m, s) /\ m \in Session
    <2>1. PICK prev, ttl : prev = e.prev /\ ttl = e.ttl OBVIOUS
    <2>2. prev \in Hop /\ ttl \in Nat /\ Paid(ttl, s)
      BY <1>1, <1>2, <2>1 DEF Mail
    <2>3. PICK l : l = Leg(s, prev, ttl) OBVIOUS
    <2>4. WaySession(l, s) /\ l \in Session
      BY <2>2, <2>3, Sessions, LegWay, LegSession
    <2>5. m = l BY <2>1, <2>3
    <2> QED BY <2>4, <2>5
  <1>5. Dest \in Ways(s) BY HopsAreWays DEF WayInv
  <1>6. PICK n \in Launch(s, m, Announce(m, Dest)) :
            /\ sess' = [sess EXCEPT ![s] = n]
            /\ mail' = [mail EXCEPT ![s].status = "sending"]
            /\ Send(s, Queries(s, n))
    BY DEF Queue
  <1> HIDE DEF m
  <1>7. WaySession(n, s)
    BY <1>3, <1>5, AnnounceWay, LaunchWay DEF WayInv
  <1>8. \A t \in Station : MailMoves(t) BY <1>1, <1>6 DEF MailMoves, IInv, MailInv
  <1>9. QueueMoves BY <1>6, AsideTypes, QuietQueue
  <1> QED BY <1>6, <1>7, <1>8, <1>9, OneMoves

\* The operator, the mail sweep and the discovery.
LEMMA OperatorMoves ==
    ASSUME IInv, WayInv, NEW s \in Station, Operator(s) \/ Discoverer(s)
    PROVE  Moves /\ QueueMoves
  <1>1. /\ sess[s] \in Session /\ WaySession(sess[s], s)
        /\ \A st : MaySearch(st, s) => WaySession(Enter(sess[s], st), s)
        /\ \A h \in Ways(s) : WaySession(Announce(sess[s], h), s)
    BY OwnWay
  <1>2. CASE SendQueued(s) \/ AutoDeliver(s)
    BY <1>2, QueueMoved DEF SendQueued, AutoDeliver
  <1>3. CASE Cancel(s)
    <2>1. Moves BY <1>1, <1>3, FoundFacts, BecomeMoves DEF Cancel
    <2>2. \A f \in Answers(txq[s]) \cup Cancelling(s) :
                f \in txq[s] \/ f.type # "HAVE_MSG"
      BY AsideTypes DEF Answers
    <2>3. QueueMoves BY <1>3, <2>2 DEF Cancel, QueueMoves, IInv, TxqInv
    <2> QED BY <2>1, <2>3
  <1>4. CASE Reconfigure(s)
    BY <1>4, NothingMoves, NothingQueued DEF Reconfigure
  <1>5. CASE DiscoveryResult(s) \/ Approve(s)
    <2>1. Discovery[s] # "off" /\ UNCHANGED txq
      BY <1>1, <1>5 DEF DiscoveryResult, Approve, Out, WaySession, MaySearch
    <2>2. Neighbours(s) \subseteq Ways(s) BY <2>1, HopsAreWays DEF WayInv
    <2>3. \/ Become(s, Enter(sess[s], "route-approval"))
          \/ \E hop \in Neighbours(s) : Become(s, Announce(sess[s], hop))
      BY <1>5 DEF DiscoveryResult, Approve
    <2>4. MaySearch("route-approval", s) BY <2>1 DEF MaySearch
    <2> QED BY <1>1, <2>1, <2>2, <2>3, <2>4, BecomeMoves, NothingQueued
  <1>6. CASE DiscoveryFailure(s)
    BY <1>1, <1>6, FailMoves, FailQueue DEF DiscoveryFailure
  <1>7. CASE ResumeRoute(s)
    <2>1. PICK now \in Evidence[s] :
              \E hop \in Hops(s, sess[s].failed \cup {sess[s].prev}, now) :
                  Become(s, Announce(sess[s], hop))
      BY <1>7 DEF ResumeRoute
    <2>2. Moves BY <1>1, <2>1, HopsAreWays, BecomeMoves DEF WayInv
    <2>3. QueueMoves BY <1>7, QuietQueue DEF ResumeRoute
    <2> QED BY <2>2, <2>3
  <1> QED BY <1>2, <1>3, <1>4, <1>5, <1>6, <1>7 DEF Operator, Discoverer

\* A received message is stored, and may set out on its next leg.
LEMMA CompletesMoves ==
    ASSUME IInv, WayInv, NEW s \in Station, ReceiveCompletes(s)
    PROVE  Moves /\ QueueMoves
  <1>1. /\ sess[s] \in Session /\ WaySession(sess[s], s)
        /\ \A st : MaySearch(st, s) => WaySession(Enter(sess[s], st), s)
    BY OwnWay
  <1>2. In(s, "receiving") /\ mail' = [mail EXCEPT ![s] = Stored(s, sess[s])]
    BY CompletionFacts DEF ReceiveCompletes
  <1>3. \A t \in Station : MailMoves(t) BY <1>2 DEF MailMoves, IInv, MailInv
  <1>0. PICK m : /\ Alike(sess[s], m) /\ GoodSession(m, s, Holders)
                 /\ DeliverHere(s, m) \/ TakeCustody(s, m)
    BY CompletionFacts
  <1>6. /\ m \in Session /\ m.src = sess[s].src /\ m.ttl = sess[s].ttl
        /\ m.dir = "in" /\ ~m.hollow /\ WaySession(m, s)
    BY <1>0, <1>1, <1>2, AlikeFields, AlikeWay DEF GoodSession, In
  <1>7. \A st : MaySearch(st, s) => WaySession(Enter(m, st), s)
    BY <1>6, EnterWay
  <1>4. CASE DeliverHere(s, m)
    <2>1. Moves BY <1>7, <1>3, <1>4, FoundFacts, OneMoves DEF DeliverHere
    <2>2. \A f \in {Say("RECEIVED", s), Receipt(s, m.src, ReceiptTtl)} :
              f.type # "HAVE_MSG"
      BY Types
    <2>3. QueueMoves BY <1>4, <2>2, QuietQueue DEF DeliverHere
    <2> QED BY <2>1, <2>3
  <1>5. CASE TakeCustody(s, m)
    <2> DEFINE leg == Onward(s, m)
               answer == {Say("RECEIVED", s)}
    <2>1. s # Dest BY <1>5 DEF TakeCustody
    <2>2. Paid(sess[s].ttl - 1, s) BY <1>1, <1>2, <2>1, StoredWay
    <2>3. WaySession(leg, s) /\ leg \in Session
      <3>1. m.src \in Hop /\ m.ttl \in Nat /\ m.ttl # 0
        BY <1>0, <1>6 DEF GoodSession, Session
      <3>2. PICK ttl \in Nat : ttl = m.ttl - 1 BY <3>1
      <3>3. WaySession(Leg(s, m.src, ttl), s)
        BY <1>1, <1>6, <2>2, <3>1, <3>2, LegWay
      <3>4. Alike(Leg(s, m.src, ttl), leg)
        BY <1>1, <1>6, <3>1, <3>2, OnwardAlike
      <3> QED BY <3>3, <3>4, AlikeWay, AlikeFields
    <2>5. \A f \in answer : f.type # "HAVE_MSG" BY Types
    <2> HIDE DEF leg, answer
    <2>6. \/ /\ sess' = [sess EXCEPT ![s] = Enter(m, "received")]
             /\ Send(s, answer)
          \/ \E n \in Launch(s, leg, Enter(leg, "failed")) :
                /\ sess' = [sess EXCEPT ![s] = n]
                /\ SendAndStop(s, answer) \/ Send(s, answer \cup Queries(s, n))
      BY <1>5 DEF TakeCustody, leg, answer
    <2>7. CASE /\ sess' = [sess EXCEPT ![s] = Enter(m, "received")]
               /\ Send(s, answer)
      BY <1>3, <1>7, <2>5, <2>7, FoundFacts, OneMoves, QuietQueue
    <2>8. CASE \E n \in Launch(s, leg, Enter(leg, "failed")) :
                /\ sess' = [sess EXCEPT ![s] = n]
                /\ SendAndStop(s, answer) \/ Send(s, answer \cup Queries(s, n))
      <3>1. PICK n \in Launch(s, leg, Enter(leg, "failed")) :
                /\ sess' = [sess EXCEPT ![s] = n]
                /\ SendAndStop(s, answer) \/ Send(s, answer \cup Queries(s, n))
        BY <2>8
      <3>2. WaySession(Enter(leg, "failed"), s) BY <2>3, FoundFacts, EnterWay
      <3>3. WaySession(n, s) BY <2>3, <3>2, LaunchWay DEF WayInv
      <3>4. Moves BY <1>3, <3>1, <3>3, OneMoves
      <3>5. \A f \in answer \cup Queries(s, n) : f.type # "HAVE_MSG"
        BY <2>5, AsideTypes
      <3>6. QueueMoves BY <2>5, <3>1, <3>5, QuietQueue
      <3> QED BY <3>4, <3>6
    <2> QED BY <2>6, <2>7, <2>8
  <1> QED BY <1>0, <1>4, <1>5

\* The completions of the payload.
LEMMA PayloadMoves ==
    ASSUME IInv, WayInv, NEW s \in Station, Payload(s), Prompt'
    PROVE  Moves /\ QueueMoves
  <1>1. /\ sess[s] \in Session /\ WaySession(sess[s], s)
        /\ \A st : MaySearch(st, s) => WaySession(Enter(sess[s], st), s)
    BY OwnWay
  <1>2. CASE \E r \in Station : PayloadArrives(s, r)
    <2>1. PICK r \in Station : PayloadArrives(s, r) BY <1>2
    <2> DEFINE m == [sess[r] EXCEPT !.got = TRUE, !.hops = mail[s].hops,
                                    !.hollow = sess[s].hollow]
    <2>2. sess[r] \in Session /\ WaySession(sess[r], r) BY OwnWay
    <2>3. /\ sess' = [sess EXCEPT ![r] = m] /\ UNCHANGED <<mail, txq>>
          /\ sess[r].dir = "in" /\ sess[r].src = s /\ sess[s].dir = "out"
      BY <2>1, <2>2 DEF PayloadArrives, IInv, SessInv, Session, Out, In
    <2>4. /\ m.dir = sess[r].dir /\ m.src = s /\ m.ttl = sess[r].ttl
          /\ m.offers = sess[r].offers /\ m.st = sess[r].st /\ m.hops = mail[s].hops
      BY <2>2, <2>3 DEF Session
    <2> HIDE DEF m
    <2>5. Short(mail[s].hops, s)
      <3>1. mail[s].box # "none" /\ s # Dest
        BY <2>3 DEF IInv, SessInv, GoodSession, Holders, Holds
      <3> QED BY <3>1 DEF WayInv, WayMails, WayMail
    <2>6. WaySession(m, r) BY <2>2, <2>3, <2>4, <2>5 DEF WaySession
    <2>7. \A t \in Station : MailMoves(t) BY <2>3 DEF MailMoves
    <2> QED BY <2>3, <2>6, <2>7, OneMoves, NothingQueued
  <1>3. CASE ReceiveFails(s)
    <2> DEFINE n == Enter(sess[s], "failed")
    <2>1. WaySession(n, s) BY <1>1, FoundFacts
    <2>2. n \in Session BY <1>1, EnterFacts, PlainStates DEF Plain
    <2>3. Become(s, [n EXCEPT !.rx = FALSE]) BY <1>3 DEF ReceiveFails
    <2> HIDE DEF n
    <2>4. Alike(n, [n EXCEPT !.rx = FALSE]) BY <2>2 DEF Alike, Session
    <2>5. WaySession([n EXCEPT !.rx = FALSE], s) BY <2>1, <2>4, AlikeWay
    <2> QED BY <1>3, <2>3, <2>5, BecomeMoves, AsideTypes, QuietQueue DEF ReceiveFails
  <1>4. CASE SendDone(s)
    <2> DEFINE m == [sess[s] EXCEPT !.sent = TRUE, !.queries = 0]
    <2>1. Steady(sess[s], m) /\ m.hop = sess[s].hop /\ m.st = sess[s].st
      BY <1>1 DEF Steady, Session
    <2>2. \/ Become(s, m) /\ UNCHANGED txq
          \/ FailWith(s, sess[s], Cancelling(s))
      BY <1>4 DEF SendDone
    <2> HIDE DEF m
    <2>3. WaySession(m, s) BY <1>1, <2>1, SteadyWay
    <2> QED BY <1>1, <2>2, <2>3, BecomeMoves, NothingQueued, AsideTypes,
               FailMoves, FailQueue
  <1>5. CASE \E r \in Station : PayloadStrays(s, r)
    <2>1. PICK r \in Station : PayloadStrays(s, r) BY <1>5
    <2>2. PICK n : Alike(sess[r], n) /\ sess' = [sess EXCEPT ![r] = n]
      BY <2>1, StraysAlike
    <2>3. WaySession(n, r) BY <2>2, OwnWay, AlikeWay
    <2>4. UNCHANGED <<mail, txq>> BY <2>1 DEF PayloadStrays
    <2>5. \A t \in Station : MailMoves(t) BY <2>4 DEF MailMoves
    <2> QED BY <2>2, <2>3, <2>4, <2>5, OneMoves, NothingQueued
  <1>6. CASE LateFails(s)
    <2>1. PICK w \in Late :
              Reports(s, w) /\ Become(s, Enter(Rid(sess[s], w), "failed"))
      BY <1>6 DEF LateFails
    <2> DEFINE m == Rid(sess[s], w)
    <2>2. Alike(sess[s], m) BY <1>1, <2>1, RidAlike DEF Reports
    <2> HIDE DEF m
    <2>3. WaySession(m, s) /\ m \in Session BY <1>1, <2>2, AlikeFields, AlikeWay
    <2>4. WaySession(Enter(m, "failed"), s) BY <2>3, FoundFacts, EnterWay
    <2> QED BY <1>6, <2>1, <2>4, BecomeMoves, AsideTypes, QuietQueue DEF LateFails, m
  <1>7. ~LateCompletes(s) BY DEF LateCompletes, Mistaken, Prompt
  <1> QED BY <1>2, <1>3, <1>4, <1>5, <1>6, <1>7, CompletesMoves DEF Payload

\* What is left of the hops when one did not answer.
LEMMA NextHopWay ==
    ASSUME NEW s \in Station, WayLearned, NEW m \in Session, WaySession(m, s),
           NEW now \in Evidence[s], NEW n \in NextHop(s, Spent(m), now)
    PROVE  WaySession(n, s)
  <1> DEFINE k == Spent(m)
             fields == {"dir", "st", "src", "hop", "prev", "ttl", "att", "tx", "cap",
                        "trans", "tok", "work", "failed", "triedBackup", "blind",
                        "tried", "offers", "sent", "queries", "got", "hops", "rfwd",
                   "rx", "left", "hollow"}
  <1>1. k \in [fields -> {k[x] : x \in DOMAIN k}] /\ Steady(m, k) /\ k.hop = m.hop
    BY DEF Spent, Session, Steady
  <1>2. \/ /\ Backup[s] \in Station
           /\ n = [Announce(k, Backup[s]) EXCEPT !.triedBackup = TRUE]
        \/ \E h \in Hops(s, k.failed \cup {k.prev}, now) : n = Announce(k, h)
        \/ /\ AutoRoute[s]
           /\ n = [Enter(k, "discovery") EXCEPT !.triedBackup = TRUE, !.offers = {}]
        \/ CanDiscover(s, k) /\ n = Multihop(k)
        \/ n = Enter(k, "failed")
    BY DEF NextHop, HasBackup
  <1> HIDE DEF k
  <1>3. CASE /\ Backup[s] \in Station
             /\ n = [Announce(k, Backup[s]) EXCEPT !.triedBackup = TRUE]
    <2>1. Steady(m, n) /\ n.hop = Backup[s] /\ n.st = "announcing"
      BY <1>1, <1>3 DEF Steady, Announce, Enter
    <2>2. n.hop \in Ways(s) BY <1>3, <2>1, HopsAreWays
    <2>3. MaySearch(n.st, s) BY <2>1, FoundFacts
    <2> QED BY <2>1, <2>2, <2>3, SteadyWay
  <1>4. CASE \E h \in Hops(s, k.failed \cup {k.prev}, now) : n = Announce(k, h)
    <2>1. PICK h \in Hops(s, k.failed \cup {k.prev}, now) : n = Announce(k, h)
      BY <1>4
    <2>2. Steady(m, n) /\ n.hop = h /\ n.st = "announcing"
      BY <1>1, <2>1 DEF Steady, Announce, Enter
    <2> QED BY <2>1, <2>2, HopsAreWays, FoundFacts, SteadyWay
  <1>5. CASE /\ AutoRoute[s]
             /\ n = [Enter(k, "discovery") EXCEPT !.triedBackup = TRUE, !.offers = {}]
    <2>1. Steady(m, n) /\ n.hop = m.hop /\ n.st = "discovery"
      BY <1>1, <1>5 DEF Steady, Enter
    <2>2. MaySearch("discovery", s) BY <1>5 DEF MaySearch
    <2> QED BY <2>1, <2>2, SteadyWay
  <1>6. CASE CanDiscover(s, k) /\ n = Multihop(k)
    <2>1. Steady(m, n) /\ n.hop = m.hop /\ n.st = "multihop-discovery"
      BY <1>1, <1>6 DEF Steady, Multihop, Enter
    <2>2. MaySearch("multihop-discovery", s) BY <1>6 DEF MaySearch, CanDiscover
    <2> QED BY <2>1, <2>2, SteadyWay
  <1>7. CASE n = Enter(k, "failed")
    <2>1. Steady(m, n) /\ n.hop = m.hop /\ n.st = "failed"
      BY <1>1, <1>7 DEF Steady, Enter
    <2> QED BY <2>1, FoundFacts, SteadyWay
  <1> QED BY <1>2, <1>3, <1>4, <1>5, <1>6, <1>7

\* The timers.
LEMMA TickMoves ==
    ASSUME IInv, WayInv, NEW s \in Station, Tick(s)
    PROVE  Moves /\ QueueMoves
  <1>1. /\ sess[s] \in Session /\ WaySession(sess[s], s)
        /\ \A st : MaySearch(st, s) => WaySession(Enter(sess[s], st), s)
        /\ \A h \in Ways(s) : WaySession(Announce(sess[s], h), s)
    BY OwnWay
  <1>2. WayLearned BY DEF WayInv
  <1>3. ASSUME NEW h \in Ways(s), Become(s, Announce(sess[s], h)), UNCHANGED txq
        PROVE  Moves /\ QueueMoves
    BY <1>1, <1>3, BecomeMoves, NothingQueued
  <1>4. ASSUME NEW frames, FailWith(s, sess[s], frames),
               frames \in {{}, Cancelling(s)}
        PROVE  Moves /\ QueueMoves
    <2>1. \A f \in frames : f.type # "HAVE_MSG" BY <1>4, AsideTypes
    <2> QED BY <1>1, <1>4, <2>1, FailMoves, FailQueue
  <1>5. CASE Retry(s)
    <2> DEFINE m == [sess[s] EXCEPT !.att = @ + 1, !.tx = "queued"]
    <2>1. Steady(sess[s], m) /\ m.hop = sess[s].hop /\ m.st = sess[s].st
      BY <1>1 DEF Steady, Session
    <2>2. Become(s, m) /\ UNCHANGED txq BY <1>5 DEF Retry
    <2> HIDE DEF m
    <2>3. WaySession(m, s) BY <1>1, <2>1, SteadyWay
    <2> QED BY <2>2, <2>3, BecomeMoves, NothingQueued
  <1>6. CASE AnnounceTimeout(s)
    <2>1. \/ Retry(s)
          \/ \E now \in Evidence[s] : \E n \in NextHop(s, Spent(sess[s]), now) :
                Become(s, n) /\ (SendAndStop(s, {}) \/ Send(s, Queries(s, n)))
      BY <1>6 DEF AnnounceTimeout
    <2>2. ASSUME NEW now \in Evidence[s], NEW n \in NextHop(s, Spent(sess[s]), now),
                 Become(s, n), SendAndStop(s, {}) \/ Send(s, Queries(s, n))
          PROVE  Moves /\ QueueMoves
      <3>1. Moves BY <1>1, <1>2, <2>2, NextHopWay, BecomeMoves
      <3>2. QueueMoves BY <2>2, AsideTypes, QuietQueue
      <3> QED BY <3>1, <3>2
    <2> QED BY <1>5, <2>1, <2>2
  <1>7. CASE BusyRetry(s)
    <2>1. sess[s].hop \in Ways(s) BY <1>1, <1>7 DEF BusyRetry, Out, WaySession
    <2> QED BY <1>3, <1>7, <2>1 DEF BusyRetry
  <1>8. CASE DiscoveryTimeout(s)
    <2> DEFINE m == [Announce(sess[s], Dest) EXCEPT !.blind = TRUE]
    <2>1. Steady(sess[s], m) /\ m.hop = Dest /\ m.st = "announcing"
      BY <1>1 DEF Steady, Announce, Enter, Session
    <2>2. \/ Become(s, m)
          \/ \E hop \in sess[s].offers \cup {Dest} : Become(s, Announce(sess[s], hop))
      BY <1>8 DEF DiscoveryTimeout
    <2> HIDE DEF m
    <2>3. Dest \in Ways(s) BY <1>2, HopsAreWays
    <2>4. sess[s].offers \subseteq Ways(s)
      <3>1. AutoRoute[s] BY <1>1, <1>8 DEF DiscoveryTimeout, Out, WaySession, MaySearch
      <3>2. Neighbours(s) \subseteq Ways(s) BY <1>2, <3>1, HopsAreWays
      <3> QED BY <1>1, <3>2 DEF WaySession
    <2>5. WaySession(m, s) BY <1>1, <2>1, <2>3, FoundFacts, SteadyWay
    <2>6. UNCHANGED txq BY <1>8 DEF DiscoveryTimeout
    <2> QED BY <1>3, <2>2, <2>3, <2>4, <2>5, <2>6, BecomeMoves, NothingQueued
  <1>9. CASE WorkingTimeout(s) BY <1>4, <1>5, <1>9 DEF WorkingTimeout
  <1>10. CASE ProfileTimeout(s) BY <1>4, <1>5, <1>10 DEF ProfileTimeout
  <1>11. CASE StartTimeout(s) \/ AckedTimeout(s) \/ TransferTimeout(s)
    BY <1>4, <1>11 DEF StartTimeout, AckedTimeout, TransferTimeout
  <1>12. CASE ReceiptTimeout(s)
    <2> DEFINE m == [sess[s] EXCEPT !.queries = @ + 1]
    <2>1. /\ Steady(sess[s], m) /\ m.hop = sess[s].hop /\ m.st = sess[s].st
      BY <1>1 DEF Steady, Session
    <2>2. \/ FailWith(s, sess[s], {})
          \/ Become(s, m) /\ Send(s, {HaveMsg(s, sess[s])})
      BY <1>12 DEF ReceiptTimeout
    <2> HIDE DEF m
    <2>3. CASE FailWith(s, sess[s], {}) BY <1>4, <2>3
    <2>4. CASE Become(s, m) /\ Send(s, {HaveMsg(s, sess[s])})
      <3>1. Moves BY <1>1, <2>1, <2>4, SteadyWay, BecomeMoves
      <3>2. Out(s, "transferring") BY <1>12 DEF ReceiptTimeout
      <3>3. QueueMoves BY <2>4, <3>2 DEF Send, QueueMoves, IInv, TxqInv
      <3> QED BY <3>1, <3>3
    <2> QED BY <2>2, <2>3, <2>4
  <1>13. CASE ConfirmTimeout(s)
    BY <1>1, <1>13, FoundFacts, BecomeMoves, NothingQueued DEF ConfirmTimeout
  <1> QED BY <1>6, <1>7, <1>8, <1>9, <1>10, <1>11, <1>12, <1>13 DEF Tick

\* What the profile and channel negotiation leaves alone.
LEMMA SettlingSteady ==
    ASSUME NEW s \in Station, NEW m \in Session, NEW tok
    PROVE  /\ Steady(m, Negotiate(s, m)) /\ Negotiate(s, m).hop = m.hop
           /\ Negotiate(s, m).st \in Found
           /\ Steady(m, ProfileAnswer(m, tok, profile[s]))
           /\ ProfileAnswer(m, tok, profile[s]).hop = m.hop
           /\ ProfileAnswer(m, tok, profile[s]).st = m.st
           /\ Steady(m, Starting(ProfileSettled(m, tok)))
           /\ Starting(ProfileSettled(m, tok)).hop = m.hop
           /\ Starting(ProfileSettled(m, tok)).st \in Found
           /\ LET n == [m EXCEPT !.work = tok] IN
              /\ Steady(m, n) /\ n.hop = m.hop /\ n.st = m.st
              /\ Steady(m, Negotiate(s, n)) /\ Negotiate(s, n).hop = m.hop
              /\ Negotiate(s, n).st \in Found
  <1> DEFINE n == [m EXCEPT !.work = tok]
             k == ProfileAnswer(m, tok, profile[s])
             l == Starting(ProfileSettled(m, tok))
  <1>1. {"starting", "g2-profile"} \subseteq Found BY FoundFacts
  <1>2. /\ Steady(m, Negotiate(s, m)) /\ Negotiate(s, m).hop = m.hop
        /\ Negotiate(s, m).st \in {"starting", "g2-profile"}
    BY DEF Steady, Negotiate, Starting, Enter, Session
  <1>3. Steady(m, k) /\ k.hop = m.hop /\ k.st = m.st
    BY DEF Steady, ProfileAnswer, Agreed, Fallback, Session
  <1>4. Steady(m, l) /\ l.hop = m.hop /\ l.st = "starting"
    BY DEF Steady, ProfileSettled, Agreed, Fallback, Starting, Enter, Session
  <1>5. Steady(m, n) /\ n.hop = m.hop /\ n.st = m.st BY DEF Steady, Session
  <1>6. /\ Steady(m, Negotiate(s, n)) /\ Negotiate(s, n).hop = m.hop
        /\ Negotiate(s, n).st \in {"starting", "g2-profile"}
    BY DEF Steady, Negotiate, Starting, Enter, Session
  <1> HIDE DEF n, k, l
  <1>7. /\ Steady(m, n) /\ n.hop = m.hop /\ n.st = m.st
        /\ Steady(m, Negotiate(s, n)) /\ Negotiate(s, n).hop = m.hop
        /\ Negotiate(s, n).st \in Found
    BY <1>1, <1>5, <1>6
  <1> QED BY <1>1, <1>2, <1>3, <1>4, <1>7 DEF n, k, l

\* A step of the negotiation keeps the session on its way.
LEMMA SettlingWay ==
    ASSUME NEW s \in Station, NEW m \in Session, WaySession(m, s), NEW tok
    PROVE  /\ WaySession(Negotiate(s, m), s)
           /\ WaySession(ProfileAnswer(m, tok, profile[s]), s)
           /\ WaySession(Starting(ProfileSettled(m, tok)), s)
           /\ WaySession([m EXCEPT !.work = tok], s)
           /\ WaySession(Negotiate(s, [m EXCEPT !.work = tok]), s)
  <1>1. WaySession(Negotiate(s, m), s) BY SettlingSteady, SteadyWay, FoundFacts
  <1>2. WaySession(ProfileAnswer(m, tok, profile[s]), s)
    BY SettlingSteady, SteadyWay, FoundFacts
  <1>3. WaySession(Starting(ProfileSettled(m, tok)), s)
    BY SettlingSteady, SteadyWay, FoundFacts
  <1>4. WaySession([m EXCEPT !.work = tok], s)
    BY SettlingSteady, SteadyWay, FoundFacts
  <1>5. WaySession(Negotiate(s, [m EXCEPT !.work = tok]), s)
    BY SettlingSteady, SteadyWay, FoundFacts
  <1> QED BY <1>1, <1>2, <1>3, <1>4, <1>5

\* An announcement is answered, or not.
LEMMA HaveMsgMoves ==
    ASSUME IInv, WayInv, NEW s \in Station, NEW f \in Frame, RxHaveMsg(s, f)
    PROVE  Moves /\ QueueMoves
  <1>1. sess[s] \in Session /\ WaySession(sess[s], s) BY OwnWay
  <1>2. CASE Reconfirm(s, f)
    <2> DEFINE frames == {FrameTo("RECEIVED", s,
                    IF sess[s].dir = "out" THEN f.src ELSE sess[s].hop)}
               \cup (IF sess[s].st = "delivered"
                     THEN {Receipt(s, f.src, ReceiptTtl)} ELSE {})
    <2>1. Become(s, sess[s]) /\ Send(s, frames) BY <1>2 DEF Reconfirm
    <2>2. \A g \in frames : g.type # "HAVE_MSG" BY Types
    <2> HIDE DEF frames
    <2> QED BY <1>1, <2>1, <2>2, BecomeMoves, QuietQueue
  <1>3. CASE ReAck(s)
    <2>1. \A g \in {AckHave(s, sess[s])} : g.type # "HAVE_MSG" BY Types
    <2> QED BY <1>3, <2>1, NothingMoves, QuietQueue DEF ReAck
  <1>4. CASE Answer(s, f)
    <2> DEFINE m == Receiver(s, f)
    <2>1. /\ m.dir = "in" /\ m.src = f.src /\ m.ttl = f.ttl /\ m.hops = <<>>
          /\ m.offers = {} /\ m.st = "acked"
      BY DEF Receiver, After, NewSession
    <2>2. f.src # Dest /\ s \in NextHops(f.src) /\ Paid(f.ttl, f.src)
      <3>1. WayFrame(f) BY HeadWay DEF RxHaveMsg, Heard, IInv, WayInv
      <3>2. f.type = "HAVE_MSG" /\ f.hop = s BY DEF RxHaveMsg, Heard
      <3> QED BY <3>1, <3>2, StationAssumption DEF WayFrame, Ways
    <2>3. Short(<<>>, f.src)
      <3>1. f.src \in Station /\ Len(<<>>) = 0 BY DEF Frame
      <3> QED BY <3>1 DEF Short, Levels
    <2>4. m \in Session
      BY ReceiverGood DEF RxHaveMsg, GoodSession
    <2> HIDE DEF m
    <2>5. WaySession(m, s) BY <2>1, <2>2, <2>3, FoundFacts DEF WaySession
    <2>6. WaySession(Enter(m, "failed"), s) BY <2>4, <2>5, FoundFacts, EnterWay
    <2>7. \/ /\ Become(s, Enter(m, "failed"))
             /\ \/ SendAndStop(s, {FrameTo("CANCEL", s, s)})
                \/ SendAndStop(s, {FrameTo("BUSY", s, s)})
          \/ Become(s, m) /\ Send(s, {AckHave(s, m)})
      BY <1>4 DEF Answer, m
    <2>8. Moves BY <2>5, <2>6, <2>7, BecomeMoves
    <2>9. /\ \A g \in {FrameTo("CANCEL", s, s)} : g.type # "HAVE_MSG"
          /\ \A g \in {FrameTo("BUSY", s, s)} : g.type # "HAVE_MSG"
          /\ \A g \in {AckHave(s, m)} : g.type # "HAVE_MSG"
      BY Types
    <2>10. QueueMoves BY <2>7, <2>9, QuietQueue
    <2> QED BY <2>8, <2>10
  <1> QED BY <1>2, <1>3, <1>4 DEF RxHaveMsg

\* An acknowledgement moves the announcing session on.
LEMMA AckMoves ==
    ASSUME IInv, WayInv, NEW s \in Station, NEW f \in Frame, RxAck(s, f)
    PROVE  Moves /\ QueueMoves
  <1> DEFINE m == Acknowledged(s, f)
             n == [Enter(m, "working") EXCEPT
                    !.work = Channel, !.att = 1, !.tx = "queued"]
  <1>1. sess[s] \in Session /\ WaySession(sess[s], s) BY OwnWay
  <1>2. /\ m \in Session /\ Steady(sess[s], m)
        /\ m.hop = sess[s].hop /\ m.st = sess[s].st
    <2>1. f.tok \in Token /\ profile[s] \in Token BY DEF Frame, IInv, RestInv
    <2> QED BY <1>1, <2>1 DEF Acknowledged, Steady, Session, Transport
  <1>3. WaySession(m, s) BY <1>1, <1>2, SteadyWay
  <1> HIDE DEF m
  <1>4. Steady(m, n) /\ n.hop = m.hop /\ n.st = "working"
    BY <1>2 DEF Steady, Enter, Session
  <1> HIDE DEF n
  <1>5. WaySession(n, s) BY <1>3, <1>4, FoundFacts, SteadyWay
  <1>6. \/ \E frames \in {{}, Cancelling(s)} : FailWith(s, m, frames)
        \/ (Become(s, Negotiate(s, m)) \/ Become(s, n)) /\ UNCHANGED txq
    BY DEF RxAck, m, n
  <1>7. \A frames \in {{}, Cancelling(s)} : \A g \in frames : g.type # "HAVE_MSG"
    BY AsideTypes
  <1>8. WaySession(Negotiate(s, m), s) BY <1>2, <1>3, SettlingWay
  <1> QED BY <1>2, <1>3, <1>5, <1>6, <1>7, <1>8, BecomeMoves, FailMoves, FailQueue,
             NothingQueued

\* A receipt for a forgotten session files the mail only.
LEMMA StrayMoves ==
    ASSUME IInv, WayInv, NEW s \in Station, NEW f \in Frame, RxStrayReceipt(s, f)
    PROVE  Moves /\ QueueMoves
  <1>1. UNCHANGED sess BY DEF RxStrayReceipt
  <1>2. \/ UNCHANGED mail
        \/ /\ mail[s].box # "none"
           /\ mail' = [mail EXCEPT ![s].box = "sent", ![s].status = "delivered"]
    BY DEF RxStrayReceipt
  <1>3. \A t \in Station : MailMoves(t) BY <1>2 DEF MailMoves, IInv, MailInv, Mail
  <1>4. Moves BY <1>1, <1>3 DEF Moves, WayInv, WaySessions
  <1> DEFINE g == Receipt(s, mail[s].hops[Len(mail[s].hops)], f.ttl - 1)
  <1>5. \A h \in {g} : h.type # "HAVE_MSG" BY Types
  <1>6. Send(s, {g}) \/ UNCHANGED txq BY DEF RxStrayReceipt
  <1> HIDE DEF g
  <1>7. QueueMoves BY <1>5, <1>6, QuietQueue
  <1> QED BY <1>4, <1>7

\* The frame handlers.
LEMMA ReceiveMoves ==
    ASSUME IInv, WayInv, NEW s \in Station, Receive(s)
    PROVE  /\ Moves /\ QueueMoves
           /\ learned' = learned \/ \E h \in Ways(s) : learned' = [learned EXCEPT ![s] = h]
  <1>1. /\ sess[s] \in Session /\ WaySession(sess[s], s)
        /\ \A st : MaySearch(st, s) => WaySession(Enter(sess[s], st), s)
    BY OwnWay
  <1>2. CASE Miss(s) BY <1>2, NothingMoves, NothingQueued DEF Miss
  <1> DEFINE f == Head(inbox[s])
  <1>3. SUFFICES ASSUME inbox[s] # <<>>,
            \/ RxRouteQuery(s, f) \/ RxRouteOffer(s, f) \/ RxHaveMsg(s, f)
            \/ RxAck(s, f) \/ RxWorkingOffer(s, f) \/ RxWorkingAck(s, f)
            \/ RxG2ProfileOffer(s, f) \/ RxG2ProfileAck(s, f) \/ RxBusy(s, f)
            \/ RxStart(s, f) \/ RxReceived(s, f) \/ RxStrayReceipt(s, f)
            \/ RxDelivered(s, f) \/ RxCancel(s, f)
        PROVE  /\ Moves /\ QueueMoves
               /\ learned' = learned
                  \/ \E h \in Ways(s) : learned' = [learned EXCEPT ![s] = h]
    BY <1>2 DEF Receive
  <1>4. f \in Frame /\ f.src \in Neighbours(s)
    BY <1>3, HeadWay DEF IInv, InboxInv, WayInv
  <1> HIDE DEF f
  <1>5. ASSUME NEW st \in Found, Become(s, Enter(sess[s], st)), UNCHANGED txq
        PROVE  Moves /\ QueueMoves
    BY <1>1, <1>5, FoundFacts, BecomeMoves, NothingQueued
  <1>6. ASSUME FailWith(s, sess[s], Cancelling(s)) PROVE Moves /\ QueueMoves
    BY <1>1, <1>6, AsideTypes, FailMoves, FailQueue
  <1>7. CASE RxRouteQuery(s, f)
    <2>1. \A g \in {FrameTo("ROUTE_OFFER", s, f.src)} : g.type # "HAVE_MSG" BY Types
    <2> QED BY <1>7, <2>1, NothingMoves, QuietQueue DEF RxRouteQuery
  <1>8. CASE RxRouteOffer(s, f)
    <2> DEFINE m == [sess[s] EXCEPT !.offers = @ \cup {f.src}]
    <2>1. /\ m.dir = sess[s].dir /\ m.src = sess[s].src /\ m.ttl = sess[s].ttl
          /\ m.hops = sess[s].hops /\ m.hop = sess[s].hop /\ m.st = sess[s].st
          /\ m.offers = sess[s].offers \cup {f.src}
      BY <1>1 DEF Session
    <2>2. /\ sess' = [sess EXCEPT ![s] = m] /\ UNCHANGED <<mail, txq, learned>>
      BY <1>8 DEF RxRouteOffer, IInv, SessInv, Session
    <2> HIDE DEF m
    <2>3. WaySession(m, s) BY <1>1, <1>4, <2>1 DEF WaySession
    <2>4. \A t \in Station : MailMoves(t) BY <2>2 DEF MailMoves
    <2> QED BY <2>2, <2>3, <2>4, OneMoves, NothingQueued
  <1>9. CASE RxWorkingOffer(s, f)
    <2>1. PICK tok : /\ Become(s, [sess[s] EXCEPT !.work = tok])
                     /\ Send(s, {Tokened("WORKING_ACK", s, f.src, tok)})
      BY <1>9 DEF RxWorkingOffer
    <2>2. \A g \in {Tokened("WORKING_ACK", s, f.src, tok)} : g.type # "HAVE_MSG"
      BY Types
    <2>3. WaySession([sess[s] EXCEPT !.work = tok], s) BY <1>1, SettlingWay
    <2>4. UNCHANGED learned BY <1>9 DEF RxWorkingOffer
    <2> QED BY <2>1, <2>2, <2>3, <2>4, BecomeMoves, QuietQueue
  <1>10. CASE RxWorkingAck(s, f)
    <2>1. WaySession(Negotiate(s, [sess[s] EXCEPT !.work = f.tok]), s)
      BY <1>1, SettlingWay
    <2> QED BY <1>10, <2>1, BecomeMoves, NothingQueued DEF RxWorkingAck
  <1>11. CASE RxG2ProfileOffer(s, f)
    <2> DEFINE n == ProfileAnswer(sess[s], f.tok, profile[s])
               g == Tokened("G2_PROFILE_ACK", s, sess[s].src, n.tok)
    <2>1. WaySession(n, s) BY <1>1, SettlingWay
    <2>2. \A h \in {g} : h.type # "HAVE_MSG" BY Types
    <2>3. /\ UNCHANGED learned
          /\ \/ FailWith(s, sess[s], Cancelling(s))
             \/ Become(s, n) /\ Send(s, {g})
      BY <1>11 DEF RxG2ProfileOffer
    <2> HIDE DEF n, g
    <2> QED BY <1>6, <2>1, <2>2, <2>3, BecomeMoves, QuietQueue
  <1>12. CASE RxG2ProfileAck(s, f)
    <2>1. WaySession(Starting(ProfileSettled(sess[s], f.tok)), s)
      BY <1>1, SettlingWay
    <2> QED BY <1>6, <1>12, <2>1, BecomeMoves, NothingQueued DEF RxG2ProfileAck
  <1>13. CASE RxBusy(s, f) BY <1>5, <1>13, FoundFacts DEF RxBusy
  <1>14. CASE RxStart(s, f)
    <2> DEFINE k == Enter(sess[s], "receiving")
    <2>1. PICK b \in BOOLEAN : Become(s, [k EXCEPT !.rx = b]) /\ UNCHANGED <<txq, learned>>
      BY <1>14 DEF RxStart
    <2>2. k \in Session /\ WaySession(k, s) BY <1>1, FoundFacts, EnterFacts
    <2> HIDE DEF k
    <2>3. k.left \in [Late -> Nat] BY <2>2 DEF Session
    <2>4. Alike(k, [k EXCEPT !.rx = b])
      <3>1. [k EXCEPT !.rx = b] = [k EXCEPT !.rx = b, !.left = k.left] BY <2>2 DEF Session
      <3> QED BY <2>2, <2>3, <3>1 DEF Alike, Session
    <2>5. WaySession([k EXCEPT !.rx = b], s) BY <2>2, <2>4, AlikeWay
    <2> QED BY <2>1, <2>5, BecomeMoves, NothingQueued
  <1>15. CASE RxReceived(s, f)
    <2>1. Confirmation(f.src) \in Found BY FoundFacts DEF Confirmation
    <2>2. f.src \in Ways(s) BY <1>1, <1>15 DEF RxReceived, Out, WaySession
    <2> QED BY <1>5, <1>15, <2>1, <2>2 DEF RxReceived
  <1>16. CASE RxDelivered(s, f)
    <2> DEFINE k == IF sess[s].st = "delivered" THEN sess[s] ELSE Enter(sess[s], "delivered")
               g == Receipt(s, sess[s].prev, f.ttl - 1)
    <2>1. PICK b : Become(s, [k EXCEPT !.rfwd = b])
      BY <1>16 DEF RxDelivered
    <2> DEFINE n == [k EXCEPT !.rfwd = b]
    <2>2. Steady(sess[s], n) /\ n.hop = sess[s].hop /\ n.st = "delivered"
      BY <1>1 DEF Steady, Enter, Session
    <2>3. UNCHANGED learned /\ (Send(s, {g}) \/ Send(s, {}))
      BY <1>16 DEF RxDelivered
    <2>4. \A h \in {g} : h.type # "HAVE_MSG" BY Types
    <2> HIDE DEF k, g, n
    <2>5. WaySession(n, s) BY <1>1, <2>2, FoundFacts, SteadyWay
    <2>6. Moves BY <2>1, <2>5, BecomeMoves DEF n
    <2> QED BY <2>3, <2>4, <2>6, QuietQueue
  <1>17. CASE RxCancel(s, f)
    BY <1>1, <1>17, FoundFacts, BecomeMoves, QuietQueue DEF RxCancel
  <1>18. CASE RxHaveMsg(s, f) BY <1>4, <1>18, HaveMsgMoves DEF RxHaveMsg
  <1>19. CASE RxAck(s, f) BY <1>4, <1>19, AckMoves DEF RxAck
  <1>20. CASE RxStrayReceipt(s, f) BY <1>4, <1>20, StrayMoves DEF RxStrayReceipt
  <1> QED BY <1>3, <1>7, <1>8, <1>9, <1>10, <1>11, <1>12, <1>13, <1>14, <1>15,
             <1>16, <1>17, <1>18, <1>19, <1>20

\* The handlers take one frame from the inbox.
LEMMA ReceiveTakes ==
    ASSUME NEW s \in Station, Receive(s)
    PROVE  inbox[s] # <<>> /\ inbox' = [inbox EXCEPT ![s] = Tail(@)]
  BY DEF Receive, Miss, RxRouteQuery, RxRouteOffer, RxHaveMsg, RxAck,
     RxWorkingOffer, RxWorkingAck, RxG2ProfileOffer, RxG2ProfileAck, RxBusy,
     RxStart, RxReceived, RxStrayReceipt, RxDelivered, RxCancel, Heard

\* The transmitter.
LEMMA TransmitterMoves ==
    ASSUME IInv, WayInv, NEW s \in Station, Transmitter(s)
    PROVE  Moves /\ QueueMoves /\ WayInboxes' /\ learned' = learned
  <1>1. /\ sess[s] \in Session /\ WaySession(sess[s], s)
        /\ \A st : MaySearch(st, s) => WaySession(Enter(sess[s], st), s)
    BY OwnWay
  <1>2. CASE Transmit(s)
    <2>1. PICK f \in txq[s] : txq' = [txq EXCEPT ![s] = @ \ {f}] /\ Air(s, f)
      BY <1>2 DEF Transmit
    <2>2. f \in Frame /\ f.src = s BY DEF IInv, TxqInv
    <2>3. WayInboxes' BY <2>1, <2>2, AirWay DEF IInv, WayInv, WayQueues
    <2>4. QueueMoves BY <2>1 DEF QueueMoves, IInv, TxqInv
    <2> QED BY <1>2, <2>3, <2>4, NothingMoves DEF Transmit
  <1>3. CASE TransmitGuarded(s)
    <2>1. PICK tx : sess' = [sess EXCEPT ![s].tx = tx] BY <1>3 DEF TransmitGuarded
    <2> DEFINE m == [sess[s] EXCEPT !.tx = tx]
    <2>2. Steady(sess[s], m) /\ m.st = sess[s].st /\ m.hop = sess[s].hop
      BY <1>1 DEF Steady, Session
    <2>3. sess' = [sess EXCEPT ![s] = m] BY <2>1 DEF IInv, SessInv, Session
    <2> HIDE DEF m
    <2>4. WaySession(m, s) BY <1>1, <2>2, SteadyWay
    <2>5. UNCHANGED <<mail, txq, learned>> /\ Air(s, Guarded(s))
      BY <1>3 DEF TransmitGuarded
    <2>6. Moves BY <2>3, <2>4, <2>5, OneMoves DEF MailMoves
    <2>7. Guarded(s) \in Frame
      <3>1. sess[s].tx = "queued" BY <1>3 DEF TransmitGuarded
      <3> QED BY <3>1, GuardedGood DEF GoodFrame
    <2>8. WayFrame(Guarded(s)) /\ Guarded(s).src = s BY GuardedWay DEF WayInv
    <2>9. WayInboxes' BY <2>5, <2>7, <2>8, AirWay DEF IInv, WayInv
    <2> QED BY <2>5, <2>6, <2>9, NothingQueued
  <1>4. CASE StartComplete(s)
    <2>1. Moves /\ QueueMoves
      BY <1>1, <1>4, FoundFacts, BecomeMoves, NothingQueued DEF StartComplete
    <2>2. UNCHANGED <<inbox, learned>> BY <1>4 DEF StartComplete, TimerRest, StationRest, AllButLate
    <2> QED BY <2>1, <2>2 DEF WayInv, WayInboxes
  <1> QED BY <1>2, <1>3, <1>4 DEF Transmitter

\* What the operator, the payload and the timers leave alone.
LEMMA NothingHeard ==
    ASSUME NEW s \in Station, Operator(s) \/ Discoverer(s) \/ Payload(s) \/ Tick(s)
    PROVE  UNCHANGED <<inbox, learned>>
  <1>1. CASE Operator(s) \/ Discoverer(s)
    BY <1>1 DEF Operator, SendQueued, AutoDeliver, Queue, Cancel, Approve,
       Reconfigure, Discoverer, DiscoveryResult, DiscoveryFailure, ResumeRoute,
       TimerRest, StationRest, AllButLate
  <1>2. CASE Payload(s)
    BY <1>2 DEF Payload, PayloadArrives, PayloadStrays, ReceiveFails, ReceiveCompletes,
       SendDone, LateFails, LateCompletes, Mistaken, TimerRest, StationRest, AllButLate
  <1>3. CASE Tick(s)
    BY <1>3 DEF Tick, AnnounceTimeout, BusyRetry, DiscoveryTimeout, WorkingTimeout,
       ProfileTimeout, StartTimeout, AckedTimeout, TransferTimeout, ReceiptTimeout,
       ConfirmTimeout, TimerRest, StationRest, AllButLate
  <1> QED BY <1>1, <1>2, <1>3

\* A station that starts again has forgotten everything but its mail.
LEMMA RestartMoves ==
    ASSUME IInv, WayInv, NEW s \in Station, Restart(s)
    PROVE  Moves /\ QueueMoves /\ WayInboxes' /\ WayLearned'
  <1>1. WaySession(NoSession, s)
    <2>1. NoSession.dir = "none" /\ NoSession.offers = {} /\ NoSession.st = "none"
      BY DEF NoSession, NewSession
    <2> QED BY <2>1, FoundFacts DEF WaySession
  <1>2. sess' = [sess EXCEPT ![s] = NoSession] /\ UNCHANGED mail BY DEF Restart
  <1>3. Moves BY <1>1, <1>2, OneMoves DEF MailMoves
  <1>4. QueueMoves BY DEF Restart, QueueMoves, IInv, TxqInv
  <1>5. WayInboxes'
    <2> SUFFICES ASSUME NEW t \in Station, NEW i \in 1..Len(inbox'[t])
                 PROVE  WayFrame(inbox'[t][i]) /\ inbox'[t][i].src \in Neighbours(t)
      BY DEF WayInboxes, WayFrame
    <2>1. CASE t = s
      <3>1. inbox'[t] = <<>> BY <2>1 DEF Restart, IInv, InboxInv
      <3> QED BY <3>1
    <2>2. CASE t # s
      <3>1. inbox'[t] = inbox[t] BY <2>2 DEF Restart, IInv, InboxInv
      <3> QED BY <3>1 DEF WayInv, WayInboxes
    <2> QED BY <2>1, <2>2
  <1>6. WayLearned'
    BY DEF Restart, WayInv, WayLearned, Ways, IInv, RestInv
  <1> QED BY <1>3, <1>4, <1>5, <1>6

\* Every step keeps the message on its ways.
LEMMA NextWay ==
    ASSUME IInv, WayInv, Next, Prompt'
    PROVE  WayInv'
  <1>1. PICK s \in Station :
            \/ Operator(s) \/ Discoverer(s) \/ Payload(s) \/ Tick(s)
            \/ Receive(s) \/ Transmitter(s) \/ Restart(s)
    BY DEF Next
  <1>2. IInv' /\ Holders \subseteq Holders' BY NextInv, HoldersStay DEF Good
  <1>3. Moves /\ QueueMoves /\ WayInboxes' /\ WayLearned'
    <2>1. CASE Operator(s) \/ Discoverer(s) \/ Payload(s) \/ Tick(s)
      <3>1. UNCHANGED <<inbox, learned>> BY <2>1, NothingHeard
      <3>2. WayInboxes' /\ WayLearned'
        BY <3>1 DEF WayInv, WayInboxes, WayLearned, WayFrame
      <3> QED BY <2>1, <3>2, OperatorMoves, PayloadMoves, TickMoves
    <2>2. CASE Receive(s)
      <3>1. WayInboxes' BY <2>2, ReceiveTakes, TailWay DEF IInv, WayInv
      <3>2. \/ learned' = learned
            \/ \E h \in Ways(s) : learned' = [learned EXCEPT ![s] = h]
        BY <2>2, ReceiveMoves
      <3>3. WayLearned' BY <3>2 DEF WayInv, WayLearned, IInv, RestInv
      <3> QED BY <2>2, <3>1, <3>3, ReceiveMoves
    <2>3. CASE Transmitter(s)
      BY <2>3, TransmitterMoves DEF WayInv, WayLearned
    <2> QED BY <1>1, <2>1, <2>2, <2>3, RestartMoves
  <1>4. WaySessions' BY <1>3 DEF Moves, WaySessions, WaySession
  <1>5. WayMails'
    <2> SUFFICES ASSUME NEW t \in Station PROVE WayMail(mail'[t], t, Holders')
      BY DEF WayMails, WayMail
    <2> QED BY <1>2, <1>3, MailWay DEF Moves, WayInv, WaySessions, WayMails
  <1>6. WayQueues' BY <1>3, QueueWay DEF WayInv
  <1> QED BY <1>3, <1>4, <1>5, <1>6 DEF WayInv

\* The message sets out paid for.
LEMMA InitWay == Init => WayInv
  <1> SUFFICES ASSUME Init PROVE WayInv OBVIOUS
  <1>1. ASSUME NEW s \in Station PROVE WaySession(sess[s], s)
    <2>1. sess[s] = NoSession BY DEF Init
    <2>2. NoSession.dir = "none" /\ NoSession.offers = {} /\ NoSession.st = "none"
      BY DEF NoSession, NewSession
    <2> QED BY <2>1, <2>2, FoundFacts DEF WaySession
  <1>2. ASSUME NEW s \in Station PROVE WayMail(mail[s], s, Holders)
    <2>1. InitTtl \in Nat /\ Len(<<>>) = 0 BY BoundAssumption
    <2>2. CASE s = Origin
      <3>1. /\ mail[s].box = "outbox" /\ mail[s].ttl = InitTtl
            /\ mail[s].hops = <<>> /\ s # Dest
        BY <2>2, StationAssumption DEF Init, NoMail
      <3>2. Paid(InitTtl, s) /\ Short(<<>>, s)
        BY <2>1, <2>2 DEF Paid, Short, Levels
      <3> QED BY <3>1, <3>2 DEF WayMail
    <2>3. CASE s # Origin
      <3>1. mail[s].box = "none" /\ mail[s].ttl = 0 /\ mail[s].hops = <<>>
        BY <2>3 DEF Init, NoMail
      <3> QED BY <2>1, <3>1 DEF WayMail
    <2> QED BY <2>2, <2>3
  <1>3. WayQueues /\ WayInboxes /\ WayLearned
    <2>1. \A s \in Station : txq[s] = {} /\ inbox[s] = <<>> /\ learned[s] = NoStation
      BY DEF Init
    <2>2. WayInboxes
      <3> SUFFICES ASSUME NEW s \in Station, NEW i \in 1..Len(inbox[s]) PROVE FALSE
        BY DEF WayInboxes
      <3>1. Len(inbox[s]) = 0 BY <2>1
      <3> QED BY <3>1
    <2> QED BY <2>1, <2>2 DEF WayQueues, WayLearned, Ways
  <1> QED BY <1>1, <1>2, <1>3 DEF WayInv, WaySessions, WayMails

\* The message keeps to the ways of the net and pays for every hop: whom a
\* station announces to, hears from and files the message after is a next hop
\* of one of the two, and its TTL tells how far it has come.
THEOREM MessageKeepsToWays == Spec => [](Prompt => WayInv)
  <1>1. IInv /\ WayInv /\ Prompt' /\ [Next]_vars => WayInv'
    <2>1. ASSUME WayInv, UNCHANGED vars PROVE WayInv'
      <3>1. Holders' = Holders BY <2>1 DEF vars, Holders, Holds
      <3> QED BY <2>1, <3>1 DEF vars, WayInv, WaySessions, WayMails, WayQueues,
                 WayInboxes, WayLearned
    <2> QED BY <2>1, NextWay
  <1>2. [Next]_vars /\ Prompt' => Prompt BY StaysPrompt
  <1> QED BY <1>1, <1>2, InitWay, Invariance, PTL DEF Spec

\* In a net whose next hops all lead closer to the destination the message is
\* always owned: of the stations that have it the closest one to the destination
\* has not filed it under Sent, for it would have a successor.
THEOREM MessageIsOwned ==
    ASSUME NEW distance, Approaches(distance)
    PROVE  Spec => []SomeoneResponsible
  <1>1. IInv /\ WayInv /\ Promise!Kept => SomeoneResponsible
    <2> SUFFICES ASSUME IInv, WayInv, Promise!Kept PROVE Owners # {}
      BY DEF SomeoneResponsible
    <2> DEFINE D == {distance[s] : s \in Holders}
    <2>1. Holders \subseteq Station /\ Origin \in Holders
      BY DEF Holders, Promise!Kept
    <2>2. D \subseteq Nat /\ D # {} BY <2>1 DEF Approaches
    <2>3. PICK d \in D : \A k \in D : ~(<<k, d>> \in OpToRel(<, Nat))
      <3> HIDE DEF D
      <3> QED BY <2>2, NatLessThanWellFounded, WFMin
    <2>4. PICK s \in Holders : d = distance[s] OBVIOUS
    <2>5. ASSUME NEW r \in Holders PROVE ~(distance[r] < distance[s])
      <3>1. distance[r] \in D /\ distance[r] \in Nat /\ distance[s] \in Nat
        BY <2>1, <2>2, <2>4
      <3> HIDE DEF D
      <3> SUFFICES ASSUME distance[r] < distance[s] PROVE FALSE OBVIOUS
      <3>2. <<distance[r], d>> \in {ss \in Nat \X Nat : ss[1] < ss[2]} BY <2>4, <3>1
      <3>3. <<distance[r], d>> \in OpToRel(<, Nat) BY <3>2 DEF OpToRel
      <3> QED BY <2>3, <3>1, <3>3
    <2>6. mail[s].box # "sent"
      <3> SUFFICES ASSUME mail[s].box = "sent" PROVE FALSE OBVIOUS
      <3>1. s # Dest BY <2>1 DEF IInv, MailInv, GoodMail
      <3>2. PICK r \in NextHops(s) \ {s} : r \in Holders
        BY <2>1 DEF WayInv, WayMails, WayMail
      <3>3. distance[r] < distance[s] BY <2>1, <3>1, <3>2 DEF Approaches
      <3> QED BY <2>5, <3>2, <3>3
    <2>7. mail[s] \in Mail /\ mail[s].box # "none"
      BY <2>1 DEF IInv, MailInv, Holders, Holds
    <2> QED BY <2>1, <2>6, <2>7 DEF Owners, Mail
  <1>2. ~Prompt => SomeoneResponsible BY DEF SomeoneResponsible
  <1> QED BY <1>1, <1>2, Invariance, MessageKeepsToWays, CopiesAreKept, PTL

\* In a net where all ways to a station take the same number of hops, the route
\* history and the TTL left never exceed the TTL the message started with.
THEOREM HopsArePaid ==
    ASSUME Levels # {}
    PROVE  Spec => [](Prompt => HopBudget)
  <1>1. IInv /\ WayInv => HopBudget
    <2> SUFFICES ASSUME IInv, WayInv, NEW s \in Station
                 PROVE  Len(mail[s].hops) + mail[s].ttl <= InitTtl
      BY DEF HopBudget
    <2>1. mail[s] \in Mail /\ WayMail(mail[s], s, Holders)
      BY DEF IInv, MailInv, WayInv, WayMails
    <2>2. mail[s].ttl \in Nat /\ Len(mail[s].hops) \in Nat /\ InitTtl \in Nat
      BY <2>1, BoundAssumption DEF Mail
    <2>3. CASE s = Dest BY <2>1, <2>3 DEF WayMail
    <2>4. CASE s # Dest /\ mail[s].box # "none"
      <3>1. PICK level \in Levels : TRUE OBVIOUS
      <3>2. mail[s].ttl + level[s] = InitTtl /\ Len(mail[s].hops) <= level[s]
        BY <2>1, <2>4 DEF WayMail, Paid, Short
      <3>3. level[s] \in Nat BY DEF Levels
      <3> QED BY <2>2, <3>2, <3>3
    <2>5. CASE mail[s].box = "none"
      <3>1. mail[s].ttl = 0 /\ Len(mail[s].hops) = 0 BY <2>1, <2>5 DEF WayMail
      <3> QED BY <2>2, <3>1
    <2> QED BY <2>3, <2>4, <2>5
  <1> QED BY <1>1, Invariance, MessageKeepsToWays, PTL

----------------------------------------------------------------------------
(* One sender and one receiver *)

\* The sender has been acknowledged, and the payload has not been sent.
Engaged(m) ==
    /\ m.dir = "out"
    /\ \/ m.st \in {"working", "g2-profile", "starting"}
       \/ m.st = "transferring" /\ ~m.sent
Later(m) == Engaged(m) /\ m.st # "working"
Begun(m) == Later(m) /\ m.st # "g2-profile"

\* The receiver has acknowledged, or even expects the payload.
Ready(m) == m.dir = "in" /\ m.st = "acked"
Takes(m) == m.dir = "in" /\ m.st = "receiving"
Meets(m) == Ready(m) \/ Takes(m)

\* The sender asks again for the confirmation of what it sent.
Asking(m, box) ==
    /\ m.dir = "out"
    /\ \/ m.st = "transferring" /\ m.sent
       \/ m.st = "delivered" /\ box = "sent"

Early == {"announcing", "discovery", "multihop-discovery", "route-approval", "waiting"}
Keyed == {"announcing", "working", "g2-profile", "starting"}
Shake == {"WORKING_OFFER", "G2_PROFILE_OFFER", "START_VARA"}
Agreement == {"ACK_HAVE", "WORKING_ACK", "G2_PROFILE_ACK"}

\* Whether the station offers a working channel, and which one is accepted.
Moving == "channel" \in WorkingOffer
Accepted == IF "accept" \in WorkingAccept THEN Channel ELSE Calling

SenderFits(u, p) ==
    /\ u.dir # "in"
    /\ u.dir = "out" => u.prev = NoStation
    /\ Engaged(u) => u.hop = Dest
    /\ u.dir = "out" /\ u.st \in Early => u.tok = NoToken /\ u.work = NoToken
    /\ u.dir = "out" /\ u.st = "working" => u.work = Channel /\ Moving
    /\ u.dir = "out" /\ u.st = "g2-profile" => u.trans = "ofdm_vhf" /\ u.tok = p
    /\ u.tx = "queued" => u.dir = "out" /\ u.st \in Keyed

AsksFit(A, u, box) ==
    \A f \in A : /\ f.type \notin Shake \cup {"DELIVERED"}
                 /\ f.type = "HAVE_MSG" => Asking(u, box)

ReceiverFits(v) ==
    /\ v.dir # "out" /\ v.tx = "done"
    /\ v.dir = "in" => v.src = Origin
    /\ Meets(v) => IF Moving THEN v.work \in {NoToken, Accepted} ELSE v.work = NoToken

\* The answers that wait at the receiver are those of its session, and the
\* sender is not ahead of them.
AnswersFit(B, u, v, Y) ==
    \A f \in B :
        /\ f.type = "ACK_HAVE" =>
            /\ Ready(v) /\ f = AckHave(Dest, v) /\ ~Engaged(u)
            /\ \A g \in Y : g.type \notin Shake
        /\ f.type = "WORKING_ACK" =>
            /\ Ready(v) /\ f = Tokened("WORKING_ACK", Dest, Origin, Accepted)
            /\ Moving /\ v.work = Accepted /\ ~Later(u)
            /\ \A g \in Y : g.type # "START_VARA"

HeardFits(X, u, v, B) ==
    \A f \in X :
        /\ f.type = "ACK_HAVE" =>
            /\ ~Engaged(u) /\ ~Takes(v) /\ (Ready(v) => f = AckHave(Dest, v))
            /\ \A g \in B : g.type # "ACK_HAVE"
        /\ f.type = "WORKING_ACK" =>
            /\ Moving /\ (Ready(v) => v.work = f.tok)
            /\ \A g \in B : g.type # "WORKING_ACK"

OffersFit(Y, u) ==
    \A f \in Y :
        /\ f.type = "HAVE_MSG" => ~Engaged(u)
        /\ f.type = "WORKING_OFFER" =>
            Moving /\ f.tok = Channel /\ (Engaged(u) => u.st = "working")
        /\ f.type = "G2_PROFILE_OFFER" => (Engaged(u) => u.st = "g2-profile")
        /\ f.type = "START_VARA" => (Engaged(u) => Begun(u))
        /\ f.type # "DELIVERED"

EndsFit(u, v) ==
    /\ Engaged(u) /\ ~Begun(u) => ~Takes(v)
    /\ Later(u) /\ Meets(v) => u.work = v.work

Fits(u, v, A, B, X, Y, p, box) ==
    /\ SenderFits(u, p) /\ AsksFit(A, u, box) /\ ReceiverFits(v)
    /\ AnswersFit(B, u, v, Y) /\ HeardFits(X, u, v, B) /\ OffersFit(Y, u)
    /\ EndsFit(u, v)

----------------------------------------------------------------------------
\* The sender is not, or no longer, engaged.
LEMMA SenderRests ==
    ASSUME NEW u, NEW v, NEW A, NEW B, NEW X, NEW Y, NEW p, NEW box,
           Fits(u, v, A, B, X, Y, p, box),
           NEW n, NEW C, NEW k, NEW b, NEW X2 \in SUBSET X, NEW Y2 \in SUBSET Y,
           ~Engaged(n), SenderFits(n, k), AsksFit(C, n, b)
    PROVE  Fits(n, v, C, B, X2, Y2, k, b)
  BY DEF Fits, AnswersFit, HeardFits, OffersFit, EndsFit, Later, Begun

\* What matters of a sender's session stays.
AlikeOut(m, n) ==
    /\ n.dir = m.dir /\ n.prev = m.prev /\ n.st = m.st /\ n.hop = m.hop
    /\ n.sent = m.sent /\ n.tok = m.tok /\ n.work = m.work /\ n.trans = m.trans
    /\ n.cap = m.cap

\* So does all that is known.
LEMMA SenderStays ==
    ASSUME NEW u, NEW v, NEW A, NEW B, NEW X, NEW Y, NEW p, NEW box,
           Fits(u, v, A, B, X, Y, p, box),
           NEW n, NEW C, NEW b, NEW X2 \in SUBSET X, NEW Y2 \in SUBSET Y,
           AlikeOut(u, n), n.tx = "queued" => n.dir = "out" /\ n.st \in Keyed,
           AsksFit(C, n, b)
    PROVE  Fits(n, v, C, B, X2, Y2, p, b)
  <1>1. SenderFits(n, p) BY DEF Fits, SenderFits, AlikeOut, Engaged
  <1>2. /\ Engaged(n) = Engaged(u) /\ Later(n) = Later(u) /\ Begun(n) = Begun(u)
        /\ n.st = u.st /\ n.work = u.work
    BY DEF AlikeOut, Engaged, Later, Begun
  <1> QED BY <1>1, <1>2 DEF Fits, AnswersFit, HeardFits, OffersFit, EndsFit

\* The receiver's session ends, and its answers are withdrawn.
LEMMA ReceiverEnds ==
    ASSUME NEW u, NEW v, NEW A, NEW B, NEW X, NEW Y, NEW p, NEW box,
           Fits(u, v, A, B, X, Y, p, box),
           NEW n, NEW C, NEW X2 \in SUBSET X, NEW Y2 \in SUBSET Y,
           ReceiverFits(n), ~Meets(n),
           \A f \in C : f.type \notin {"ACK_HAVE", "WORKING_ACK"}
    PROVE  Fits(u, n, A, C, X2, Y2, p, box)
  BY DEF Fits, AnswersFit, HeardFits, OffersFit, EndsFit, Meets

AlikeIn(m, n) ==
    /\ n.dir = m.dir /\ n.src = m.src /\ n.st = m.st /\ n.tx = m.tx
    /\ n.tok = m.tok /\ n.work = m.work /\ n.trans = m.trans /\ n.cap = m.cap

\* So does all that is known.
LEMMA ReceiverStays ==
    ASSUME NEW u, NEW v, NEW A, NEW B, NEW X, NEW Y, NEW p, NEW box,
           Fits(u, v, A, B, X, Y, p, box),
           NEW n, NEW C, NEW X2 \in SUBSET X, NEW Y2 \in SUBSET Y,
           AlikeIn(v, n), \A f \in C : f \in B \/ f.type \notin Agreement
    PROVE  Fits(u, n, A, C, X2, Y2, p, box)
  <1>1. /\ Ready(n) = Ready(v) /\ Takes(n) = Takes(v) /\ Meets(n) = Meets(v)
        /\ n.work = v.work /\ AckHave(Dest, n) = AckHave(Dest, v)
    BY DEF AlikeIn, Ready, Takes, Meets, AckHave
  <1>2. ReceiverFits(n) BY <1>1 DEF Fits, ReceiverFits, AlikeIn
  <1>3. \A f \in C : f.type \in Agreement => f \in B OBVIOUS
  <1>4. AnswersFit(C, u, n, Y2)
    BY <1>1, <1>3 DEF Fits, AnswersFit, Agreement
  <1>5. HeardFits(X2, u, n, C)
    BY <1>1, <1>3 DEF Fits, HeardFits, Agreement
  <1> QED BY <1>1, <1>2, <1>4, <1>5 DEF Fits, OffersFit, EndsFit

\* The receiver's session was acknowledged.
LEMMA SenderAcked ==
    ASSUME NEW u, NEW v, NEW A, NEW B, NEW X, NEW Y, NEW p, NEW box,
           Fits(u, v, A, B, X, Y, p, box),
           NEW f \in X, f.type = "ACK_HAVE", u.dir = "out", u.st = "announcing",
           NEW n, n.dir = "out", n.prev = u.prev, n.hop = Dest,
           \/ n.st = "working" /\ n.work = Channel /\ Moving
           \/ /\ n.st \in {"g2-profile", "starting"} /\ n.work = NoToken /\ ~Moving
              /\ n.st = "g2-profile" => n.trans = "ofdm_vhf" /\ n.tok = p
    PROVE  Fits(n, v, A, B, {}, {}, p, box)
  <1>1. SenderFits(n, p) BY DEF Fits, SenderFits, Early, Keyed
  <1>2. AsksFit(A, n, box) BY DEF Fits, AsksFit, Asking
  <1> QED
    BY <1>1, <1>2 DEF Fits, ReceiverFits, AnswersFit, HeardFits, OffersFit,
       EndsFit, Meets, Later

\* The working channel was agreed.
LEMMA SenderMoves ==
    ASSUME NEW u, NEW v, NEW A, NEW B, NEW X, NEW Y, NEW p, NEW box,
           Fits(u, v, A, B, X, Y, p, box),
           NEW f \in X, f.type = "WORKING_ACK", u.dir = "out", u.st = "working",
           NEW n, n.dir = "out", n.prev = u.prev, n.hop = Dest, n.work = f.tok,
           n.st \in {"g2-profile", "starting"},
           n.st = "g2-profile" => n.trans = "ofdm_vhf" /\ n.tok = p
    PROVE  Fits(n, v, A, B, {}, {}, p, box)
  <1>1. SenderFits(n, p) BY DEF Fits, SenderFits, Early, Keyed
  <1>2. AsksFit(A, n, box) BY DEF Fits, AsksFit, Asking
  <1>3. Engaged(u) /\ ~Begun(u) BY DEF Engaged, Begun, Later
  <1> QED
    BY <1>1, <1>2, <1>3 DEF Fits, ReceiverFits, AnswersFit, HeardFits, OffersFit,
       EndsFit, Meets, Later, Begun

\* The profile was agreed.
LEMMA SenderAgrees ==
    ASSUME NEW u, NEW v, NEW A, NEW B, NEW X, NEW Y, NEW p, NEW box,
           Fits(u, v, A, B, X, Y, p, box), u.dir = "out", u.st = "g2-profile",
           NEW n, n.dir = "out", n.prev = u.prev, n.hop = u.hop, n.work = u.work,
           n.st = "starting"
    PROVE  Fits(n, v, A, B, {}, {}, p, box)
  <1>1. Engaged(u) /\ Later(u) /\ ~Begun(u) BY DEF Engaged, Begun, Later
  <1>2. SenderFits(n, p) BY <1>1 DEF Fits, SenderFits, Early, Keyed
  <1>3. AsksFit(A, n, box) BY DEF Fits, AsksFit, Asking
  <1> QED
    BY <1>1, <1>2, <1>3 DEF Fits, AnswersFit, HeardFits, OffersFit, EndsFit

\* The payload is sent.
LEMMA SenderBegins ==
    ASSUME NEW u, NEW v, NEW A, NEW B, NEW X, NEW Y, NEW p, NEW box,
           Fits(u, v, A, B, X, Y, p, box), u.dir = "out", u.st = "starting",
           NEW n, n.dir = "out", n.prev = u.prev, n.hop = u.hop, n.work = u.work,
           n.st = "transferring", n.tx = "done"
    PROVE  Fits(n, v, A, B, X, Y, p, box)
  <1>1. Engaged(u) /\ Later(u) /\ Begun(u) BY DEF Engaged, Begun, Later
  <1>2. SenderFits(n, p) BY <1>1 DEF Fits, SenderFits, Early, Keyed
  <1>3. AsksFit(A, n, box) BY DEF Fits, AsksFit, Asking
  <1>4. (Engaged(n) => Begun(n)) /\ n.work = u.work BY DEF Begun, Later
  <1> QED
    BY <1>1, <1>2, <1>3, <1>4 DEF Fits, AnswersFit, HeardFits, OffersFit, EndsFit

\* An announcement opens the receiver's session.
LEMMA ReceiverAnswers ==
    ASSUME NEW u, NEW v, NEW A, NEW B, NEW X, NEW Y, NEW p, NEW box,
           Fits(u, v, A, B, X, Y, p, box),
           NEW f \in Y, f.type = "HAVE_MSG", ~Meets(v),
           NEW n, ReceiverFits(n), Ready(n)
    PROVE  Fits(u, n, A, B \cup {AckHave(Dest, n)}, {}, {}, p, box)
  <1>1. AckHave(Dest, n).type = "ACK_HAVE" BY Types
  <1>2. ~Engaged(u) /\ ~Later(u) /\ ~Begun(u) BY DEF Fits, OffersFit, Later, Begun
  <1> HIDE DEF AckHave
  <1> QED
    BY <1>1, <1>2 DEF Fits, AnswersFit, HeardFits, OffersFit, EndsFit, Meets

\* A repeated announcement is answered again.
LEMMA ReceiverRepeats ==
    ASSUME NEW u, NEW v, NEW A, NEW B, NEW X, NEW Y, NEW p, NEW box,
           Fits(u, v, A, B, X, Y, p, box),
           NEW f \in Y, f.type = "HAVE_MSG", Ready(v)
    PROVE  Fits(u, v, A, B \cup {AckHave(Dest, v)}, {}, {}, p, box)
  <1>1. AckHave(Dest, v).type = "ACK_HAVE" BY Types
  <1>2. ~Engaged(u) BY DEF Fits, OffersFit
  <1> QED BY <1>1, <1>2 DEF Fits, AnswersFit, HeardFits, OffersFit

\* The receiver settles the working channel.
LEMMA ReceiverMoves ==
    ASSUME NEW u, NEW v, NEW A, NEW B, NEW X, NEW Y, NEW p, NEW box,
           Fits(u, v, A, B, X, Y, p, box),
           NEW f \in Y, f.type = "WORKING_OFFER", Ready(v),
           NEW n, n.dir = v.dir, n.src = v.src, n.st = v.st, n.tx = v.tx,
           n.work = Accepted
    PROVE  Fits(u, n, A, B \cup {Tokened("WORKING_ACK", Dest, Origin, Accepted)},
                {}, {}, p, box)
  <1> DEFINE g == Tokened("WORKING_ACK", Dest, Origin, Accepted)
  <1>1. g.type = "WORKING_ACK" BY Types
  <1>2. Moving /\ ~Later(u) BY DEF Fits, OffersFit, Later
  <1>3. ReceiverFits(n) BY <1>2 DEF Fits, ReceiverFits
  <1>4. Ready(n) /\ ~Takes(n) BY DEF Ready, Takes
  <1> HIDE DEF g
  <1>5. AnswersFit(B \cup {g}, u, n, {})
    <2> SUFFICES ASSUME NEW h \in B \cup {g} PROVE AnswersFit({h}, u, n, {})
      BY DEF AnswersFit
    <2>1. CASE h = g BY <1>1, <1>2, <1>4, <2>1 DEF AnswersFit, g
    <2>2. CASE h \in B BY <1>2, <1>4, <2>2 DEF Fits, AnswersFit, Shake
    <2> QED BY <2>1, <2>2
  <1> QED BY <1>2, <1>3, <1>4, <1>5 DEF Fits, HeardFits, OffersFit, EndsFit, g

\* The receiver settles the profile.
LEMMA ReceiverAgrees ==
    ASSUME NEW u, NEW v, NEW A, NEW B, NEW X, NEW Y, NEW p, NEW box,
           Fits(u, v, A, B, X, Y, p, box),
           NEW f \in Y, f.type = "G2_PROFILE_OFFER", Ready(v),
           NEW n, n.dir = v.dir, n.src = v.src, n.st = v.st, n.tx = v.tx,
           n.work = v.work, NEW g, g.type = "G2_PROFILE_ACK"
    PROVE  Fits(u, n, A, B \cup {g}, {}, {}, p, box)
  <1>1. Ready(n) /\ ~Takes(n) /\ Meets(n) = Meets(v) BY DEF Ready, Takes, Meets
  <1>2. ReceiverFits(n) BY <1>1 DEF Fits, ReceiverFits
  <1>3. AnswersFit(B \cup {g}, u, n, {})
    BY <1>1 DEF Fits, AnswersFit, Shake
  <1> QED BY <1>1, <1>2, <1>3 DEF Fits, HeardFits, OffersFit, EndsFit

\* The receiver expects the payload.
LEMMA ReceiverStarts ==
    ASSUME NEW u, NEW v, NEW A, NEW B, NEW X, NEW Y, NEW p, NEW box,
           Fits(u, v, A, B, X, Y, p, box),
           NEW f \in Y, f.type = "START_VARA", Ready(v),
           NEW n, n.dir = v.dir, n.src = v.src, n.st = "receiving", n.tx = "done",
           n.work = v.work
    PROVE  Fits(u, n, A, B, {}, {}, p, box)
  <1>1. ReceiverFits(n) BY DEF Fits, ReceiverFits, Meets
  <1>2. Engaged(u) => Begun(u) BY DEF Fits, OffersFit
  <1>3. \A g \in B : g.type \notin {"ACK_HAVE", "WORKING_ACK"}
    BY DEF Fits, AnswersFit, Shake
  <1> QED
    BY <1>1, <1>2, <1>3 DEF Fits, AnswersFit, HeardFits, OffersFit, EndsFit, Meets

\* The receiver's frame goes on the air.
LEMMA ReceiverSends ==
    ASSUME NEW u, NEW v, NEW A, NEW B, NEW p, NEW box,
           Fits(u, v, A, B, {}, {}, p, box),
           NEW f \in B, NEW X \in SUBSET {f}
    PROVE  Fits(u, v, A, B \ {f}, X, {}, p, box)
  <1>1. HeardFits({f}, u, v, B \ {f})
    <2>1. CASE f.type = "ACK_HAVE"
      BY <2>1 DEF Fits, AnswersFit, HeardFits, Ready, Takes
    <2>2. CASE f.type = "WORKING_ACK"
      <3>1. f.tok = Accepted BY <2>2 DEF Fits, AnswersFit, Tokened, FrameTo
      <3> QED BY <2>2, <3>1 DEF Fits, AnswersFit, HeardFits
    <2> QED BY <2>1, <2>2 DEF HeardFits
  <1> QED BY <1>1 DEF Fits, AnswersFit, HeardFits

\* A frame that waits at the sender goes on the air.
LEMMA SenderSends ==
    ASSUME NEW u, NEW v, NEW A, NEW B, NEW p, NEW box,
           Fits(u, v, A, B, {}, {}, p, box),
           NEW f \in A, NEW Y \in SUBSET {f}
    PROVE  Fits(u, v, A \ {f}, B, {}, Y, p, box)
  <1>1. f.type \notin Shake \cup {"DELIVERED"} /\ (f.type = "HAVE_MSG" => ~Engaged(u))
    BY DEF Fits, AsksFit, Asking, Engaged
  <1>2. OffersFit(Y, u) BY <1>1 DEF OffersFit, Shake
  <1>3. AnswersFit(B, u, v, Y) BY <1>1 DEF Fits, AnswersFit, Shake
  <1> QED BY <1>2, <1>3 DEF Fits, AsksFit

\* The frame a sender waits behind goes on the air.
LEMMA SenderKeys ==
    ASSUME NEW u, NEW v, NEW A, NEW B, NEW p, NEW box,
           Fits(u, v, A, B, {}, {}, p, box), u.tx = "queued",
           NEW n, AlikeOut(u, n), n.tx # "queued", NEW f, NEW Y \in SUBSET {f},
           u.st = "announcing" => f.type = "HAVE_MSG",
           u.st = "working" => f.type = "WORKING_OFFER" /\ f.tok = u.work,
           u.st = "g2-profile" => f.type = "G2_PROFILE_OFFER",
           u.st = "starting" => f.type = "START_VARA"
    PROVE  Fits(n, v, A, B, {}, Y, p, box)
  <1>1. u.dir = "out" /\ u.st \in Keyed BY DEF Fits, SenderFits
  <1>2. AsksFit(A, n, box) BY DEF Fits, AsksFit, Asking, AlikeOut
  <1>3. Fits(n, v, A, B, {}, {}, p, box) BY <1>2, SenderStays
  <1>4. n.dir = "out" /\ n.st = u.st BY <1>1 DEF AlikeOut
  <1>5. OffersFit({f}, n)
    BY <1>1, <1>4 DEF Fits, SenderFits, OffersFit, Keyed, Engaged, Begun, Later
  <1>6. AnswersFit(B, n, v, {f})
    BY <1>1, <1>3, <1>4 DEF Fits, AnswersFit, Shake, Engaged, Later, Keyed
  <1> QED BY <1>3, <1>5, <1>6 DEF Fits, OffersFit, AnswersFit

----------------------------------------------------------------------------
(* What the two agree on while no profile is changed: p and q are theirs *)

BothHave(p, q) == p # NoToken /\ q # NoToken
\* ACK_HAVE settles the profile, or it has to be offered.
Matched(p, q) == BothHave(p, q) /\ p = q /\ IsSC(q)
Asked(p, q) == BothHave(p, q) /\ ~Matched(p, q)

\* What an acknowledged session starts with, and what an offer settles.
AtFirst(m, p, q) ==
    /\ m.trans = IF BothHave(p, q) THEN "ofdm_vhf" ELSE "vara_p2p"
    /\ m.tok = IF Matched(p, q) THEN q ELSE NoToken
SettledToken(p, q) == IF p = q THEN A500 ELSE Calling
AtLast(m, p, q) ==
    /\ m.trans = IF p = q THEN "ardop" ELSE "vara_p2p"
    /\ m.tok = SettledToken(p, q)

SenderCalm(u, p, q) ==
    /\ u.dir = "out" => u.cap = (p # NoToken)
    /\ u.dir = "out" /\ u.st = "working" => AtFirst(u, p, q)
    /\ u.dir = "out" /\ u.st = "g2-profile" => Asked(p, q)
    /\ Begun(u) =>
        /\ ~Asked(p, q) => AtFirst(u, p, q)
        /\ Asked(p, q) => IF p = q THEN AtLast(u, p, q) ELSE u.trans = "vara_p2p"

Announces(f, p) ==
    f.type = "HAVE_MSG" =>
        f.cap = (p # NoToken) /\ f.tok = IF p # NoToken /\ IsSC(p) THEN p ELSE NoToken

ReceiverCalm(v, p, q) ==
    Meets(v) => /\ v.cap = BothHave(p, q)
                /\ AtFirst(v, p, q) \/ (Asked(p, q) /\ AtLast(v, p, q))

AnswersCalm(B, u, v, Y, p, q) ==
    \A f \in B : f.type = "G2_PROFILE_ACK" =>
        /\ f = Tokened("G2_PROFILE_ACK", Dest, Origin, SettledToken(p, q))
        /\ Ready(v) /\ Asked(p, q) /\ AtLast(v, p, q) /\ ~Begun(u)
        /\ \A g \in Y : g.type # "START_VARA"

HeardCalm(X, v, B, p, q) ==
    \A f \in X :
        /\ f.type = "ACK_HAVE" =>
            /\ f.cap = BothHave(p, q)
            /\ IF Matched(p, q) THEN f.tok = q ELSE ~IsSC(f.tok)
        /\ f.type = "G2_PROFILE_ACK" =>
            /\ Asked(p, q) /\ f.tok = SettledToken(p, q)
            /\ Ready(v) => AtLast(v, p, q)
            /\ \A g \in B : g.type # "G2_PROFILE_ACK"

OffersCalm(Y, p, q) ==
    \A f \in Y : /\ Announces(f, p)
                 /\ f.type = "G2_PROFILE_OFFER" => f.tok = p /\ Asked(p, q)

EndsCalm(u, v, p, q) == Begun(u) /\ Asked(p, q) /\ Meets(v) => AtLast(v, p, q)

Calm(u, v, A, B, X, Y, p, q) ==
    /\ SenderCalm(u, p, q) /\ ReceiverCalm(v, p, q)
    /\ \A f \in A : Announces(f, p)
    /\ AnswersCalm(B, u, v, Y, p, q) /\ HeardCalm(X, v, B, p, q)
    /\ OffersCalm(Y, p, q) /\ EndsCalm(u, v, p, q)

\* The same of the settlement: the sender is not engaged.
LEMMA SenderRestsCalm ==
    ASSUME NEW u, NEW v, NEW A, NEW B, NEW X, NEW Y, NEW p, NEW q,
           Calm(u, v, A, B, X, Y, p, q),
           NEW n, NEW C, NEW X2 \in SUBSET X, NEW Y2 \in SUBSET Y,
           ~Engaged(n), n.dir = "out" => n.cap = (p # NoToken),
           \A f \in C : f \in A \/ Announces(f, p)
    PROVE  Calm(n, v, C, B, X2, Y2, p, q)
  <1>1. ~Begun(n) /\ SenderCalm(n, p, q) BY DEF SenderCalm, Begun, Later, Engaged
  <1> QED BY <1>1 DEF Calm, AnswersCalm, HeardCalm, OffersCalm, EndsCalm

\* What matters of the sender's session stays.
LEMMA SenderStaysCalm ==
    ASSUME NEW u, NEW v, NEW A, NEW B, NEW X, NEW Y, NEW p, NEW q,
           Calm(u, v, A, B, X, Y, p, q),
           NEW n, NEW C, NEW X2 \in SUBSET X, NEW Y2 \in SUBSET Y,
           AlikeOut(u, n), \A f \in C : f \in A \/ Announces(f, p)
    PROVE  Calm(n, v, C, B, X2, Y2, p, q)
  <1>1. Begun(n) = Begun(u) BY DEF Begun, Later, Engaged, AlikeOut
  <1>2. SenderCalm(n, p, q) BY <1>1 DEF Calm, SenderCalm, AtFirst, AtLast, AlikeOut
  <1> QED BY <1>1, <1>2 DEF Calm, AnswersCalm, HeardCalm, OffersCalm, EndsCalm

\* The receiver's session ends, and its answers are withdrawn.
LEMMA ReceiverEndsCalm ==
    ASSUME NEW u, NEW v, NEW A, NEW B, NEW X, NEW Y, NEW p, NEW q,
           Calm(u, v, A, B, X, Y, p, q),
           NEW n, NEW C, NEW X2 \in SUBSET X, NEW Y2 \in SUBSET Y,
           ~Meets(n), \A f \in C : f.type # "G2_PROFILE_ACK"
    PROVE  Calm(u, n, A, C, X2, Y2, p, q)
  BY DEF Calm, ReceiverCalm, AnswersCalm, HeardCalm, OffersCalm, EndsCalm, Meets

\* What matters of the receiver's session stays.
LEMMA ReceiverStaysCalm ==
    ASSUME NEW u, NEW v, NEW A, NEW B, NEW X, NEW Y, NEW p, NEW q,
           Calm(u, v, A, B, X, Y, p, q),
           NEW n, NEW C, NEW X2 \in SUBSET X, NEW Y2 \in SUBSET Y,
           AlikeIn(v, n), \A f \in C : f \in B \/ f.type \notin Agreement
    PROVE  Calm(u, n, A, C, X2, Y2, p, q)
  <1>1. Ready(n) = Ready(v) /\ Meets(n) = Meets(v)
    BY DEF AlikeIn, Ready, Takes, Meets
  <1>2. /\ AtFirst(n, p, q) = AtFirst(v, p, q) /\ AtLast(n, p, q) = AtLast(v, p, q)
        /\ n.cap = v.cap
    BY DEF AlikeIn, AtFirst, AtLast
  <1>3. \A f \in C : f.type \in Agreement => f \in B OBVIOUS
  <1> QED
    BY <1>1, <1>2, <1>3 DEF Calm, ReceiverCalm, AnswersCalm, HeardCalm, OffersCalm,
       EndsCalm, Agreement

\* The sender heard ACK_HAVE, and its profile alone settles what comes next.
LEMMA SenderAckedCalm ==
    ASSUME NEW u, NEW v, NEW A, NEW B, NEW X, NEW Y, NEW p, NEW q,
           Calm(u, v, A, B, X, Y, p, q),
           NEW n, n.dir = "out", n.cap = u.cap, u.dir = "out",
           AtFirst(n, p, q) \/ n.st = "g2-profile",
           n.st \in {"working", "g2-profile", "starting"},
           n.st = "g2-profile" => Asked(p, q), n.st = "starting" => ~Asked(p, q)
    PROVE  Calm(n, v, A, B, {}, {}, p, q)
  <1>1. SenderCalm(n, p, q) /\ (Begun(n) => n.st = "starting")
    BY DEF Calm, SenderCalm, Begun, Later, Engaged
  <1> QED BY <1>1 DEF Calm, AnswersCalm, HeardCalm, OffersCalm, EndsCalm

\* The sender heard which profile was settled.
LEMMA SenderAgreesCalm ==
    ASSUME NEW u, NEW v, NEW A, NEW B, NEW X, NEW Y, NEW p, NEW q,
           Calm(u, v, A, B, X, Y, p, q), ~Takes(v),
           NEW f \in X, f.type = "G2_PROFILE_ACK",
           NEW n, n.dir = "out", n.cap = u.cap, u.dir = "out", n.st = "starting",
           IF p = q THEN AtLast(n, p, q) ELSE n.trans = "vara_p2p"
    PROVE  Calm(n, v, A, B, {}, {}, p, q)
  <1>1. /\ Asked(p, q) /\ (Ready(v) => AtLast(v, p, q))
        /\ \A g \in B : g.type # "G2_PROFILE_ACK"
    BY DEF Calm, HeardCalm
  <1>2. SenderCalm(n, p, q) BY <1>1 DEF Calm, SenderCalm
  <1> QED BY <1>1, <1>2 DEF Calm, AnswersCalm, HeardCalm, OffersCalm, EndsCalm, Meets

\* The payload is sent as it was settled.
LEMMA SenderBeginsCalm ==
    ASSUME NEW u, NEW v, NEW A, NEW B, NEW X, NEW Y, NEW p, NEW q,
           Calm(u, v, A, B, X, Y, p, q), u.dir = "out", u.st = "starting",
           NEW n, n.dir = "out", n.cap = u.cap, n.trans = u.trans, n.tok = u.tok,
           n.st = "transferring"
    PROVE  Calm(n, v, A, B, X, Y, p, q)
  <1>1. Begun(u) BY DEF Begun, Later, Engaged
  <1>2. SenderCalm(n, p, q)
    BY <1>1 DEF Calm, SenderCalm, AtFirst, AtLast, Begun, Later
  <1> QED BY <1>1, <1>2 DEF Calm, AnswersCalm, HeardCalm, OffersCalm, EndsCalm

\* The receiver answers an announcement for its own profile.
LEMMA ReceiverAnswersCalm ==
    ASSUME NEW u, NEW v, NEW A, NEW B, NEW X, NEW Y, NEW p, NEW q, NEW box,
           Calm(u, v, A, B, X, Y, p, q), Fits(u, v, A, B, X, Y, p, box),
           NEW f \in Y, f.type = "HAVE_MSG", ~Meets(v),
           NEW n, Ready(n), n.cap = BothHave(p, q), AtFirst(n, p, q)
    PROVE  Calm(u, n, A, B \cup {AckHave(Dest, n)}, {}, {}, p, q)
  <1>1. AckHave(Dest, n).type = "ACK_HAVE" BY Types
  <1>2. ~Begun(u) BY DEF Fits, OffersFit, Later, Begun
  <1>3. \A g \in B \cup {AckHave(Dest, n)} : g.type # "G2_PROFILE_ACK"
    BY <1>1 DEF Calm, AnswersCalm, Meets
  <1> HIDE DEF AckHave
  <1> QED
    BY <1>1, <1>2, <1>3 DEF Calm, ReceiverCalm, AnswersCalm, HeardCalm, OffersCalm,
       EndsCalm

\* The receiver answers again.
LEMMA ReceiverRepeatsCalm ==
    ASSUME NEW u, NEW v, NEW A, NEW B, NEW X, NEW Y, NEW p, NEW q,
           Calm(u, v, A, B, X, Y, p, q), NEW n,
           Meets(n) => Meets(v) /\ n.trans = v.trans /\ n.tok = v.tok /\ n.cap = v.cap,
           Ready(v) => Ready(n),
           NEW g, g.type # "G2_PROFILE_ACK"
    PROVE  Calm(u, n, A, B \cup {g}, {}, {}, p, q)
  <1>1. Meets(n) => /\ AtFirst(n, p, q) = AtFirst(v, p, q)
                    /\ AtLast(n, p, q) = AtLast(v, p, q)
    BY DEF AtFirst, AtLast
  <1>2. Ready(n) => Meets(n) BY DEF Meets
  <1>3. AnswersCalm(B \cup {g}, u, n, {}, p, q)
    BY <1>1, <1>2 DEF Calm, AnswersCalm
  <1> QED BY <1>1, <1>3 DEF Calm, ReceiverCalm, HeardCalm, OffersCalm, EndsCalm

\* The receiver settles the profile that was offered.
LEMMA ReceiverAgreesCalm ==
    ASSUME NEW u, NEW v, NEW A, NEW B, NEW X, NEW Y, NEW p, NEW q, NEW box,
           Calm(u, v, A, B, X, Y, p, q), Fits(u, v, A, B, X, Y, p, box),
           NEW f \in Y, f.type = "G2_PROFILE_OFFER", Ready(v),
           NEW n, n.dir = v.dir, n.st = v.st, n.cap = v.cap, AtLast(n, p, q)
    PROVE  Calm(u, n, A, B \cup {Tokened("G2_PROFILE_ACK", Dest, Origin, n.tok)},
                {}, {}, p, q)
  <1>1. Asked(p, q) /\ ~Begun(u)
    BY DEF Calm, OffersCalm, Fits, OffersFit, Begun, Later, Engaged
  <1>2. n.tok = SettledToken(p, q) BY DEF AtLast
  <1>3. Ready(n) /\ Meets(n) /\ Meets(v) BY DEF Ready, Meets
  <1> QED
    BY <1>1, <1>2, <1>3 DEF Calm, ReceiverCalm, AnswersCalm, HeardCalm, OffersCalm,
       EndsCalm

\* The receiver expects the payload as it was settled.
LEMMA ReceiverStartsCalm ==
    ASSUME NEW u, NEW v, NEW A, NEW B, NEW X, NEW Y, NEW p, NEW q,
           Calm(u, v, A, B, X, Y, p, q),
           NEW f \in Y, f.type = "START_VARA", Ready(v),
           NEW n, n.trans = v.trans, n.tok = v.tok, n.cap = v.cap
    PROVE  Calm(u, n, A, B, {}, {}, p, q)
  <1>1. \A g \in B : g.type # "G2_PROFILE_ACK" BY DEF Calm, AnswersCalm
  <1>2. /\ AtFirst(n, p, q) = AtFirst(v, p, q) /\ AtLast(n, p, q) = AtLast(v, p, q)
        /\ Meets(v)
    BY DEF AtFirst, AtLast, Meets
  <1> QED
    BY <1>1, <1>2 DEF Calm, ReceiverCalm, AnswersCalm, HeardCalm, OffersCalm, EndsCalm

\* An answer goes on the air, and says what was settled.
LEMMA ReceiverSendsCalm ==
    ASSUME NEW u, NEW v, NEW A, NEW B, NEW p, NEW q, NEW box,
           p \notin {Calling, Channel}, q \notin {Calling, Channel},
           Calm(u, v, A, B, {}, {}, p, q), Fits(u, v, A, B, {}, {}, p, box),
           NEW f \in B, NEW X \in SUBSET {f}
    PROVE  Calm(u, v, A, B \ {f}, X, {}, p, q)
  <1>1. HeardCalm({f}, v, B \ {f}, p, q)
    <2>1. CASE f.type = "ACK_HAVE"
      <3>1. Meets(v) /\ f = AckHave(Dest, v) BY <2>1 DEF Fits, AnswersFit, Meets
      <3>2. f.cap = v.cap /\ f.tok = v.tok BY <3>1 DEF AckHave, Tokened, FrameTo
      <3> QED BY <2>1, <3>1, <3>2
        DEF Calm, ReceiverCalm, AtFirst, AtLast, SettledToken, Matched, Asked, IsSC,
            HeardCalm
    <2>2. CASE f.type = "G2_PROFILE_ACK"
      <3>1. f.tok = SettledToken(p, q)
        BY <2>2 DEF Calm, AnswersCalm, Tokened, FrameTo
      <3> QED BY <2>2, <3>1 DEF Calm, AnswersCalm, HeardCalm
    <2> QED BY <2>1, <2>2 DEF HeardCalm
  <1> QED BY <1>1 DEF Calm, AnswersCalm, HeardCalm

\* A frame of the sender goes on the air.
LEMMA SenderSendsCalm ==
    ASSUME NEW u, NEW v, NEW A, NEW B, NEW p, NEW q,
           Calm(u, v, A, B, {}, {}, p, q), NEW n, AlikeOut(u, n), NEW C \in SUBSET A,
           NEW f, NEW Y \in SUBSET {f}, Announces(f, p),
           f.type = "G2_PROFILE_OFFER" => f.tok = p /\ Asked(p, q),
           f.type = "START_VARA" => Begun(u)
    PROVE  Calm(n, v, C, B, {}, Y, p, q)
  <1>1. Calm(n, v, C, B, {}, {}, p, q) /\ Begun(n) = Begun(u)
    BY SenderStaysCalm DEF Begun, Later, Engaged, AlikeOut
  <1> QED BY <1>1 DEF Calm, AnswersCalm, OffersCalm

----------------------------------------------------------------------------
(* Whether the sender's modem suits the receiver                           *)

\* The receiver listens for VARA; it fell back to it, having agreed to more.
Listens(v) == Meets(v) /\ v.trans = "vara_p2p"
Fallen(v) == Listens(v) /\ v.cap

ReceiverSuits(v, q) ==
    /\ Meets(v) => IF v.cap THEN q # NoToken ELSE v.trans = "vara_p2p"
    /\ Fallen(v) => v.tok = Calling

EndsSuit(u, v, c) ==
    Engaged(u) /\ Listens(v) =>
        /\ ~v.cap => u.trans = "vara_p2p"
        /\ u.st = "working" =>
            u.trans = "vara_p2p" \/ (u.trans = "ofdm_vhf" /\ u.tok = NoToken)
        /\ c <= 1 /\ Begun(u) => u.trans = "vara_p2p"

\* An answer that takes a profile is no answer of a receiver that fell back.
AnswersSuit(B, v, Y, p, q) ==
    \A f \in B : f.type = "G2_PROFILE_ACK" /\ f.tok # Calling =>
        /\ ~Fallen(v) /\ f.tok = q
        /\ f.tok # A500 =>
            p = f.tok /\ \A g \in Y : g.type = "G2_PROFILE_OFFER" => g.tok = f.tok

HeardSuit(X, v) ==
    \A f \in X : f.type = "G2_PROFILE_ACK" /\ f.tok # Calling => ~Fallen(v)

OffersSuit(Y, v, p, q) ==
    \A g \in Y : g.type = "G2_PROFILE_OFFER" /\ Ready(v) /\ g.tok = q /\ IsSC(q)
                    => p = g.tok

\* c counts the changes of a profile.
Suits(u, v, B, X, Y, p, q, c) ==
    /\ ReceiverSuits(v, q) /\ EndsSuit(u, v, c)
    /\ c <= 1 =>
        AnswersSuit(B, v, Y, p, q) /\ HeardSuit(X, v) /\ OffersSuit(Y, v, p, q)

\* The sender is not engaged.
LEMMA SenderRestsSuits ==
    ASSUME NEW u, NEW v, NEW B, NEW X, NEW Y, NEW p, NEW q, NEW c,
           Suits(u, v, B, X, Y, p, q, c),
           NEW n, ~Engaged(n), NEW X2 \in SUBSET X, NEW Y2 \in SUBSET Y
    PROVE  Suits(n, v, B, X2, Y2, p, q, c)
  BY DEF Suits, EndsSuit, AnswersSuit, HeardSuit, OffersSuit

\* What matters of the sender's session stays.
LEMMA SenderStaysSuits ==
    ASSUME NEW u, NEW v, NEW B, NEW X, NEW Y, NEW p, NEW q, NEW c,
           Suits(u, v, B, X, Y, p, q, c),
           NEW n, AlikeOut(u, n), NEW X2 \in SUBSET X, NEW Y2 \in SUBSET Y
    PROVE  Suits(n, v, B, X2, Y2, p, q, c)
  <1>1. /\ Engaged(n) = Engaged(u) /\ Begun(n) = Begun(u)
        /\ n.st = u.st /\ n.trans = u.trans /\ n.tok = u.tok
    BY DEF Begun, Later, Engaged, AlikeOut
  <1> QED BY <1>1 DEF Suits, EndsSuit, AnswersSuit, HeardSuit, OffersSuit

\* The receiver's session ends.
LEMMA ReceiverEndsSuits ==
    ASSUME NEW u, NEW v, NEW B, NEW X, NEW Y, NEW p, NEW q, NEW c,
           Suits(u, v, B, X, Y, p, q, c),
           NEW n, ~Meets(n), NEW C, \A f \in C : f.type = "G2_PROFILE_ACK" => f \in B,
           NEW X2 \in SUBSET X, NEW Y2 \in SUBSET Y
    PROVE  Suits(u, n, C, X2, Y2, p, q, c)
  <1>1. ~Listens(n) /\ ~Fallen(n) /\ ~Ready(n) BY DEF Listens, Fallen, Meets
  <1> QED BY <1>1 DEF Suits, ReceiverSuits, EndsSuit, AnswersSuit, HeardSuit, OffersSuit

\* What matters of the receiver's session stays, or it starts to receive.
LEMMA ReceiverStaysSuits ==
    ASSUME NEW u, NEW v, NEW B, NEW X, NEW Y, NEW p, NEW q, NEW c,
           Suits(u, v, B, X, Y, p, q, c),
           NEW n, n.trans = v.trans, n.tok = v.tok, n.cap = v.cap,
           Meets(n) => Meets(v), Ready(n) => Ready(v),
           NEW C, \A f \in C : f.type = "G2_PROFILE_ACK" => f \in B,
           NEW X2 \in SUBSET X, NEW Y2 \in SUBSET Y
    PROVE  Suits(u, n, C, X2, Y2, p, q, c)
  <1>1. (Listens(n) => Listens(v)) /\ (Fallen(n) => Fallen(v)) BY DEF Listens, Fallen
  <1> QED BY <1>1 DEF Suits, ReceiverSuits, EndsSuit, AnswersSuit, HeardSuit, OffersSuit

\* The sender heard ACK_HAVE, which speaks for the receiver's session.
LEMMA SenderAckedSuits ==
    ASSUME NEW u, NEW v, NEW A, NEW B, NEW X, NEW Y, NEW p, NEW q, NEW box, NEW c,
           Suits(u, v, B, X, Y, p, q, c), Fits(u, v, A, B, X, Y, p, box),
           NEW f \in X, f.type = "ACK_HAVE",
           NEW m, m.trans = IF f.cap /\ p # NoToken THEN "ofdm_vhf" ELSE "vara_p2p",
           m.tok = IF f.cap /\ p # NoToken /\ IsSC(f.tok) /\ f.tok = p THEN f.tok
                   ELSE NoToken,
           NEW n, n.st \in {"working", "g2-profile", "starting"}, n.trans = m.trans,
           n.st = "working" => n.tok = m.tok,
           n.st = "starting" => m.trans # "ofdm_vhf" \/ (IsSC(p) /\ m.tok = p)
    PROVE  Suits(n, v, B, {}, {}, p, q, c)
  <1>1. Listens(v) => Ready(v) /\ f = AckHave(Dest, v)
    BY DEF Fits, HeardFits, Listens, Meets
  <1>2. Listens(v) => f.cap = v.cap /\ f.tok = v.tok
    BY <1>1 DEF AckHave, Tokened, FrameTo
  <1>3. Listens(v) => m.trans = "vara_p2p" \/ (m.trans = "ofdm_vhf" /\ m.tok = NoToken)
    BY <1>2 DEF Suits, ReceiverSuits, Fallen, IsSC
  <1>4. Listens(v) /\ ~v.cap => m.trans = "vara_p2p" BY <1>2
  <1>5. Begun(n) => n.st = "starting" BY DEF Begun, Later, Engaged
  <1>6. EndsSuit(n, v, c) BY <1>3, <1>4, <1>5 DEF EndsSuit, IsSC
  <1> QED BY <1>6 DEF Suits, AnswersSuit, HeardSuit, OffersSuit

\* The sender heard about the working channel.
LEMMA SenderMovesSuits ==
    ASSUME NEW u, NEW v, NEW B, NEW X, NEW Y, NEW p, NEW q, NEW c,
           Suits(u, v, B, X, Y, p, q, c), u.dir = "out", u.st = "working",
           NEW n, n.st \in {"g2-profile", "starting"}, n.trans = u.trans,
           n.st = "starting" => u.trans # "ofdm_vhf" \/ (IsSC(p) /\ u.tok = p)
    PROVE  Suits(n, v, B, {}, {}, p, q, c)
  <1>1. Engaged(u) BY DEF Engaged
  <1>2. Begun(n) => n.st = "starting" BY DEF Begun, Later, Engaged
  <1>3. EndsSuit(n, v, c) BY <1>1, <1>2 DEF Suits, EndsSuit, IsSC
  <1> QED BY <1>3 DEF Suits, AnswersSuit, HeardSuit, OffersSuit

\* The sender heard which profile was taken, or that none was.
LEMMA SenderAgreesSuits ==
    ASSUME NEW u, NEW v, NEW B, NEW X, NEW Y, NEW p, NEW q, NEW c,
           Suits(u, v, B, X, Y, p, q, c), u.dir = "out", u.st = "g2-profile",
           u.trans = "ofdm_vhf", p # Calling,
           NEW f \in X, f.type = "G2_PROFILE_ACK",
           NEW n, n.st = "starting", f.tok # p => n.trans = "vara_p2p"
    PROVE  Suits(n, v, B, {}, {}, p, q, c)
  <1>1. Engaged(u) BY DEF Engaged
  <1>2. Listens(v) => Fallen(v) BY <1>1 DEF Suits, EndsSuit, Fallen
  <1>3. c <= 1 /\ Fallen(v) => f.tok = Calling BY DEF Suits, HeardSuit
  <1>4. EndsSuit(n, v, c) BY <1>2, <1>3 DEF EndsSuit, Fallen
  <1> QED BY <1>4 DEF Suits, AnswersSuit, HeardSuit, OffersSuit

\* The payload is sent as it was settled.
LEMMA SenderBeginsSuits ==
    ASSUME NEW u, NEW v, NEW B, NEW X, NEW Y, NEW p, NEW q, NEW c,
           Suits(u, v, B, X, Y, p, q, c), u.dir = "out", u.st = "starting",
           NEW n, n.trans = u.trans, n.st = "transferring"
    PROVE  Suits(n, v, B, X, Y, p, q, c)
  <1>1. Engaged(u) /\ Begun(u) BY DEF Begun, Later, Engaged
  <1> QED BY <1>1 DEF Suits, EndsSuit, AnswersSuit, HeardSuit, OffersSuit

\* An announcement opens the receiver's session.
LEMMA ReceiverAnswersSuits ==
    ASSUME NEW u, NEW v, NEW A, NEW B, NEW X, NEW Y, NEW p, NEW q, NEW box, NEW c,
           Suits(u, v, B, X, Y, p, q, c), Fits(u, v, A, B, X, Y, p, box),
           NEW f \in Y, f.type = "HAVE_MSG",
           NEW n, n.cap => q # NoToken,
           n.trans = IF n.cap THEN "ofdm_vhf" ELSE "vara_p2p",
           NEW g, g.type # "G2_PROFILE_ACK"
    PROVE  Suits(u, n, B \cup {g}, {}, {}, p, q, c)
  <1>1. ~Engaged(u) /\ ~Fallen(n) BY DEF Fits, OffersFit, Fallen, Listens
  <1> QED
    BY <1>1 DEF Suits, ReceiverSuits, EndsSuit, AnswersSuit, HeardSuit, OffersSuit

\* The receiver answers again.
LEMMA ReceiverRepeatsSuits ==
    ASSUME NEW u, NEW v, NEW B, NEW X, NEW Y, NEW p, NEW q, NEW c,
           Suits(u, v, B, X, Y, p, q, c), NEW n, Meets(n) => Meets(v),
           n.trans = v.trans, n.tok = v.tok, n.cap = v.cap,
           NEW g, g.type # "G2_PROFILE_ACK"
    PROVE  Suits(u, n, B \cup {g}, {}, {}, p, q, c)
  <1>1. (Listens(n) => Listens(v)) /\ (Fallen(n) => Fallen(v)) BY DEF Listens, Fallen
  <1> QED
    BY <1>1 DEF Suits, ReceiverSuits, EndsSuit, AnswersSuit, HeardSuit, OffersSuit

\* The receiver takes the profile that was offered, or falls back.
LEMMA ReceiverAgreesSuits ==
    ASSUME NEW u, NEW v, NEW A, NEW B, NEW X, NEW Y, NEW p, NEW q, NEW box, NEW c,
           Suits(u, v, B, X, Y, p, q, c), Fits(u, v, A, B, X, Y, p, box),
           q \notin {Calling, Channel},
           NEW f \in Y, f.type = "G2_PROFILE_OFFER", Ready(v),
           f.tok = q \/ A500 \notin {q, f.tok},
           NEW n, n.dir = v.dir, n.st = v.st, n.cap = v.cap,
           IF v.trans # "vara_p2p" /\ q = f.tok
           THEN n.tok = f.tok /\ n.trans = IF f.tok = A500 THEN "ardop" ELSE v.trans
           ELSE n.tok = Calling /\ n.trans = "vara_p2p"
    PROVE  Suits(u, n, B \cup {Tokened("G2_PROFILE_ACK", Dest, Origin, n.tok)},
                 {}, {}, p, q, c)
  <1> DEFINE g == Tokened("G2_PROFILE_ACK", Dest, Origin, n.tok)
  <1>1. g.tok = n.tok BY DEF Tokened, FrameTo
  <1>2. Ready(n) /\ Meets(n) /\ Meets(v) BY DEF Ready, Meets
  <1>3. Engaged(u) => u.st = "g2-profile" /\ ~Begun(u) /\ u.trans = "ofdm_vhf"
    BY DEF Fits, OffersFit, SenderFits, Begun, Later, Engaged
  <1>4. CASE v.trans # "vara_p2p" /\ q = f.tok
    <2>1. v.cap /\ q # NoToken BY <1>2, <1>4 DEF Suits, ReceiverSuits
    <2>2. n.trans # "vara_p2p" /\ ~Listens(n) /\ ~Fallen(n)
      BY <1>4 DEF Listens, Fallen
    <2>3. c <= 1 /\ n.tok # A500 => p = n.tok
      BY <1>4, <2>1 DEF Suits, OffersSuit, IsSC
    <2>4. c <= 1 => AnswersSuit(B \cup {g}, n, {}, p, q)
      <3> HIDE DEF g
      <3> QED BY <1>1, <1>4, <2>2, <2>3 DEF Suits, AnswersSuit
    <2> QED BY <1>2, <2>1, <2>2, <2>4
            DEF Suits, ReceiverSuits, EndsSuit, HeardSuit, OffersSuit
  <1>5. CASE ~(v.trans # "vara_p2p" /\ q = f.tok)
    <2>1. n.tok = Calling /\ n.trans = "vara_p2p" BY <1>5
    <2>2. ReceiverSuits(n, q) BY <1>2, <2>1 DEF Suits, ReceiverSuits
    <2>3. EndsSuit(u, n, c)
      <3>1. ASSUME Engaged(u), ~v.cap PROVE FALSE
        BY <1>2, <1>3, <3>1 DEF Suits, ReceiverSuits, EndsSuit, Listens
      <3> QED BY <1>3, <3>1 DEF EndsSuit
    <2>4. ASSUME c <= 1, NEW h \in B, h.type = "G2_PROFILE_ACK", h.tok # Calling
          PROVE  ~Fallen(n) /\ h.tok = q /\ (h.tok # A500 => p = h.tok)
      <3>1. /\ ~Fallen(v) /\ h.tok = q
            /\ h.tok # A500 => p = h.tok /\ f.tok = h.tok
        BY <2>4 DEF Suits, AnswersSuit
      <3>2. ~n.cap
        <4> SUFFICES ASSUME n.cap PROVE FALSE OBVIOUS
        <4>1. v.trans # "vara_p2p" BY <1>2, <3>1 DEF Fallen, Listens
        <4>2. q # f.tok BY <1>5, <4>1
        <4>3. h.tok # A500 BY <3>1, <4>2
        <4> QED BY <3>1, <4>2, <4>3
      <3> QED BY <3>1, <3>2 DEF Fallen
    <2>5. c <= 1 => AnswersSuit(B \cup {g}, n, {}, p, q)
      <3> HIDE DEF g
      <3> QED BY <1>1, <2>1, <2>4 DEF AnswersSuit
    <2> QED BY <2>2, <2>3, <2>5 DEF Suits, HeardSuit, OffersSuit
  <1> QED BY <1>4, <1>5

\* An answer goes on the air.
LEMMA ReceiverSendsSuits ==
    ASSUME NEW u, NEW v, NEW B, NEW p, NEW q, NEW c,
           Suits(u, v, B, {}, {}, p, q, c), NEW f \in B, NEW X \in SUBSET {f}
    PROVE  Suits(u, v, B \ {f}, X, {}, p, q, c)
  BY DEF Suits, AnswersSuit, HeardSuit, OffersSuit

\* A frame of the sender goes on the air, and offers its own profile.
LEMMA SenderSendsSuits ==
    ASSUME NEW u, NEW v, NEW B, NEW p, NEW q, NEW c,
           Suits(u, v, B, {}, {}, p, q, c), NEW n, AlikeOut(u, n),
           NEW f, NEW Y \in SUBSET {f}, f.type = "G2_PROFILE_OFFER" => f.tok = p
    PROVE  Suits(n, v, B, {}, Y, p, q, c)
  <1>1. Suits(n, v, B, {}, {}, p, q, c) BY SenderStaysSuits
  <1> QED BY <1>1 DEF Suits, AnswersSuit, HeardSuit, OffersSuit

----------------------------------------------------------------------------
(* The two stations of a net of one hop *)

Frames(queue) == {queue[i] : i \in 1..Len(queue)}

OneInFlight ==
    /\ inbox[Origin] = <<>> \/ inbox[Dest] = <<>>
    /\ \A s \in Station : Len(inbox[s]) <= 1
FromHere == mail[Origin].prev = NoStation /\ mail[Origin].hops = <<>>
Fitting ==
    Fits(sess[Origin], sess[Dest], txq[Origin], txq[Dest], Frames(inbox[Origin]),
         Frames(inbox[Dest]), profile[Origin], mail[Origin].box)
Calming ==
    Calm(sess[Origin], sess[Dest], txq[Origin], txq[Dest], Frames(inbox[Origin]),
         Frames(inbox[Dest]), profile[Origin], profile[Dest])
Suiting ==
    Suits(sess[Origin], sess[Dest], txq[Dest], Frames(inbox[Origin]),
          Frames(inbox[Dest]), profile[Origin], profile[Dest], configs)
Configured == \A s \in Station : profile[s] \in Profiles[s]

Handshake ==
    /\ OneInFlight /\ FromHere /\ Configured
    /\ Fitting /\ (configs = 0 => Calming) /\ Suiting

\* What a step leaves behind.
Follows ==
    /\ Fits(sess'[Origin], sess'[Dest], txq'[Origin], txq'[Dest],
            Frames(inbox'[Origin]), Frames(inbox'[Dest]), profile'[Origin],
            mail'[Origin].box)
    /\ configs' = 0 =>
        Calm(sess'[Origin], sess'[Dest], txq'[Origin], txq'[Dest],
             Frames(inbox'[Origin]), Frames(inbox'[Dest]), profile'[Origin],
             profile'[Dest])
    /\ Suits(sess'[Origin], sess'[Dest], txq'[Dest], Frames(inbox'[Origin]),
             Frames(inbox'[Dest]), profile'[Origin], profile'[Dest], configs')

\* That is what the next state must satisfy.
LEMMA FollowsNext ==
    ASSUME Follows
    PROVE  Fitting' /\ (configs = 0 => Calming)' /\ Suiting'
  <1>1. Fitting'
    BY DEF Follows, Fitting, Fits, SenderFits, AsksFit, ReceiverFits, AnswersFit,
       HeardFits, OffersFit, EndsFit, Engaged, Later, Begun, Ready, Takes, Meets,
       Asking, AckHave, Tokened, FrameTo, Frames
  <1>2. (configs = 0 => Calming)'
    BY DEF Follows, Calming, Calm, SenderCalm, ReceiverCalm, AnswersCalm, HeardCalm,
       OffersCalm, EndsCalm, Announces, AtFirst, AtLast, Engaged, Later, Begun,
       Ready, Takes, Meets, Tokened, FrameTo, Frames, SettledToken, Asked, Matched,
       BothHave
  <1>3. Suiting'
    BY DEF Follows, Suiting, Suits, ReceiverSuits, EndsSuit, AnswersSuit, HeardSuit,
       OffersSuit, Listens, Fallen, Engaged, Later, Begun, Ready, Takes, Meets, Frames
  <1> QED BY <1>1, <1>2, <1>3

\* A queue of at most one frame.
LEMMA NothingLeft ==
    ASSUME NEW S, NEW queue \in Seq(S), Len(queue) = 0
    PROVE  queue = <<>>
  OBVIOUS

\* Its only frame is its head.
LEMMA OneFrame ==
    ASSUME NEW S, NEW queue \in Seq(S), Len(queue) <= 1, queue # <<>>
    PROVE  Len(queue) = 1 /\ Tail(queue) = <<>> /\ Head(queue) = queue[1]
  <1>1. Len(queue) \in Nat /\ Len(queue) # 0 OBVIOUS
  <1>2. Len(queue) = 1 BY <1>1
  <1>3. Tail(queue) \in Seq(S) /\ Len(Tail(queue)) = Len(queue) - 1 OBVIOUS
  <1>4. Len(Tail(queue)) = 0 BY <1>2, <1>3
  <1>5. Tail(queue) = <<>> BY <1>3, <1>4, NothingLeft
  <1>6. Head(queue) = queue[1] OBVIOUS
  <1> QED BY <1>2, <1>5, <1>6

\* What one frame makes of an inbox.
LEMMA FrameSets ==
    ASSUME NEW f
    PROVE  /\ Frames(<<>>) = {} /\ Frames(<<f>>) = {f}
           /\ Len(<<>>) <= 1 /\ Len(<<f>>) <= 1 /\ Append(<<>>, f) = <<f>>
  BY DEF Frames

\* A frame is handled while no other one is on its way.
LEMMA OneHandled ==
    ASSUME IInv, OneHopNet, OneInFlight, NEW s \in Station, inbox[s] # <<>>,
           inbox' = [inbox EXCEPT ![s] = Tail(@)]
    PROVE  /\ Head(inbox[s]) \in Frames(inbox[s])
           /\ Frames(inbox'[Origin]) = {} /\ Frames(inbox'[Dest]) = {}
           /\ OneInFlight'
  <1>1. \A t \in Station : inbox[t] \in Seq(Frame) BY DEF IInv, InboxInv
  <1>2. Station = {Origin, Dest} /\ Origin # Dest
    BY StationAssumption DEF OneHopNet
  <1>3. /\ Len(inbox[s]) = 1 /\ Tail(inbox[s]) = <<>>
        /\ Head(inbox[s]) = inbox[s][1]
    BY <1>1, OneFrame DEF OneInFlight
  <1>4. /\ inbox'[s] = Tail(inbox[s]) /\ \A t \in Station \ {s} : inbox'[t] = inbox[t]
    BY DEF IInv, InboxInv
  <1>5. \A t \in Station : inbox'[t] = <<>> BY <1>2, <1>3, <1>4 DEF OneInFlight
  <1>6. Head(inbox[s]) \in Frames(inbox[s])
    <2>1. 1 \in 1..1 OBVIOUS
    <2> QED BY <1>3, <2>1 DEF Frames
  <1> QED BY <1>2, <1>5, <1>6, FrameSets DEF OneInFlight

\* A frame goes on the air while no other one is on its way.
LEMMA OneAired ==
    ASSUME IInv, OneHopNet, NEW s \in Station, NEW f, Air(s, f)
    PROVE  /\ \A t \in Station : Frames(inbox[t]) = {}
           /\ Frames(inbox'[s]) = {}
           /\ \A t \in Station : Frames(inbox'[t]) \subseteq {f}
           /\ OneInFlight'
  <1>1. ASSUME NEW t \in Station PROVE inbox[t] = <<>>
    <2>1. inbox[t] \in Seq(Frame) /\ Len(inbox[t]) <= 0
      BY DEF IInv, InboxInv, Air, OneHopNet
    <2>2. Len(inbox[t]) \in Nat BY <2>1
    <2>3. Len(inbox[t]) = 0 BY <2>1, <2>2
    <2> QED BY <2>1, <2>3, NothingLeft
  <1>2. Station = {Origin, Dest} /\ Origin # Dest
    BY StationAssumption DEF OneHopNet
  <1>3. \A t \in Station : inbox'[t] = <<>> \/ (t # s /\ inbox'[t] = Append(<<>>, f))
    BY <1>1 DEF Air, Hears
  <1>4. OneInFlight' BY <1>2, <1>3, FrameSets DEF OneInFlight
  <1> QED BY <1>1, <1>3, <1>4, FrameSets

\* Only its own transmit queue is a station's business.
LEMMA QueuesApart ==
    ASSUME IInv, NEW s \in Station,
           \/ Operator(s) \/ Discoverer(s) \/ Payload(s) \/ Tick(s)
           \/ Receive(s) \/ Transmitter(s)
    PROVE  \A t \in Station \ {s} : txq'[t] = txq[t]
  <1>1. txq \in [Station -> SUBSET Frame] BY DEF IInv, TxqInv
  <1>2. SUFFICES UNCHANGED txq \/ \E queue : txq' = [txq EXCEPT ![s] = queue]
    BY <1>1
  <1>3. /\ \A frames : Send(s, frames) => \E queue : txq' = [txq EXCEPT ![s] = queue]
        /\ \A frames : SendAndStop(s, frames) =>
                \E queue : txq' = [txq EXCEPT ![s] = queue]
        /\ \A m, frames : FailWith(s, m, frames) =>
                \E queue : txq' = [txq EXCEPT ![s] = queue]
    BY DEF Send, SendAndStop, FailWith
  <1>4. CASE Operator(s)
    BY <1>3, <1>4 DEF Operator, SendQueued, AutoDeliver, Queue, Cancel, Approve,
       Reconfigure
  <1>5. CASE Discoverer(s)
    BY <1>3, <1>5 DEF Discoverer, DiscoveryResult, DiscoveryFailure, ResumeRoute
  <1>6. CASE Payload(s)
    <2>1. \A m : DeliverHere(s, m) \/ TakeCustody(s, m)
                    => \E queue : txq' = [txq EXCEPT ![s] = queue]
      BY <1>3 DEF DeliverHere, TakeCustody
    <2>2. CASE ReceiveCompletes(s)
      BY <2>1, <2>2 DEF ReceiveCompletes, Taken
    <2>3. CASE LateCompletes(s)
      BY <1>3, <2>1, <2>3 DEF LateCompletes, Taken
    <2> QED
      BY <1>3, <1>6, <2>2, <2>3 DEF Payload, PayloadArrives, PayloadStrays,
         ReceiveFails, SendDone, LateFails
  <1>7. CASE Tick(s)
    BY <1>3, <1>7 DEF Tick, AnnounceTimeout, BusyRetry, DiscoveryTimeout,
       WorkingTimeout, ProfileTimeout, StartTimeout, AckedTimeout, TransferTimeout,
       ReceiptTimeout, ConfirmTimeout, Retry
  <1>8. CASE Receive(s)
    <2> DEFINE f == Head(inbox[s])
    <2>1. CASE RxHaveMsg(s, f)
      BY <1>3, <2>1 DEF RxHaveMsg, Reconfirm, ReAck, Answer
    <2> HIDE DEF f
    <2> QED
      BY <1>3, <1>8, <2>1 DEF Receive, Miss, RxRouteQuery, RxRouteOffer, RxAck,
         RxWorkingOffer, RxWorkingAck, RxG2ProfileOffer, RxG2ProfileAck, RxBusy,
         RxStart, RxReceived, RxStrayReceipt, RxDelivered, RxCancel, f
  <1>9. CASE Transmitter(s)
    BY <1>3, <1>9 DEF Transmitter, Transmit, TransmitGuarded, StartComplete
  <1> QED BY <1>4, <1>5, <1>6, <1>7, <1>8, <1>9

\* Profiles are only changed by the operator, who is counted.
LEMMA SettingsStay ==
    ASSUME NEW s \in Station,
           \/ Operator(s) /\ ~Reconfigure(s)
           \/ Discoverer(s) \/ Payload(s) \/ Tick(s) \/ Receive(s) \/ Transmitter(s)
           \/ Restart(s)
    PROVE  UNCHANGED <<profile, configs>>
  <1>1. CASE (Operator(s) /\ ~Reconfigure(s)) \/ Discoverer(s)
    BY <1>1 DEF Operator, SendQueued, AutoDeliver, Queue, Cancel, Approve,
       Discoverer, DiscoveryResult, DiscoveryFailure, ResumeRoute,
       TimerRest, StationRest, AllButLate
  <1>2. CASE Payload(s)
    BY <1>2 DEF Payload, PayloadArrives, PayloadStrays, ReceiveFails, ReceiveCompletes,
       SendDone, LateFails, LateCompletes, Mistaken, TimerRest, StationRest, AllButLate
  <1>3. CASE Tick(s)
    BY <1>3 DEF Tick, AnnounceTimeout, BusyRetry, DiscoveryTimeout, WorkingTimeout,
       ProfileTimeout, StartTimeout, AckedTimeout, TransferTimeout, ReceiptTimeout,
       ConfirmTimeout, TimerRest, StationRest, AllButLate
  <1>4. CASE Receive(s)
    BY <1>4 DEF Receive, Miss, RxRouteQuery, RxRouteOffer, RxHaveMsg, RxAck,
       RxWorkingOffer, RxWorkingAck, RxG2ProfileOffer, RxG2ProfileAck, RxBusy,
       RxStart, RxReceived, RxStrayReceipt, RxDelivered, RxCancel, RxRest
  <1>5. CASE Transmitter(s)
    BY <1>5 DEF Transmitter, Transmit, TransmitGuarded, StartComplete, RxRest,
       TimerRest, StationRest, AllButLate
  <1>6. CASE Restart(s) BY <1>6 DEF Restart
  <1> QED BY <1>1, <1>2, <1>3, <1>4, <1>5, <1>6

----------------------------------------------------------------------------
(* The sender's steps *)

Known == IInv /\ WayInv /\ OneHopNet /\ Handshake

\* The two stations of the net.
LEMMA TwoStations ==
    ASSUME OneHopNet
    PROVE  /\ Station = {Origin, Dest} /\ Origin # Dest
           /\ Origin \in Station /\ Dest \in Station
           /\ Neighbours(Origin) \subseteq {Dest} /\ Neighbours(Dest) \subseteq {Origin}
  BY StationAssumption DEF OneHopNet, Neighbours

\* The sender never receives, and whoever sends has the message.
LEMMA TheSender ==
    ASSUME Known
    PROVE  /\ sess[Origin] \in Session /\ sess[Origin].dir # "in"
           /\ sess[Origin].dir = "out" =>
                sess[Origin].prev = NoStation /\ mail[Origin].box # "none"
  <1>1. sess[Origin] \in Session /\ GoodSession(sess[Origin], Origin, Holders)
    BY TwoStations DEF Known, IInv, SessInv
  <1> QED BY <1>1 DEF Known, Handshake, Fitting, Fits, SenderFits, GoodSession,
                      Holders, Holds

\* What else may happen while the sender does something.
Outgoing ==
    /\ sess'[Dest] = sess[Dest] /\ txq'[Dest] = txq[Dest]
    /\ UNCHANGED <<profile, configs>>
    /\ Frames(inbox'[Origin]) \subseteq Frames(inbox[Origin])
    /\ Frames(inbox'[Dest]) \subseteq Frames(inbox[Dest])

\* Frames that neither announce the message nor negotiate.
Calls == {"CANCEL", "ROUTE_QUERY", "ROUTE_OFFER"}

\* The sender's session goes on without, or until, an answer.
LEMMA OriginRests ==
    ASSUME Known, Outgoing, NEW n, sess'[Origin] = n, ~Engaged(n),
           n.dir = "out", n.prev = NoStation,
           \/ n.cap = (profile[Origin] # NoToken)
           \/ sess[Origin].dir = "out" /\ n.cap = sess[Origin].cap,
           n.st \in Early => n.tok = NoToken /\ n.work = NoToken,
           n.tx = "queued" => n.st \in Keyed,
           AsksFit(txq'[Origin], n, mail'[Origin].box),
           \A f \in txq'[Origin] : f \in txq[Origin] \/ Announces(f, profile[Origin])
    PROVE  Follows
  <1>1. SenderFits(n, profile[Origin]) BY DEF SenderFits, Engaged
  <1>2. Fits(sess'[Origin], sess'[Dest], txq'[Origin], txq'[Dest],
             Frames(inbox'[Origin]), Frames(inbox'[Dest]), profile'[Origin],
             mail'[Origin].box)
    BY <1>1, SenderRests DEF Known, Handshake, Fitting, Outgoing
  <1>3. ASSUME configs' = 0
        PROVE  Calm(sess'[Origin], sess'[Dest], txq'[Origin], txq'[Dest],
                    Frames(inbox'[Origin]), Frames(inbox'[Dest]), profile'[Origin],
                    profile'[Dest])
    <2>1. Calming BY <1>3 DEF Known, Handshake, Outgoing
    <2>2. n.cap = (profile[Origin] # NoToken)
      BY <2>1 DEF Calming, Calm, SenderCalm
    <2> QED BY <2>1, <2>2, SenderRestsCalm DEF Calming, Outgoing
  <1>4. Suits(sess'[Origin], sess'[Dest], txq'[Dest], Frames(inbox'[Origin]),
              Frames(inbox'[Dest]), profile'[Origin], profile'[Dest], configs')
    BY SenderRestsSuits DEF Known, Handshake, Suiting, Outgoing
  <1> QED BY <1>2, <1>3, <1>4 DEF Follows

\* It stays in all that matters.
LEMMA OriginStays ==
    ASSUME Known, Outgoing, NEW n, sess'[Origin] = n, AlikeOut(sess[Origin], n),
           n.tx = "queued" => n.dir = "out" /\ n.st \in Keyed,
           AsksFit(txq'[Origin], n, mail'[Origin].box),
           configs = 0 =>
             \A f \in txq'[Origin] : f \in txq[Origin] \/ Announces(f, profile[Origin])
    PROVE  Follows
  <1>1. Fits(sess'[Origin], sess'[Dest], txq'[Origin], txq'[Dest],
             Frames(inbox'[Origin]), Frames(inbox'[Dest]), profile'[Origin],
             mail'[Origin].box)
    BY SenderStays DEF Known, Handshake, Fitting, Outgoing
  <1>2. ASSUME configs' = 0
        PROVE  Calm(sess'[Origin], sess'[Dest], txq'[Origin], txq'[Dest],
                    Frames(inbox'[Origin]), Frames(inbox'[Dest]), profile'[Origin],
                    profile'[Dest])
    <2>1. configs = 0 BY <1>2 DEF Outgoing
    <2> QED BY <2>1, SenderStaysCalm DEF Known, Handshake, Calming, Outgoing
  <1>3. Suits(sess'[Origin], sess'[Dest], txq'[Dest], Frames(inbox'[Origin]),
              Frames(inbox'[Dest]), profile'[Origin], profile'[Dest], configs')
    BY SenderStaysSuits DEF Known, Handshake, Suiting, Outgoing
  <1> QED BY <1>1, <1>2, <1>3 DEF Follows

\* What the sender's session keeps from attempt to attempt.
Kin(m, n) ==
    /\ n.dir = m.dir /\ n.prev = m.prev /\ n.cap = m.cap
    /\ n.tok = m.tok /\ n.work = m.work

\* Entering a state, announcing and searching keep it.
LEMMA EnterKin ==
    ASSUME NEW m \in Session, NEW st, NEW h
    PROVE  /\ Kin(m, Enter(m, st)) /\ Enter(m, st).st = st
           /\ Enter(m, st).tx = "done"
           /\ Kin(m, Announce(m, h)) /\ Announce(m, h).st = "announcing"
           /\ Kin(m, Multihop(m)) /\ Multihop(m).st = "multihop-discovery"
           /\ Multihop(m).tx = "done"
  <1>1. Kin(m, Enter(m, st)) /\ Enter(m, st).st = st /\ Enter(m, st).tx = "done"
    BY DEF Kin, Enter, Session
  <1>2. Kin(m, Announce(m, h)) /\ Announce(m, h).st = "announcing"
    BY DEF Kin, Announce, Enter, Session
  <1>3. /\ Kin(m, Multihop(m)) /\ Multihop(m).st = "multihop-discovery"
        /\ Multihop(m).tx = "done"
    BY DEF Kin, Multihop, Enter, Session
  <1> QED BY <1>1, <1>2, <1>3

\* The sender's session is kin to what it was.
LEMMA OriginGoesOn ==
    ASSUME Known, Outgoing, sess[Origin].dir = "out",
           NEW n, sess'[Origin] = n, Kin(sess[Origin], n),
           \/ n.st \in Early /\ sess[Origin].st \in Early
           \/ n.st \notin Early /\ ~Engaged(n),
           n.tx = "queued" => n.st \in Keyed,
           \A f \in txq'[Origin] : f \in txq[Origin] \/ f.type \in Calls,
           \/ sess[Origin].st \in Early
           \/ Asking(n, mail'[Origin].box)
           \/ \A f \in txq'[Origin] : f.type # "HAVE_MSG"
    PROVE  Follows
  <1>1. n.dir = "out" /\ n.prev = NoStation /\ n.cap = sess[Origin].cap
    BY TheSender DEF Kin
  <1>2. ~Engaged(n) BY DEF Engaged, Early
  <1>3. n.st \in Early => n.tok = NoToken /\ n.work = NoToken
    BY DEF Known, Handshake, Fitting, Fits, SenderFits, Kin
  <1>4. sess[Origin].st \in Early => ~Asking(sess[Origin], mail[Origin].box)
    BY DEF Asking, Early
  <1>5. AsksFit(txq[Origin], sess[Origin], mail[Origin].box)
    BY DEF Known, Handshake, Fitting, Fits
  <1>6. /\ AsksFit(txq'[Origin], n, mail'[Origin].box)
        /\ \A f \in txq'[Origin] : f \in txq[Origin] \/ Announces(f, profile[Origin])
    BY <1>4, <1>5 DEF AsksFit, Calls, Shake, Announces
  <1> QED BY <1>1, <1>2, <1>3, <1>6, OriginRests

\* A station's session is replaced, and its queue grows or is withdrawn.
LEMMA Becomes ==
    ASSUME IInv, NEW s \in Station
    PROVE  /\ \A m : Become(s, m) => sess'[s] = m /\ mail'[s] = MailAfter(mail[s], m)
           /\ \A m, frames : FailWith(s, m, frames) =>
                /\ sess'[s] = Enter(m, "failed")
                /\ txq'[s] = Answers(txq[s] \cup frames)
           /\ \A frames : Send(s, frames) => txq'[s] = txq[s] \cup frames
           /\ \A frames : SendAndStop(s, frames) =>
                txq'[s] = Answers(txq[s] \cup frames)
  BY DEF IInv, SessInv, MailInv, TxqInv, Become, FailWith, Send, SendAndStop

\* What is withdrawn and what is kept.
LEMMA AnswersOnly ==
    ASSUME NEW frames
    PROVE  \A f \in Answers(frames) :
                f \in frames /\ f.type # "HAVE_MSG" /\ f.type \notin Agreement
  BY DEF Answers, RequestType, Agreement

\* A receipt or a refusal is no part of the negotiation.
LEMMA CallsOnly ==
    ASSUME NEW s, NEW m
    PROVE  \A f \in Cancelling(s) \cup Queries(s, m) : f.type \in Calls
  BY Types DEF Cancelling, Queries, Calls

\* Nothing else happens meanwhile.
LEMMA OriginAlone ==
    ASSUME Known,
           \/ Operator(Origin) /\ ~Reconfigure(Origin)
           \/ Discoverer(Origin) \/ Tick(Origin) \/ Receive(Origin)
           \/ ReceiveFails(Origin) \/ ReceiveCompletes(Origin) \/ SendDone(Origin)
           \/ StartComplete(Origin)
    PROVE  Outgoing
  <1>1. IInv /\ OneHopNet /\ OneInFlight BY DEF Known, Handshake
  <1>2. UNCHANGED <<profile, configs>> /\ txq'[Dest] = txq[Dest]
    BY <1>1, TwoStations, SettingsStay, QueuesApart DEF Payload, Transmitter
  <1>3. sess'[Dest] = sess[Dest]
    <2>1. CASE ReceiveFails(Origin) \/ ReceiveCompletes(Origin) \/ SendDone(Origin)
      <3>1. ~ReceiveFails(Origin) /\ ~ReceiveCompletes(Origin)
        BY TheSender DEF ReceiveFails, ReceiveCompletes, In
      <3> QED BY <1>1, <2>1, <3>1, TwoStations
              DEF IInv, SessInv, SendDone, Become, FailWith
    <2>2. CASE Orderly(Origin) BY <1>1, <2>2, TwoStations DEF Orderly
    <2> QED
      BY <1>1, <2>1, <2>2, TwoStations, OperatorOrderly, TickOrderly, ReceiveOrderly,
         TransmitterOrderly DEF Transmitter
  <1>4. /\ Frames(inbox'[Origin]) \subseteq Frames(inbox[Origin])
        /\ Frames(inbox'[Dest]) \subseteq Frames(inbox[Dest])
    <2>1. CASE Receive(Origin)
      BY <1>1, <2>1, TwoStations, ReceiveTakes, OneHandled
    <2>2. CASE ~Receive(Origin)
      <3>1. CASE StartComplete(Origin)
        BY <3>1 DEF StartComplete, TimerRest, StationRest, AllButLate
      <3> QED BY <2>2, <3>1, TwoStations, <1>1, NothingHeard DEF Payload
    <2> QED BY <2>1, <2>2
  <1> QED BY <1>2, <1>3, <1>4 DEF Outgoing

\* The message is queued: a new session of the sender.
LEMMA OriginQueues ==
    ASSUME Known, Outgoing, Queue(Origin)
    PROVE  Follows
  <1> DEFINE m == Leg(Origin, mail[Origin].prev, mail[Origin].ttl)
  <1>1. IInv /\ mail[Origin].prev = NoStation /\ Origin \in Station
    BY TwoStations DEF Known, Handshake, FromHere
  <1>2. /\ m \in Session /\ m.dir = "out" /\ m.prev = NoStation
        /\ m.cap = (profile[Origin] # NoToken)
        /\ m.tok = NoToken /\ m.work = NoToken
    <2> DEFINE new == NewSession("out", Origin, NoStation, mail[Origin].prev,
                                 mail[Origin].ttl, profile[Origin] # NoToken)
    <2>1. mail[Origin].ttl \in Nat BY <1>1 DEF IInv, MailInv, Mail
    <2>2. mail[Origin].prev \in Hop /\ sess[Origin] \in Session
      BY <1>1, Sessions DEF Hop
    <2>3. PICK prev, ttl : prev = mail[Origin].prev /\ ttl = mail[Origin].ttl
      OBVIOUS
    <2>4. PICK l, k : /\ l = Leg(Origin, prev, ttl)
                      /\ k = NewSession("out", Origin, NoStation, prev, ttl,
                                        profile[Origin] # NoToken)
      OBVIOUS
    <2>5. Alike(k, l) BY <1>1, <2>1, <2>2, <2>3, <2>4, LegSession
    <2>6. m = l /\ new = k BY <2>3, <2>4
    <2>7. /\ new.dir = "out" /\ new.prev = NoStation /\ new.tok = NoToken
          /\ new.work = NoToken /\ new.cap = (profile[Origin] # NoToken)
      BY <1>1 DEF NewSession
    <2> HIDE DEF new, m
    <2> QED BY <2>5, <2>6, <2>7 DEF Alike, Session
  <1>3. PICK n \in Launch(Origin, m, Announce(m, Dest)) :
            sess' = [sess EXCEPT ![Origin] = n] /\ Send(Origin, Queries(Origin, n))
    BY DEF Queue
  <1> HIDE DEF m
  <1>4. Kin(m, n) /\ n.st \in Early /\ (n.tx = "queued" => n.st \in Keyed)
    <2>1. \/ \E h : n = Announce(m, h)
          \/ n = Multihop(m) \/ n = Enter(m, "discovery")
      BY <1>3 DEF Launch
    <2> QED BY <1>2, <2>1, EnterKin DEF Early, Keyed
  <1>5. sess'[Origin] = n BY <1>1, <1>3 DEF IInv, SessInv
  <1>6. ~Engaged(n) BY <1>4 DEF Engaged, Early
  <1>7. \A f \in txq'[Origin] : f \in txq[Origin] \/ f.type \in Calls
    BY <1>1, <1>3, Becomes, CallsOnly
  <1>8. ~Asking(sess[Origin], mail[Origin].box)
    BY DEF Queue, Asking, Open, Terminal
  <1>9. AsksFit(txq[Origin], sess[Origin], mail[Origin].box)
    BY DEF Known, Handshake, Fitting, Fits
  <1>10. /\ AsksFit(txq'[Origin], n, mail'[Origin].box)
         /\ \A f \in txq'[Origin] : f \in txq[Origin] \/ Announces(f, profile[Origin])
    BY <1>7, <1>8, <1>9 DEF AsksFit, Calls, Shake, Announces
  <1> QED BY <1>2, <1>4, <1>5, <1>6, <1>10, OriginRests DEF Kin

\* The operator, the mail sweep and the discovery.
LEMMA OriginOperates ==
    ASSUME Known,
           (Operator(Origin) /\ ~Reconfigure(Origin)) \/ Discoverer(Origin)
    PROVE  Follows
  <1>1. Outgoing BY OriginAlone
  <1>2. IInv /\ Origin \in Station /\ sess[Origin] \in Session
    BY TwoStations, TheSender DEF Known
  <1>3. CASE SendQueued(Origin) \/ AutoDeliver(Origin)
    BY <1>1, <1>3, OriginQueues DEF SendQueued, AutoDeliver
  <1>4. ASSUME NEW n, Become(Origin, n), sess[Origin].dir = "out",
               Kin(sess[Origin], n), sess[Origin].st \in Early, n.st \in Early,
               n.tx = "queued" => n.st \in Keyed,
               UNCHANGED txq \/ SendAndStop(Origin, {})
        PROVE  Follows
    <2>1. \A f \in txq'[Origin] : f \in txq[Origin]
      <3>1. CASE SendAndStop(Origin, {})
        <4>1. txq'[Origin] = Answers(txq[Origin] \cup {}) BY <1>2, <3>1, Becomes
        <4> QED BY <4>1, AnswersOnly
      <3> QED BY <1>4, <3>1
    <2> QED BY <1>1, <1>2, <1>4, <2>1, Becomes, OriginGoesOn
  <1>5. CASE Cancel(Origin)
    <2> DEFINE n == Enter(sess[Origin], "cancelled")
    <2>1. sess[Origin].dir = "out" BY <1>2, <1>5, TheSender DEF Cancel, Open, Session
    <2>2. sess'[Origin] = n BY <1>2, <1>5, Becomes DEF Cancel
    <2>3. Kin(sess[Origin], n) /\ n.st = "cancelled" /\ n.tx = "done"
      BY <1>2, EnterKin
    <2>4. txq'[Origin] = Answers(txq[Origin]) \cup Cancelling(Origin)
      BY <1>2, <1>5 DEF Cancel, IInv, TxqInv
    <2>5. \A f \in txq'[Origin] :
            /\ f \in txq[Origin] \/ f.type \in Calls
            /\ f.type # "HAVE_MSG"
      BY <2>4, AnswersOnly, CallsOnly DEF Calls
    <2> HIDE DEF n
    <2>6. n.st \notin Early /\ ~Engaged(n) /\ n.tx # "queued"
      BY <2>3 DEF Early, Engaged
    <2> QED BY <1>1, <2>1, <2>2, <2>3, <2>5, <2>6, OriginGoesOn
  <1>6. CASE DiscoveryResult(Origin) \/ Approve(Origin)
    <2>1. /\ \/ Become(Origin, Enter(sess[Origin], "route-approval"))
             \/ \E h : Become(Origin, Announce(sess[Origin], h))
          /\ UNCHANGED txq /\ sess[Origin].dir = "out" /\ sess[Origin].st \in Early
      BY <1>6 DEF DiscoveryResult, Approve, Out, Early
    <2> QED BY <1>2, <1>4, <2>1, EnterKin DEF Early, Keyed
  <1>7. CASE DiscoveryFailure(Origin)
    <2> DEFINE n == Enter(sess[Origin], "failed")
    <2>1. sess[Origin].dir = "out" BY <1>7 DEF DiscoveryFailure, Out
    <2>2. sess'[Origin] = n /\ txq'[Origin] = Answers(txq[Origin] \cup {})
      BY <1>2, <1>7, Becomes DEF DiscoveryFailure
    <2>3. Kin(sess[Origin], n) /\ n.st = "failed" /\ n.tx = "done"
      BY <1>2, EnterKin
    <2> HIDE DEF n
    <2>4. n.st \notin Early /\ ~Engaged(n) /\ n.tx # "queued"
      BY <2>3 DEF Early, Engaged
    <2> QED BY <1>1, <2>1, <2>2, <2>3, <2>4, AnswersOnly, OriginGoesOn
  <1>8. CASE ResumeRoute(Origin)
    <2>1. /\ \E h : Become(Origin, Announce(sess[Origin], h))
          /\ SendAndStop(Origin, {}) /\ sess[Origin].dir = "out"
          /\ sess[Origin].st \in Early
      BY <1>8 DEF ResumeRoute, Out, Early
    <2> QED BY <1>2, <1>4, <2>1, EnterKin DEF Early, Keyed
  <1> QED BY <1>3, <1>5, <1>6, <1>7, <1>8 DEF Operator, Discoverer

\* The sender gives up.
LEMMA OriginFails ==
    ASSUME Known, Outgoing, NEW m \in Session, m.dir = "out", m.prev = NoStation,
           sess[Origin].dir = "out", m.cap = sess[Origin].cap,
           NEW frames, FailWith(Origin, m, frames), \A f \in frames : f.type \in Calls
    PROVE  Follows
  <1> DEFINE n == Enter(m, "failed")
  <1>1. IInv /\ Origin \in Station BY TwoStations DEF Known
  <1>2. sess'[Origin] = n /\ txq'[Origin] = Answers(txq[Origin] \cup frames)
    BY <1>1, Becomes
  <1>3. Kin(m, n) /\ n.st = "failed" /\ n.tx = "done" BY EnterKin
  <1> HIDE DEF n
  <1>4. ~Engaged(n) /\ n.st \notin Early BY <1>3 DEF Engaged, Early
  <1>5. \A f \in txq'[Origin] :
            /\ f.type # "HAVE_MSG"
            /\ f \in txq[Origin] \/ f.type \in Calls
    BY <1>2, AnswersOnly
  <1>6. AsksFit(txq[Origin], sess[Origin], mail[Origin].box)
    BY DEF Known, Handshake, Fitting, Fits
  <1>7. /\ AsksFit(txq'[Origin], n, mail'[Origin].box)
        /\ \A f \in txq'[Origin] : f \in txq[Origin] \/ Announces(f, profile[Origin])
    BY <1>5, <1>6 DEF AsksFit, Calls, Shake, Announces
  <1> QED BY <1>2, <1>3, <1>4, <1>7, OriginRests DEF Kin

\* So it does while it negotiates.
LEMMA OriginGivesUp ==
    ASSUME Known, Outgoing, sess[Origin].dir = "out",
           FailWith(Origin, sess[Origin], {})
           \/ FailWith(Origin, sess[Origin], Cancelling(Origin))
    PROVE  Follows
  <1>1. \A f \in Cancelling(Origin) : f.type \in Calls BY CallsOnly
  <1>2. sess[Origin] \in Session /\ sess[Origin].prev = NoStation BY TheSender
  <1> QED BY <1>1, <1>2, OriginFails

\* Nothing waits at the sender to be asked again.
LEMMA NothingAsked ==
    ASSUME Known, sess[Origin].st \notin {"transferring", "delivered"}
    PROVE  \A f \in txq[Origin] : f.type # "HAVE_MSG"
  BY DEF Known, Handshake, Fitting, Fits, AsksFit, Asking

\* The payload was sent, or not.
LEMMA OriginSent ==
    ASSUME Known, SendDone(Origin)
    PROVE  Follows
  <1> DEFINE m == sess[Origin]
             n == [m EXCEPT !.sent = TRUE, !.queries = 0]
  <1>1. Outgoing /\ IInv /\ Origin \in Station BY OriginAlone, TwoStations DEF Known
  <1>2. m \in Session /\ m.dir = "out" /\ m.st = "transferring" /\ m.prev = NoStation
    BY TheSender DEF SendDone, Out
  <1>3. \/ Become(Origin, n) /\ UNCHANGED txq
        \/ FailWith(Origin, m, Cancelling(Origin))
    BY DEF SendDone
  <1>4. CASE FailWith(Origin, m, Cancelling(Origin)) BY <1>1, <1>2, <1>4, OriginGivesUp
  <1>5. CASE Become(Origin, n) /\ UNCHANGED txq
    <2>1. sess'[Origin] = n BY <1>1, <1>5, Becomes
    <2>2. /\ n.dir = "out" /\ n.st = "transferring" /\ n.prev = NoStation
          /\ n.cap = m.cap /\ n.tx = m.tx /\ n.sent
      BY <1>2 DEF Session
    <2> HIDE DEF n
    <2>3. ~Engaged(n) /\ n.st \notin Early /\ n.tx # "queued"
      BY <1>2, <2>2 DEF Engaged, Early, Keyed, Known, Handshake, Fitting, Fits, SenderFits
    <2>4. AsksFit(txq'[Origin], n, mail'[Origin].box)
      BY <1>5, <2>2 DEF AsksFit, Asking, Known, Handshake, Fitting, Fits
    <2> QED BY <1>1, <1>2, <1>5, <2>1, <2>2, <2>3, <2>4, OriginRests
  <1> QED BY <1>3, <1>4, <1>5

\* The sender repeats the frame it waits for an answer to.
LEMMA OriginRetries ==
    ASSUME Known, Outgoing, sess[Origin].dir = "out",
           sess[Origin].st \in {"announcing", "working", "g2-profile"}, Retry(Origin)
    PROVE  Follows
  <1> DEFINE m == sess[Origin]
             n == [m EXCEPT !.att = @ + 1, !.tx = "queued"]
  <1>1. IInv /\ Origin \in Station /\ m \in Session
    BY TwoStations, TheSender DEF Known
  <1>2. sess'[Origin] = n /\ UNCHANGED txq BY <1>1, Becomes DEF Retry
  <1>3. AlikeOut(m, n) BY <1>1 DEF AlikeOut, Session
  <1> HIDE DEF n
  <1>4. n.dir = "out" /\ n.st \in Keyed BY <1>3 DEF AlikeOut, Keyed
  <1>5. \A f \in txq[Origin] : f.type # "HAVE_MSG" BY NothingAsked
  <1>6. AsksFit(txq'[Origin], n, mail'[Origin].box)
    BY <1>2, <1>5 DEF AsksFit, Known, Handshake, Fitting, Fits
  <1> QED BY <1>2, <1>3, <1>4, <1>6, OriginStays

\* It announces the message, or searches for a way, once more.
LEMMA OriginTriesOn ==
    ASSUME Known, Outgoing, sess[Origin].dir = "out", sess[Origin].st \in Early,
           NEW n, sess'[Origin] = n, Kin(sess[Origin], n), n.st \in Early \cup {"failed"},
           n.tx = "queued" => n.st \in Keyed,
           \A f \in txq'[Origin] : f \in txq[Origin] \/ f.type \in Calls
    PROVE  Follows
  <1>1. n.st = "failed" => n.st \notin Early /\ ~Engaged(n) BY DEF Early, Engaged
  <1> QED BY <1>1, OriginGoesOn

\* The next attempt of a sender is kin to the last.
LEMMA NextHopKin ==
    ASSUME NEW m \in Session, NEW now, NEW n \in NextHop(Origin, Spent(m), now)
    PROVE  /\ Kin(m, n) /\ n.st \in Early \cup {"failed"}
           /\ n.tx = "queued" => n.st \in Keyed
  <1> DEFINE k == Spent(m)
             l == [Announce(k, Backup[Origin]) EXCEPT !.triedBackup = TRUE]
             d == [Enter(k, "discovery") EXCEPT !.triedBackup = TRUE, !.offers = {}]
  <1>1. /\ Kin(m, l) /\ l.st = "announcing"
        /\ Kin(m, d) /\ d.st = "discovery" /\ d.tx = "done"
    BY DEF Spent, Announce, Enter, Kin, Session
  <1>2. /\ \A h : Kin(m, Announce(k, h)) /\ Announce(k, h).st = "announcing"
        /\ Kin(m, Multihop(k)) /\ Multihop(k).st = "multihop-discovery"
        /\ Multihop(k).tx = "done"
        /\ Kin(m, Enter(k, "failed")) /\ Enter(k, "failed").st = "failed"
        /\ Enter(k, "failed").tx = "done"
    BY DEF Spent, Announce, Multihop, Enter, Kin, Session
  <1>3. \/ n = l \/ n = d \/ n = Multihop(k) \/ n = Enter(k, "failed")
        \/ \E h : n = Announce(k, h)
    BY DEF NextHop
  <1> HIDE DEF k, l, d
  <1> QED BY <1>1, <1>2, <1>3 DEF Early, Keyed

\* What it announces again is the message as it was.
LEMMA AnnouncesAgain ==
    ASSUME Known, sess[Origin].dir = "out"
    PROVE  /\ configs = 0 => Announces(HaveMsg(Origin, sess[Origin]), profile[Origin])
           /\ HaveMsg(Origin, sess[Origin]).type = "HAVE_MSG"
  <1> DEFINE m == sess[Origin]
             f == HaveMsg(Origin, m)
  <1>1. /\ f.type = "HAVE_MSG" /\ f.cap = m.cap
        /\ f.tok = IF m.cap /\ IsSC(profile[Origin]) THEN profile[Origin] ELSE NoToken
    BY DEF HaveMsg, FrameTo
  <1>2. ASSUME configs = 0 PROVE m.cap = (profile[Origin] # NoToken)
    BY <1>2 DEF Known, Handshake, Calming, Calm, SenderCalm
  <1> HIDE DEF f
  <1> QED BY <1>1, <1>2 DEF Announces, f

\* The timers.
LEMMA OriginTicks ==
    ASSUME Known, Tick(Origin)
    PROVE  Follows
  <1> DEFINE m == sess[Origin]
  <1>1. Outgoing /\ IInv /\ Origin \in Station /\ m \in Session /\ m.dir # "in"
    BY OriginAlone, TwoStations, TheSender DEF Known
  <1>2. CASE AnnounceTimeout(Origin)
    <2>1. m.dir = "out" /\ m.st = "announcing" BY <1>2 DEF AnnounceTimeout, Out
    <2>2. CASE Retry(Origin) BY <1>1, <2>1, <2>2, OriginRetries
    <2>3. CASE ~Retry(Origin)
      <3>1. PICK now \in Evidence[Origin] : \E n \in NextHop(Origin, Spent(m), now) :
                /\ Become(Origin, n)
                /\ SendAndStop(Origin, {}) \/ Send(Origin, Queries(Origin, n))
        BY <1>2, <2>3 DEF AnnounceTimeout
      <3>2. PICK n \in NextHop(Origin, Spent(m), now) :
                /\ Become(Origin, n)
                /\ SendAndStop(Origin, {}) \/ Send(Origin, Queries(Origin, n))
        BY <3>1
      <3>3. sess'[Origin] = n BY <1>1, <3>2, Becomes
      <3>4. \A f \in txq'[Origin] : f \in txq[Origin] \/ f.type \in Calls
        <4>1. CASE SendAndStop(Origin, {})
          <5>1. txq'[Origin] = Answers(txq[Origin] \cup {}) BY <1>1, <4>1, Becomes
          <5> QED BY <5>1, AnswersOnly
        <4>2. CASE Send(Origin, Queries(Origin, n))
          <5>1. txq'[Origin] = txq[Origin] \cup Queries(Origin, n)
            BY <1>1, <4>2, Becomes
          <5> QED BY <5>1, CallsOnly
        <4> QED BY <3>2, <4>1, <4>2
      <3>5. /\ Kin(m, n) /\ n.st \in Early \cup {"failed"}
            /\ n.tx = "queued" => n.st \in Keyed
        BY <1>1, NextHopKin
      <3> QED BY <1>1, <2>1, <3>3, <3>4, <3>5, OriginTriesOn DEF Early
    <2> QED BY <2>2, <2>3
  <1>3. CASE BusyRetry(Origin)
    <2>1. /\ m.dir = "out" /\ m.st = "waiting" /\ UNCHANGED txq
          /\ Become(Origin, Announce(m, m.hop))
      BY <1>3 DEF BusyRetry, Out
    <2>2. sess'[Origin] = Announce(m, m.hop) BY <1>1, <2>1, Becomes
    <2>3. Kin(m, Announce(m, m.hop)) /\ Announce(m, m.hop).st = "announcing"
      BY <1>1, EnterKin
    <2> QED BY <1>1, <2>1, <2>2, <2>3, OriginTriesOn DEF Early, Keyed
  <1>4. CASE DiscoveryTimeout(Origin)
    <2> DEFINE b == [Announce(m, Dest) EXCEPT !.blind = TRUE]
    <2>1. /\ m.dir = "out" /\ m.st = "discovery" /\ UNCHANGED txq
          /\ Become(Origin, b) \/ \E h : Become(Origin, Announce(m, h))
      BY <1>4 DEF DiscoveryTimeout, Out
    <2>2. Kin(m, b) /\ b.st = "announcing" BY <1>1 DEF Announce, Enter, Kin, Session
    <2> HIDE DEF b
    <2>3. PICK n : Become(Origin, n) /\ (n = b \/ \E h : n = Announce(m, h)) BY <2>1
    <2>4. Kin(m, n) /\ n.st = "announcing" BY <1>1, <2>2, <2>3, EnterKin
    <2>5. sess'[Origin] = n BY <1>1, <2>3, Becomes
    <2> QED BY <1>1, <2>1, <2>4, <2>5, OriginTriesOn DEF Early, Keyed
  <1>5. CASE WorkingTimeout(Origin) \/ ProfileTimeout(Origin)
    <2>1. /\ m.dir = "out" /\ m.st \in {"announcing", "working", "g2-profile"}
          /\ \/ Retry(Origin)
             \/ FailWith(Origin, m, {}) \/ FailWith(Origin, m, Cancelling(Origin))
      BY <1>5 DEF WorkingTimeout, ProfileTimeout, Out
    <2> QED BY <1>1, <2>1, OriginRetries, OriginGivesUp
  <1>6. CASE StartTimeout(Origin) \/ TransferTimeout(Origin)
    <2>1. m.dir = "out" /\ FailWith(Origin, m, {})
      BY <1>1, <1>6 DEF StartTimeout, TransferTimeout, Out, In
    <2> QED BY <1>1, <2>1, OriginGivesUp
  <1>7. CASE ReceiptTimeout(Origin)
    <2> DEFINE n == [m EXCEPT !.queries = @ + 1]
    <2>1. /\ m.dir = "out" /\ m.st = "transferring" /\ m.sent
          /\ \/ FailWith(Origin, m, {})
             \/ Become(Origin, n) /\ Send(Origin, {HaveMsg(Origin, m)})
      BY <1>7 DEF ReceiptTimeout, Out
    <2>2. CASE FailWith(Origin, m, {}) BY <1>1, <2>1, <2>2, OriginGivesUp
    <2>3. CASE Become(Origin, n) /\ Send(Origin, {HaveMsg(Origin, m)})
      <3>1. /\ sess'[Origin] = n /\ txq'[Origin] = txq[Origin] \cup {HaveMsg(Origin, m)}
        BY <1>1, <2>3, Becomes
      <3>2. AlikeOut(m, n) /\ n.tx = m.tx BY <1>1 DEF AlikeOut, Session
      <3> HIDE DEF n
      <3>3. Asking(n, mail'[Origin].box) BY <2>1, <3>2 DEF Asking, AlikeOut
      <3>4. n.tx # "queued"
        BY <2>1, <3>2 DEF Known, Handshake, Fitting, Fits, SenderFits, Keyed
      <3>5. AsksFit(txq'[Origin], n, mail'[Origin].box)
        BY <2>1, <3>1, <3>3, AnnouncesAgain
        DEF AsksFit, Shake, Known, Handshake, Fitting, Fits
      <3>6. configs = 0 =>
                \A f \in txq'[Origin] : f \in txq[Origin] \/ Announces(f, profile[Origin])
        BY <2>1, <3>1, AnnouncesAgain
      <3> QED BY <1>1, <3>1, <3>2, <3>4, <3>5, <3>6, OriginStays
    <2> QED BY <2>1, <2>2, <2>3
  <1>8. CASE ConfirmTimeout(Origin)
    <2>1. /\ m.dir = "out" /\ m.st = "confirmed" /\ UNCHANGED txq
          /\ Become(Origin, Enter(m, "forwarded"))
      BY <1>8 DEF ConfirmTimeout, Out
    <2>2. sess'[Origin] = Enter(m, "forwarded") BY <1>1, <2>1, Becomes
    <2>3. /\ Kin(m, Enter(m, "forwarded")) /\ Enter(m, "forwarded").st = "forwarded"
          /\ Enter(m, "forwarded").tx = "done"
      BY <1>1, EnterKin
    <2>4. \A f \in txq[Origin] : f.type # "HAVE_MSG" BY <2>1, NothingAsked
    <2> QED BY <1>1, <2>1, <2>2, <2>3, <2>4, OriginGoesOn DEF Early, Engaged
  <1>9. ~AckedTimeout(Origin) BY <1>1 DEF AckedTimeout, In
  <1> QED BY <1>2, <1>3, <1>4, <1>5, <1>6, <1>7, <1>8, <1>9 DEF Tick

\* What the sender hears is the receiver's, and it is the only frame on its way.
LEMMA OriginHears ==
    ASSUME Known, inbox[Origin] # <<>>, inbox' = [inbox EXCEPT ![Origin] = Tail(@)],
           NEW f, f = Head(inbox[Origin])
    PROVE  /\ f \in Frames(inbox[Origin]) /\ f.src = Dest /\ f.type # "HAVE_MSG"
           /\ Frames(inbox'[Origin]) = {} /\ Frames(inbox'[Dest]) = {}
  <1>1. f \in Frames(inbox[Origin]) /\ Frames(inbox'[Origin]) = {}
        /\ Frames(inbox'[Dest]) = {}
    BY TwoStations, OneHandled DEF Known, Handshake
  <1>2. WayFrame(f) /\ f.src \in Neighbours(Origin)
    BY TwoStations, HeadWay DEF Known, IInv, WayInv
  <1>3. f.src = Dest BY <1>2, TwoStations DEF Known
  <1> QED BY <1>1, <1>2, <1>3 DEF WayFrame

\* What an acknowledgement says, and how the negotiation goes on.
LEMMA AckFacts ==
    ASSUME NEW f, sess[Origin] \in Session
    PROVE  LET u == sess[Origin]
               p == profile[Origin]
               m == Acknowledged(Origin, f)
               agreed == f.cap /\ p # NoToken
           IN /\ m.dir = u.dir /\ m.prev = u.prev /\ m.cap = u.cap /\ m.hop = u.hop
              /\ m.work = u.work /\ m.st = u.st
              /\ m.trans = IF agreed THEN "ofdm_vhf" ELSE "vara_p2p"
              /\ m.tok = IF agreed /\ IsSC(f.tok) /\ f.tok = p THEN f.tok ELSE u.tok
  BY DEF Acknowledged, Session

\* What the sender does once the modem is chosen.
LEMMA NegotiateFacts ==
    ASSUME NEW m \in Session
    PROVE  LET n == Negotiate(Origin, m)
               p == profile[Origin]
           IN /\ n.dir = m.dir /\ n.prev = m.prev /\ n.cap = m.cap /\ n.hop = m.hop
              /\ n.work = m.work /\ n.trans = m.trans
              /\ IF m.trans # "ofdm_vhf" \/ (IsSC(p) /\ m.tok = p)
                 THEN n.st = "starting" /\ n.tok = m.tok
                 ELSE n.st = "g2-profile" /\ n.tok = p
  BY DEF Negotiate, Starting, Enter, Session

\* A profile that was not settled is offered.
LEMMA OfferedIfAsked ==
    ASSUME NEW m \in Session, NEW q, AtFirst(m, profile[Origin], q)
    PROVE  LET n == Negotiate(Origin, m)
               p == profile[Origin]
           IN /\ n.st = "starting" => AtFirst(n, p, q) /\ ~Asked(p, q)
              /\ n.st = "g2-profile" => Asked(p, q)
  <1> DEFINE n == Negotiate(Origin, m)
             p == profile[Origin]
  <1>1. /\ n.trans = m.trans
        /\ IF m.trans # "ofdm_vhf" \/ (IsSC(p) /\ m.tok = p)
           THEN n.st = "starting" /\ n.tok = m.tok
           ELSE n.st = "g2-profile" /\ n.tok = p
    BY NegotiateFacts
  <1> SUFFICES /\ n.st = "starting" => AtFirst(n, p, q) /\ ~Asked(p, q)
               /\ n.st = "g2-profile" => Asked(p, q)
    OBVIOUS
  <1> HIDE DEF n
  <1>2. CASE m.trans # "ofdm_vhf" \/ (IsSC(p) /\ m.tok = p)
    BY <1>1, <1>2 DEF AtFirst, Asked, Matched, BothHave, IsSC
  <1>3. CASE ~(m.trans # "ofdm_vhf" \/ (IsSC(p) /\ m.tok = p))
    BY <1>1, <1>3 DEF AtFirst, Asked, Matched, BothHave, IsSC
  <1> QED BY <1>2, <1>3

\* A frame moves the negotiation on.
LEMMA OriginMovesOn ==
    ASSUME Known, Receive(Origin), NEW n, Become(Origin, n), UNCHANGED txq,
           mail'[Origin].box = mail[Origin].box,
           Fits(n, sess[Dest], txq[Origin], txq[Dest], {}, {}, profile[Origin],
                mail[Origin].box),
           configs = 0 =>
             Calm(n, sess[Dest], txq[Origin], txq[Dest], {}, {}, profile[Origin],
                  profile[Dest]),
           Suits(n, sess[Dest], txq[Dest], {}, {}, profile[Origin], profile[Dest],
                 configs)
    PROVE  Follows
  <1>1. Outgoing /\ IInv /\ Origin \in Station BY OriginAlone, TwoStations DEF Known
  <1>2. sess'[Origin] = n BY <1>1, Becomes
  <1>3. Frames(inbox'[Origin]) = {} /\ Frames(inbox'[Dest]) = {}
    BY <1>1, ReceiveTakes, OriginHears
  <1> QED BY <1>1, <1>2, <1>3 DEF Follows, Outgoing

\* The state of a negotiation is none that files the mail.
LEMMA BoxStays ==
    ASSUME Known, NEW n, Become(Origin, n),
           n.st \in {"working", "g2-profile", "starting", "transferring"}
    PROVE  mail'[Origin].box = mail[Origin].box
  <1>1. mail'[Origin] = MailAfter(mail[Origin], n) BY TwoStations, Becomes DEF Known
  <1>2. MailAfter(mail[Origin], n) = mail[Origin] BY DEF MailAfter, Filed
  <1> QED BY <1>1, <1>2

\* The acknowledgement of the announcement.
LEMMA OriginAcked ==
    ASSUME Known, NEW f, f = Head(inbox[Origin]), inbox[Origin] # <<>>,
           RxAck(Origin, f)
    PROVE  Follows
  <1> DEFINE u == sess[Origin]
             p == profile[Origin]
             q == profile[Dest]
             m == Acknowledged(Origin, f)
             w == [Enter(m, "working") EXCEPT !.work = Channel, !.att = 1, !.tx = "queued"]
  <1>1. /\ Receive(Origin) /\ f.type = "ACK_HAVE" /\ u.hop = f.src
        /\ u.dir = "out" /\ u.st = "announcing"
        /\ inbox' = [inbox EXCEPT ![Origin] = Tail(@)]
    <2>1. Receive(Origin) BY DEF Receive
    <2>2. /\ f.type = "ACK_HAVE" /\ m.hop = f.src
          /\ u.dir = "out" /\ u.st = "announcing"
          /\ inbox' = [inbox EXCEPT ![Origin] = Tail(@)]
      BY DEF RxAck, Heard, Out
    <2>3. m.hop = u.hop BY TheSender, AckFacts
    <2> QED BY <2>1, <2>2, <2>3
  <1>2. /\ Outgoing /\ IInv /\ Origin \in Station /\ u \in Session
        /\ u.prev = NoStation /\ f \in Frames(inbox[Origin]) /\ f.src = Dest
    BY <1>1, OriginAlone, TwoStations, TheSender, OriginHears DEF Known
  <1>3. u.tok = NoToken /\ u.work = NoToken
    BY <1>1 DEF Known, Handshake, Fitting, Fits, SenderFits, Early
  <1>4. /\ m.dir = "out" /\ m.prev = u.prev /\ m.cap = u.cap /\ m.hop = Dest
        /\ m.work = NoToken
        /\ m.trans = IF f.cap /\ p # NoToken THEN "ofdm_vhf" ELSE "vara_p2p"
        /\ m.tok = IF f.cap /\ p # NoToken /\ IsSC(f.tok) /\ f.tok = p THEN f.tok
                   ELSE NoToken
    BY <1>1, <1>2, <1>3, AckFacts
  <1>5. m \in Session
    <2>1. f \in Frame /\ p \in Token
      BY <1>1, <1>2 DEF IInv, InboxInv, RestInv, Frames, GoodFrame
    <2>2. f.tok \in Token BY <2>1 DEF Frame
    <2> QED BY <1>2, <2>2 DEF Acknowledged, Session, Transport
  <1>6. \/ \E frames \in {{}, Cancelling(Origin)} : FailWith(Origin, m, frames)
        \/ "none" \in WorkingOffer /\ Become(Origin, Negotiate(Origin, m)) /\ UNCHANGED txq
        \/ "channel" \in WorkingOffer /\ Become(Origin, w) /\ UNCHANGED txq
    BY DEF RxAck
  <1>7. ASSUME configs = 0 PROVE AtFirst(m, p, q)
    <2>1. /\ f.cap = BothHave(p, q)
          /\ IF Matched(p, q) THEN f.tok = q ELSE ~IsSC(f.tok)
      BY <1>1, <1>2, <1>7 DEF Known, Handshake, Calming, Calm, HeardCalm
    <2> HIDE DEF m
    <2> QED BY <1>4, <2>1 DEF AtFirst, Matched, BothHave
  <1>8. /\ w.dir = "out" /\ w.prev = u.prev /\ w.cap = u.cap /\ w.hop = Dest
        /\ w.work = Channel /\ w.st = "working" /\ w.trans = m.trans /\ w.tok = m.tok
    BY <1>4, <1>5 DEF Enter, Session
  <1>heard. /\ m.trans = IF f.cap /\ p # NoToken THEN "ofdm_vhf" ELSE "vara_p2p"
         /\ m.tok = IF f.cap /\ p # NoToken /\ IsSC(f.tok) /\ f.tok = p THEN f.tok
                    ELSE NoToken
    BY <1>4
  <1> HIDE DEF m, w
  <1>9. CASE \E frames \in {{}, Cancelling(Origin)} : FailWith(Origin, m, frames)
    BY <1>1, <1>2, <1>4, <1>5, <1>9, OriginFails, CallsOnly
  <1>10. CASE "channel" \in WorkingOffer /\ Become(Origin, w) /\ UNCHANGED txq
    <2>1. Fits(w, sess[Dest], txq[Origin], txq[Dest], {}, {}, p, mail[Origin].box)
      BY <1>1, <1>2, <1>8, <1>10, SenderAcked
      DEF Known, Handshake, Fitting, Moving
    <2>2. ASSUME configs = 0
          PROVE  Calm(w, sess[Dest], txq[Origin], txq[Dest], {}, {}, p, q)
      <3>1. AtFirst(w, p, q) BY <1>7, <1>8, <2>2 DEF AtFirst
      <3>2. Calming BY <2>2 DEF Known, Handshake
      <3> QED BY <1>1, <1>8, <3>1, <3>2, SenderAckedCalm DEF Calming
    <2>3. Suits(w, sess[Dest], txq[Dest], {}, {}, p, q, configs)
      BY <1>1, <1>2, <1>8, <1>heard, SenderAckedSuits DEF Known, Handshake, Fitting, Suiting
    <2>4. mail'[Origin].box = mail[Origin].box BY <1>8, <1>10, BoxStays
    <2> QED BY <1>1, <1>10, <2>1, <2>2, <2>3, <2>4, OriginMovesOn
  <1>11. CASE /\ "none" \in WorkingOffer
              /\ Become(Origin, Negotiate(Origin, m)) /\ UNCHANGED txq
    <2> DEFINE n == Negotiate(Origin, m)
    <2>1. /\ n.dir = "out" /\ n.prev = u.prev /\ n.cap = u.cap /\ n.hop = Dest
          /\ n.work = NoToken /\ n.trans = m.trans
          /\ IF m.trans # "ofdm_vhf" \/ (IsSC(p) /\ m.tok = p)
             THEN n.st = "starting" /\ n.tok = m.tok
             ELSE n.st = "g2-profile" /\ n.tok = p
      BY <1>4, <1>5, NegotiateFacts
    <2>2. ASSUME NEW r, AtFirst(m, p, r)
          PROVE  /\ n.st = "starting" => AtFirst(n, p, r) /\ ~Asked(p, r)
                 /\ n.st = "g2-profile" => Asked(p, r)
      BY <1>5, <2>2, OfferedIfAsked
    <2> HIDE DEF n
    <2>3. ~Moving BY <1>11 DEF Known, OneHopNet, Moving
    <2>4. /\ n.st \in {"g2-profile", "starting"}
          /\ n.st = "g2-profile" => n.trans = "ofdm_vhf" /\ n.tok = p
      BY <2>1
    <2>5. Fits(n, sess[Dest], txq[Origin], txq[Dest], {}, {}, p, mail[Origin].box)
      BY <1>1, <1>2, <2>1, <2>3, <2>4, SenderAcked DEF Known, Handshake, Fitting
    <2>6. ASSUME configs = 0
          PROVE  Calm(n, sess[Dest], txq[Origin], txq[Dest], {}, {}, p, q)
      <3>1. Calming BY <2>6 DEF Known, Handshake
      <3> QED BY <1>1, <1>7, <2>1, <2>2, <2>4, <2>6, <3>1, SenderAckedCalm DEF Calming
    <2>7. Suits(n, sess[Dest], txq[Dest], {}, {}, p, q, configs)
      <3>1. /\ n.st \in {"working", "g2-profile", "starting"}
            /\ n.st = "working" => n.tok = m.tok
            /\ n.st = "starting" => m.trans # "ofdm_vhf" \/ (IsSC(p) /\ m.tok = p)
        BY <2>1
      <3> QED BY <1>1, <1>2, <1>heard, <2>1, <3>1, SenderAckedSuits
              DEF Known, Handshake, Fitting, Suiting
    <2>8. mail'[Origin].box = mail[Origin].box BY <1>11, <2>4, BoxStays DEF n
    <2> QED BY <1>1, <1>11, <2>5, <2>6, <2>7, <2>8, OriginMovesOn DEF n
  <1> QED BY <1>6, <1>9, <1>10, <1>11

\* The working channel was answered for.
LEMMA OriginChannelAcked ==
    ASSUME Known, NEW f, f = Head(inbox[Origin]), inbox[Origin] # <<>>,
           RxWorkingAck(Origin, f)
    PROVE  Follows
  <1> DEFINE u == sess[Origin]
             p == profile[Origin]
             q == profile[Dest]
             m == [u EXCEPT !.work = f.tok]
             n == Negotiate(Origin, m)
  <1>1. /\ Receive(Origin) /\ f.type = "WORKING_ACK" /\ u.hop = f.src
        /\ u.dir = "out" /\ u.st = "working" /\ f.tok \in {Calling, u.work}
        /\ inbox' = [inbox EXCEPT ![Origin] = Tail(@)]
        /\ Become(Origin, n) /\ UNCHANGED txq
    BY DEF Receive, RxWorkingAck, Heard, Out
  <1>2. /\ Origin \in Station /\ u \in Session
        /\ u.prev = NoStation /\ f \in Frames(inbox[Origin]) /\ f.src = Dest
    BY <1>1, TwoStations, TheSender, OriginHears DEF Known
  <1>3. /\ m \in Session /\ m.dir = "out" /\ m.prev = u.prev /\ m.cap = u.cap
        /\ m.hop = Dest /\ m.work = f.tok /\ m.trans = u.trans /\ m.tok = u.tok
    <2>1. f.tok \in Token BY <1>1, <1>2 DEF Session, Token
    <2> QED BY <1>1, <1>2, <2>1 DEF Session
  <1> HIDE DEF m
  <1>4. /\ n.dir = "out" /\ n.prev = u.prev /\ n.cap = u.cap /\ n.hop = Dest
        /\ n.work = f.tok /\ n.trans = m.trans
        /\ IF m.trans # "ofdm_vhf" \/ (IsSC(p) /\ m.tok = p)
           THEN n.st = "starting" /\ n.tok = m.tok
           ELSE n.st = "g2-profile" /\ n.tok = p
    BY <1>3, NegotiateFacts
  <1>5. ASSUME NEW r, AtFirst(m, p, r)
        PROVE  /\ n.st = "starting" => AtFirst(n, p, r) /\ ~Asked(p, r)
               /\ n.st = "g2-profile" => Asked(p, r)
    BY <1>3, <1>5, OfferedIfAsked
  <1> HIDE DEF n
  <1>6. /\ n.st \in {"g2-profile", "starting"}
        /\ n.st = "g2-profile" => n.trans = "ofdm_vhf" /\ n.tok = p
    BY <1>4
  <1>7. Fits(n, sess[Dest], txq[Origin], txq[Dest], {}, {}, p, mail[Origin].box)
    BY <1>1, <1>2, <1>4, <1>6, SenderMoves DEF Known, Handshake, Fitting
  <1>8. ASSUME configs = 0
        PROVE  Calm(n, sess[Dest], txq[Origin], txq[Dest], {}, {}, p, q)
    <2>1. Calming BY <1>8 DEF Known, Handshake
    <2>2. AtFirst(u, p, q) BY <1>1, <2>1 DEF Calming, Calm, SenderCalm
    <2>3. AtFirst(m, p, q) BY <1>3, <2>2 DEF AtFirst
    <2> QED BY <1>1, <1>4, <1>5, <1>6, <2>1, <2>3, SenderAckedCalm DEF Calming
  <1>9. Suits(n, sess[Dest], txq[Dest], {}, {}, p, q, configs)
    <2>1. /\ n.trans = u.trans
          /\ n.st = "starting" => u.trans # "ofdm_vhf" \/ (IsSC(p) /\ u.tok = p)
      BY <1>3, <1>4
    <2> QED BY <1>1, <1>6, <2>1, SenderMovesSuits DEF Known, Handshake, Suiting
  <1>10. mail'[Origin].box = mail[Origin].box BY <1>1, <1>6, BoxStays
  <1> QED BY <1>1, <1>7, <1>8, <1>9, <1>10, OriginMovesOn

\* The profile was answered for.
LEMMA OriginProfileAcked ==
    ASSUME Known, NEW f, f = Head(inbox[Origin]), inbox[Origin] # <<>>,
           RxG2ProfileAck(Origin, f)
    PROVE  Follows
  <1> DEFINE u == sess[Origin]
             p == profile[Origin]
             q == profile[Dest]
             n == Starting(ProfileSettled(u, f.tok))
  <1>1. /\ Receive(Origin) /\ f.type = "G2_PROFILE_ACK" /\ u.hop = f.src
        /\ u.dir = "out" /\ u.st = "g2-profile"
        /\ inbox' = [inbox EXCEPT ![Origin] = Tail(@)]
        /\ \/ FailWith(Origin, u, Cancelling(Origin))
           \/ Become(Origin, n) /\ UNCHANGED txq
    BY DEF Receive, RxG2ProfileAck, Heard, Out
  <1>2. /\ Outgoing /\ Origin \in Station /\ u \in Session
        /\ u.prev = NoStation /\ f \in Frames(inbox[Origin]) /\ f.src = Dest
    BY <1>1, OriginAlone, TwoStations, TheSender, OriginHears DEF Known
  <1>3. CASE FailWith(Origin, u, Cancelling(Origin))
    BY <1>1, <1>2, <1>3, OriginGivesUp
  <1>4. CASE Become(Origin, n) /\ UNCHANGED txq
    <2>1. u.trans = "ofdm_vhf" /\ u.tok = p
      BY <1>1 DEF Known, Handshake, Fitting, Fits, SenderFits
    <2>2. /\ n.dir = "out" /\ n.prev = u.prev /\ n.cap = u.cap /\ n.hop = u.hop
          /\ n.work = u.work /\ n.st = "starting"
          /\ IF f.tok # p THEN n.trans = "vara_p2p"
             ELSE n.tok = p /\ n.trans = IF p = A500 THEN "ardop" ELSE "ofdm_vhf"
      BY <1>1, <1>2, <2>1
      DEF Starting, ProfileSettled, Agreed, Fallback, Enter, Session
    <2> HIDE DEF n
    <2>3. Fits(n, sess[Dest], txq[Origin], txq[Dest], {}, {}, p, mail[Origin].box)
      BY <1>1, <2>2, SenderAgrees DEF Known, Handshake, Fitting
    <2>4. ASSUME configs = 0
          PROVE  Calm(n, sess[Dest], txq[Origin], txq[Dest], {}, {}, p, q)
      <3>1. Calming BY <2>4 DEF Known, Handshake
      <3>2. ~Takes(sess[Dest])
        BY <1>1 DEF Known, Handshake, Fitting, Fits, EndsFit, Engaged, Begun, Later
      <3>3. Asked(p, q) /\ f.tok = SettledToken(p, q)
        BY <1>1, <1>2, <3>1 DEF Calming, Calm, HeardCalm
      <3>4. p \notin {Calling, Channel}
        BY <1>2 DEF Known, OneHopNet, Handshake, Configured
      <3>5. IF p = q THEN AtLast(n, p, q) ELSE n.trans = "vara_p2p"
        BY <2>2, <3>3, <3>4
        DEF Asked, Matched, BothHave, SettledToken, AtLast, IsSC
      <3> QED BY <1>1, <1>2, <2>2, <3>1, <3>2, <3>5, SenderAgreesCalm DEF Calming
    <2>5. Suits(n, sess[Dest], txq[Dest], {}, {}, p, q, configs)
      <3>1. p # Calling BY <1>2 DEF Known, OneHopNet, Handshake, Configured
      <3> QED BY <1>1, <1>2, <2>1, <2>2, <3>1, SenderAgreesSuits
              DEF Known, Handshake, Suiting
    <2>6. mail'[Origin].box = mail[Origin].box BY <1>4, <2>2, BoxStays
    <2> QED BY <1>1, <1>4, <2>3, <2>4, <2>5, <2>6, OriginMovesOn
  <1> QED BY <1>1, <1>3, <1>4

\* Frames that do not concern the negotiation.
LEMMA OriginUnmoved ==
    ASSUME Known, Outgoing, AlikeOut(sess[Origin], sess'[Origin]),
           sess'[Origin].tx = sess[Origin].tx,
           \A f \in txq'[Origin] : f \in txq[Origin] \/ f.type \in Calls,
           sess[Origin].dir = "out" => mail'[Origin].box = mail[Origin].box
    PROVE  Follows
  <1>1. sess'[Origin].tx = "queued" =>
            sess'[Origin].dir = "out" /\ sess'[Origin].st \in Keyed
    BY DEF Known, Handshake, Fitting, Fits, SenderFits, AlikeOut
  <1>2. AsksFit(txq'[Origin], sess'[Origin], mail'[Origin].box)
    BY DEF Known, Handshake, Fitting, Fits, AsksFit, Asking, AlikeOut, Calls, Shake
  <1>3. \A f \in txq'[Origin] : f \in txq[Origin] \/ Announces(f, profile[Origin])
    BY DEF Announces, Calls
  <1> QED BY <1>1, <1>2, <1>3, OriginStays

\* The payload was taken, as the receiver says itself.
LEMMA OriginDelivers ==
    ASSUME Known, Outgoing, sess[Origin].dir = "out", NEW n, Become(Origin, n),
           Kin(sess[Origin], n), n.st = "delivered", n.tx # "queued",
           \A f \in txq'[Origin] : f \in txq[Origin]
    PROVE  Follows
  <1>1. sess'[Origin] = n /\ mail'[Origin] = MailAfter(mail[Origin], n)
    BY TwoStations, Becomes DEF Known
  <1>2. n.dir = "out" /\ mail[Origin].box # "none" BY TheSender DEF Kin
  <1>3. mail'[Origin].box = "sent"
    <2>1. mail[Origin] \in Mail BY TwoStations DEF Known, IInv, MailInv
    <2> QED BY <1>1, <1>2, <2>1 DEF MailAfter, Filed, Mail
  <1>4. Asking(n, mail'[Origin].box) BY <1>2, <1>3 DEF Asking
  <1>5. n.st \notin Early /\ ~Engaged(n) BY DEF Early, Engaged
  <1> QED BY <1>1, <1>4, <1>5, OriginGoesOn

\* The frame handlers.
LEMMA OriginReceives ==
    ASSUME Known, Receive(Origin)
    PROVE  Follows
  <1> DEFINE u == sess[Origin]
             f == Head(inbox[Origin])
  <1>1. /\ Outgoing /\ IInv /\ Origin \in Station /\ u \in Session /\ u.dir # "in"
        /\ u.dir = "out" => u.prev = NoStation
    BY OriginAlone, TwoStations, TheSender DEF Known
  <1>2. /\ inbox[Origin] # <<>> /\ f.src = Dest /\ f.type # "HAVE_MSG"
    BY ReceiveTakes, <1>1, OriginHears
  <1>3. /\ ~RxHaveMsg(Origin, f) /\ ~RxWorkingOffer(Origin, f)
        /\ ~RxG2ProfileOffer(Origin, f) /\ ~RxStart(Origin, f)
    BY <1>1, <1>2 DEF RxHaveMsg, RxWorkingOffer, RxG2ProfileOffer, RxStart, Heard, In
  <1>4. ASSUME UNCHANGED <<sess, mail>>,
               \A g \in txq'[Origin] : g \in txq[Origin] \/ g.type \in Calls
        PROVE  Follows
    BY <1>1, <1>4, OriginUnmoved DEF AlikeOut
  <1>5. CASE Miss(Origin) BY <1>4, <1>5 DEF Miss
  <1>6. CASE RxRouteQuery(Origin, f)
    <2>1. /\ UNCHANGED <<sess, mail>>
          /\ txq'[Origin] = txq[Origin] \cup {FrameTo("ROUTE_OFFER", Origin, f.src)}
      BY <1>1, <1>6, Becomes DEF RxRouteQuery
    <2> QED BY <1>4, <2>1, Types DEF Calls
  <1>7. CASE RxRouteOffer(Origin, f)
    <2>1. /\ sess'[Origin] = [u EXCEPT !.offers = @ \cup {f.src}]
          /\ UNCHANGED <<mail, txq>>
      BY <1>1, <1>7 DEF RxRouteOffer, IInv, SessInv
    <2>2. AlikeOut(u, sess'[Origin]) /\ sess'[Origin].tx = u.tx
      BY <1>1, <2>1 DEF AlikeOut, Session
    <2> QED BY <1>1, <2>1, <2>2, OriginUnmoved
  <1>8. CASE RxBusy(Origin, f)
    <2>1. /\ u.dir = "out" /\ u.st \in Early /\ UNCHANGED txq
          /\ Become(Origin, Enter(u, "waiting"))
      BY <1>8 DEF RxBusy, Out, Early
    <2>2. sess'[Origin] = Enter(u, "waiting") BY <1>1, <2>1, Becomes
    <2>3. /\ Kin(u, Enter(u, "waiting")) /\ Enter(u, "waiting").st = "waiting"
          /\ Enter(u, "waiting").tx = "done"
      BY <1>1, EnterKin
    <2> QED BY <1>1, <2>1, <2>2, <2>3, OriginTriesOn DEF Early
  <1>9. CASE RxReceived(Origin, f)
    <2>1. /\ u.dir = "out" /\ UNCHANGED txq /\ Become(Origin, Enter(u, "delivered"))
      BY <1>2, <1>9 DEF RxReceived, Out, Confirmation
    <2>2. /\ Kin(u, Enter(u, "delivered")) /\ Enter(u, "delivered").st = "delivered"
          /\ Enter(u, "delivered").tx = "done"
      BY <1>1, EnterKin
    <2> QED BY <1>1, <2>1, <2>2, OriginDelivers
  <1>10. CASE RxStrayReceipt(Origin, f)
    <2>1. mail[Origin].hops = <<>> BY DEF Known, Handshake, FromHere
    <2>2. UNCHANGED <<sess, txq>> /\ u.dir = "none"
      BY <1>10, <2>1 DEF RxStrayReceipt
    <2> QED BY <1>1, <2>2, OriginUnmoved DEF AlikeOut
  <1>11. CASE RxDelivered(Origin, f)
    <2>1. u.dir = "out" /\ u.prev = NoStation BY <1>1, <1>11 DEF RxDelivered, Session
    <2> DEFINE k == IF u.st = "delivered" THEN u ELSE Enter(u, "delivered")
               n == [k EXCEPT !.rfwd = @ \/ FALSE]
    <2>2. Become(Origin, n) /\ Send(Origin, {}) BY <1>11, <2>1 DEF RxDelivered
    <2>3. k \in Session /\ Kin(u, k) /\ k.st = "delivered" /\ k.tx \in {"done", u.tx}
      <3>1. CASE u.st = "delivered" BY <1>1, <3>1 DEF Kin
      <3>2. CASE u.st # "delivered"
        <4>1. k = Enter(u, "delivered") BY <3>2
        <4>2. "delivered" \in State BY DEF State, Terminal
        <4>3. Enter(u, "delivered") \in Session BY <1>1, <4>2, EnterFacts
        <4>4. /\ Kin(u, Enter(u, "delivered")) /\ Enter(u, "delivered").tx = "done"
              /\ Enter(u, "delivered").st = "delivered"
          BY <1>1, EnterKin
        <4> HIDE DEF k
        <4> QED BY <4>1, <4>3, <4>4
      <3> QED BY <3>1, <3>2
    <2>4. Kin(u, n) /\ n.st = "delivered" /\ n.tx \in {"done", u.tx}
      <3> HIDE DEF k
      <3> QED BY <2>3 DEF Kin, Session
    <2> HIDE DEF k, n
    <2>5. n.tx # "queued"
      <3>1. CASE u.st = "delivered"
        BY <2>4, <3>1 DEF Known, Handshake, Fitting, Fits, SenderFits, Keyed
      <3>2. CASE u.st # "delivered" BY <1>1, <3>2, EnterKin DEF n, k, Session, Enter
      <3> QED BY <3>1, <3>2
    <2>6. txq'[Origin] = txq[Origin] \cup {} BY <1>1, <2>2, Becomes
    <2> QED BY <1>1, <2>1, <2>2, <2>4, <2>5, <2>6, OriginDelivers
  <1>12. CASE RxCancel(Origin, f)
    <2>1. /\ u.dir = "out" /\ Become(Origin, Enter(u, "cancelled"))
          /\ SendAndStop(Origin, {})
      BY <1>1, <1>12 DEF RxCancel, Open, Session
    <2>2. /\ sess'[Origin] = Enter(u, "cancelled")
          /\ txq'[Origin] = Answers(txq[Origin] \cup {})
      BY <1>1, <2>1, Becomes
    <2>3. /\ Kin(u, Enter(u, "cancelled")) /\ Enter(u, "cancelled").st = "cancelled"
          /\ Enter(u, "cancelled").tx = "done"
      BY <1>1, EnterKin
    <2> QED BY <1>1, <2>1, <2>2, <2>3, AnswersOnly, OriginGoesOn DEF Early, Engaged
  <1>13. CASE \/ RxAck(Origin, f) \/ RxWorkingAck(Origin, f) \/ RxG2ProfileAck(Origin, f)
    <2> HIDE DEF f
    <2> QED BY <1>2, <1>13, OriginAcked, OriginChannelAcked, OriginProfileAcked DEF f
  <1> HIDE DEF f
  <1> QED
    BY <1>3, <1>5, <1>6, <1>7, <1>8, <1>9, <1>10, <1>11, <1>12, <1>13 DEF Receive, f

\* A frame that waits at the sender goes on the air.
LEMMA OriginTransmits ==
    ASSUME Known, Transmit(Origin)
    PROVE  Follows
  <1> DEFINE u == sess[Origin]
             p == profile[Origin]
             q == profile[Dest]
  <1>1. IInv /\ OneHopNet /\ Origin \in Station /\ Dest \in Station /\ Origin # Dest
    BY TwoStations DEF Known
  <1>2. PICK f \in txq[Origin] : /\ txq' = [txq EXCEPT ![Origin] = @ \ {f}]
                                 /\ Air(Origin, f)
    BY DEF Transmit
  <1>3. UNCHANGED <<sess, mail, profile, configs>> BY DEF Transmit, RxRest
  <1>4. /\ txq'[Origin] = txq[Origin] \ {f} /\ txq'[Dest] = txq[Dest]
    BY <1>1, <1>2 DEF IInv, TxqInv
  <1>5. /\ Frames(inbox[Origin]) = {} /\ Frames(inbox[Dest]) = {}
        /\ Frames(inbox'[Origin]) = {} /\ Frames(inbox'[Dest]) \subseteq {f}
    BY <1>1, <1>2, OneAired
  <1>6. Fits(u, sess[Dest], txq[Origin] \ {f}, txq[Dest], {}, Frames(inbox'[Dest]), p,
             mail[Origin].box)
    BY <1>5, SenderSends DEF Known, Handshake, Fitting
  <1>7. ASSUME configs = 0
        PROVE  Calm(u, sess[Dest], txq[Origin] \ {f}, txq[Dest], {},
                    Frames(inbox'[Dest]), p, q)
    <2>1. Calm(u, sess[Dest], txq[Origin], txq[Dest], {}, {}, p, q)
      BY <1>5, <1>7 DEF Known, Handshake, Calming
    <2>2. Announces(f, p) BY <2>1 DEF Calm
    <2>3. f.type \notin Shake BY DEF Known, Handshake, Fitting, Fits, AsksFit
    <2>4. AlikeOut(u, u) BY DEF AlikeOut
    <2>5. txq[Origin] \ {f} \in SUBSET txq[Origin] OBVIOUS
    <2> QED BY <1>5, <2>1, <2>2, <2>3, <2>4, <2>5, SenderSendsCalm DEF Shake
  <1>8. Suits(u, sess[Dest], txq[Dest], {}, Frames(inbox'[Dest]), p, q, configs)
    <2>1. Suits(u, sess[Dest], txq[Dest], {}, {}, p, q, configs)
      BY <1>5 DEF Known, Handshake, Suiting
    <2>2. f.type # "G2_PROFILE_OFFER"
      BY DEF Known, Handshake, Fitting, Fits, AsksFit, Shake
    <2>3. AlikeOut(u, u) BY DEF AlikeOut
    <2> QED BY <1>5, <2>1, <2>2, <2>3, SenderSendsSuits
  <1> QED BY <1>3, <1>4, <1>5, <1>6, <1>7, <1>8 DEF Follows

\* What the sender's session waits behind.
LEMMA GuardedFacts ==
    ASSUME Known, sess[Origin].tx = "queued"
    PROVE  LET u == sess[Origin]
               f == Guarded(Origin)
           IN /\ u.dir = "out" /\ u.st \in Keyed
              /\ u.st = "announcing" => f = HaveMsg(Origin, u) /\ f.type = "HAVE_MSG"
              /\ u.st = "working" => f.type = "WORKING_OFFER" /\ f.tok = u.work
              /\ u.st = "g2-profile" => f.type = "G2_PROFILE_OFFER" /\ f.tok = u.tok
              /\ u.st = "starting" => f.type = "START_VARA"
  <1> DEFINE u == sess[Origin]
             f == Guarded(Origin)
  <1>1. u.dir = "out" /\ u.st \in Keyed
    BY DEF Known, Handshake, Fitting, Fits, SenderFits
  <1>2. CASE u.st = "announcing"
    BY <1>1, <1>2, AnnouncesAgain DEF Guarded
  <1>3. CASE u.st = "working" BY <1>1, <1>3 DEF Guarded, Tokened, FrameTo
  <1>4. CASE u.st = "g2-profile" BY <1>1, <1>4 DEF Guarded, Tokened, FrameTo
  <1>5. CASE u.st = "starting" BY <1>1, <1>5 DEF Guarded, FrameTo
  <1> QED BY <1>1, <1>2, <1>3, <1>4, <1>5 DEF Keyed

\* The frame the sender waits behind goes on the air.
LEMMA OriginKeys ==
    ASSUME Known, TransmitGuarded(Origin)
    PROVE  Follows
  <1> DEFINE u == sess[Origin]
             p == profile[Origin]
             q == profile[Dest]
             f == Guarded(Origin)
             t == IF u.st = "starting" THEN "aired" ELSE "done"
             n == [u EXCEPT !.tx = t]
  <1>1. /\ IInv /\ OneHopNet /\ Origin \in Station /\ Dest \in Station
        /\ Origin # Dest /\ u \in Session
    BY TwoStations, TheSender DEF Known
  <1>2. /\ u.tx = "queued" /\ Air(Origin, f)
        /\ UNCHANGED <<mail, txq, profile, configs>>
    BY DEF TransmitGuarded, RxRest
  <1>3. sess'[Origin] = n /\ sess'[Dest] = sess[Dest]
    BY <1>1 DEF TransmitGuarded, IInv, SessInv, Session
  <1>4. AlikeOut(u, n) /\ n.tx # "queued" BY <1>1 DEF AlikeOut, Session
  <1>5. /\ u.dir = "out" /\ u.st \in Keyed
        /\ u.st = "announcing" => f = HaveMsg(Origin, u) /\ f.type = "HAVE_MSG"
        /\ u.st = "working" => f.type = "WORKING_OFFER" /\ f.tok = u.work
        /\ u.st = "g2-profile" => f.type = "G2_PROFILE_OFFER" /\ f.tok = u.tok
        /\ u.st = "starting" => f.type = "START_VARA"
    BY <1>2, GuardedFacts
  <1>6. /\ Frames(inbox[Origin]) = {} /\ Frames(inbox[Dest]) = {}
        /\ Frames(inbox'[Origin]) = {} /\ Frames(inbox'[Dest]) \subseteq {f}
    BY <1>1, <1>2, OneAired
  <1> HIDE DEF f, t, n
  <1>7. Fits(n, sess[Dest], txq[Origin], txq[Dest], {}, Frames(inbox'[Dest]), p,
             mail[Origin].box)
    BY <1>2, <1>4, <1>5, <1>6, SenderKeys DEF Known, Handshake, Fitting
  <1>8. ASSUME configs = 0
        PROVE  Calm(n, sess[Dest], txq[Origin], txq[Dest], {}, Frames(inbox'[Dest]),
                    p, q)
    <2>1. Calm(u, sess[Dest], txq[Origin], txq[Dest], {}, {}, p, q)
      BY <1>6, <1>8 DEF Known, Handshake, Calming
    <2>2. Announces(f, p)
      BY <1>5, <1>8, AnnouncesAgain DEF Announces, Keyed
    <2>3. f.type = "G2_PROFILE_OFFER" => f.tok = p /\ Asked(p, q)
      <3>1. u.st = "g2-profile" => u.tok = p
        BY <1>5 DEF Known, Handshake, Fitting, Fits, SenderFits
      <3>2. u.st = "g2-profile" => Asked(p, q) BY <1>5, <2>1 DEF Calm, SenderCalm
      <3> QED BY <1>5, <3>1, <3>2 DEF Keyed
    <2>4. f.type = "START_VARA" => Begun(u)
      BY <1>5 DEF Keyed, Begun, Later, Engaged
    <2> QED BY <1>4, <1>6, <2>1, <2>2, <2>3, <2>4, SenderSendsCalm
  <1>9. Suits(n, sess[Dest], txq[Dest], {}, Frames(inbox'[Dest]), p, q, configs)
    <2>1. Suits(u, sess[Dest], txq[Dest], {}, {}, p, q, configs)
      BY <1>6 DEF Known, Handshake, Suiting
    <2>2. u.st = "g2-profile" => u.tok = p
      BY <1>5 DEF Known, Handshake, Fitting, Fits, SenderFits
    <2>3. f.type = "G2_PROFILE_OFFER" => f.tok = p BY <1>5, <2>2 DEF Keyed
    <2> QED BY <1>4, <1>6, <2>1, <2>3, SenderSendsSuits
  <1> QED BY <1>2, <1>3, <1>6, <1>7, <1>8, <1>9 DEF Follows

\* The payload of the sender begins.
LEMMA OriginBegins ==
    ASSUME Known, StartComplete(Origin)
    PROVE  Follows
  <1> DEFINE u == sess[Origin]
             n == Enter(u, "transferring")
  <1>1. /\ IInv /\ Origin \in Station /\ Dest \in Station /\ Origin # Dest
        /\ u \in Session
    BY TwoStations, TheSender DEF Known
  <1>2. /\ u.dir = "out" /\ u.st = "starting" /\ Become(Origin, n)
        /\ UNCHANGED <<txq, inbox, profile, configs>>
    BY DEF StartComplete, Out, TimerRest, StationRest, AllButLate
  <1>3. sess'[Origin] = n /\ sess'[Dest] = sess[Dest]
    BY <1>1, <1>2 DEF IInv, SessInv, Become
  <1>4. /\ n.dir = "out" /\ n.prev = u.prev /\ n.hop = u.hop /\ n.work = u.work
        /\ n.st = "transferring" /\ n.tx = "done" /\ n.cap = u.cap
        /\ n.trans = u.trans /\ n.tok = u.tok
    BY <1>1, <1>2 DEF Enter, Session
  <1> HIDE DEF n
  <1>5. mail'[Origin].box = mail[Origin].box BY <1>2, <1>4, BoxStays
  <1>6. Fits(n, sess[Dest], txq[Origin], txq[Dest], Frames(inbox[Origin]),
             Frames(inbox[Dest]), profile[Origin], mail[Origin].box)
    BY <1>2, <1>4, SenderBegins DEF Known, Handshake, Fitting
  <1>7. ASSUME configs = 0
        PROVE  Calm(n, sess[Dest], txq[Origin], txq[Dest], Frames(inbox[Origin]),
                    Frames(inbox[Dest]), profile[Origin], profile[Dest])
    BY <1>2, <1>4, <1>7, SenderBeginsCalm DEF Known, Handshake, Calming
  <1>8. Suits(n, sess[Dest], txq[Dest], Frames(inbox[Origin]), Frames(inbox[Dest]),
              profile[Origin], profile[Dest], configs)
    BY <1>2, <1>4, SenderBeginsSuits DEF Known, Handshake, Suiting
  <1> QED BY <1>2, <1>3, <1>5, <1>6, <1>7, <1>8 DEF Follows

\* The sender starts again.
LEMMA OriginRestarts ==
    ASSUME Known, Restart(Origin)
    PROVE  Follows
  <1>1. /\ IInv /\ Origin \in Station /\ Dest \in Station /\ Origin # Dest
    BY TwoStations DEF Known
  <1>2. /\ sess'[Origin] = NoSession /\ sess'[Dest] = sess[Dest]
        /\ txq'[Origin] = {} /\ txq'[Dest] = txq[Dest]
        /\ inbox'[Origin] = <<>> /\ inbox'[Dest] = inbox[Dest]
        /\ UNCHANGED <<mail, profile, configs>>
    BY <1>1 DEF Restart, IInv, SessInv, TxqInv, InboxInv
  <1>3. NoSession.dir = "none" /\ NoSession.tx = "done"
    BY DEF NoSession, NewSession
  <1>4. ~Engaged(NoSession) /\ SenderFits(NoSession, profile[Origin])
    BY <1>3 DEF Engaged, SenderFits
  <1>5. AsksFit({}, NoSession, mail[Origin].box) BY DEF AsksFit
  <1>6. Frames(<<>>) \in SUBSET Frames(inbox[Origin]) BY FrameSets
  <1> HIDE DEF NoSession
  <1>7. Fits(NoSession, sess[Dest], {}, txq[Dest], Frames(<<>>), Frames(inbox[Dest]),
             profile[Origin], mail[Origin].box)
    BY <1>4, <1>5, <1>6, SenderRests DEF Known, Handshake, Fitting
  <1>8. ASSUME configs = 0
        PROVE  Calm(NoSession, sess[Dest], {}, txq[Dest], Frames(<<>>),
                    Frames(inbox[Dest]), profile[Origin], profile[Dest])
    BY <1>3, <1>4, <1>6, <1>8, SenderRestsCalm DEF Known, Handshake, Calming
  <1>9. Suits(NoSession, sess[Dest], txq[Dest], Frames(<<>>), Frames(inbox[Dest]),
              profile[Origin], profile[Dest], configs)
    BY <1>4, <1>6, SenderRestsSuits DEF Known, Handshake, Suiting
  <1> QED BY <1>2, <1>7, <1>8, <1>9 DEF Follows

----------------------------------------------------------------------------
(* The receiver's steps *)

\* The receiver never sends: it keeps the message in its inbox.
LEMMA TheReceiver ==
    ASSUME Known
    PROVE  /\ sess[Dest] \in Session /\ sess[Dest].dir # "out" /\ sess[Dest].tx = "done"
           /\ sess[Dest].dir = "in" => sess[Dest].src = Origin
           /\ mail[Dest].box \in {"none", "inbox"}
  BY TwoStations
  DEF Known, IInv, SessInv, MailInv, GoodMail, Handshake, Fitting, Fits, ReceiverFits

\* What else may happen while the receiver does something.
Incoming ==
    /\ sess'[Origin] = sess[Origin] /\ txq'[Origin] = txq[Origin]
    /\ mail'[Origin] = mail[Origin] /\ UNCHANGED <<profile, configs>>
    /\ Frames(inbox'[Origin]) \subseteq Frames(inbox[Origin])
    /\ Frames(inbox'[Dest]) \subseteq Frames(inbox[Dest])

\* Nothing else does.
LEMMA DestAlone ==
    ASSUME Known,
           \/ Operator(Dest) /\ ~Reconfigure(Dest)
           \/ Discoverer(Dest) \/ Tick(Dest) \/ Receive(Dest)
           \/ ReceiveFails(Dest) \/ ReceiveCompletes(Dest)
    PROVE  Incoming
  <1>1. IInv /\ OneHopNet /\ OneInFlight BY DEF Known, Handshake
  <1>2. UNCHANGED <<profile, configs>> /\ txq'[Origin] = txq[Origin]
    BY <1>1, TwoStations, SettingsStay, QueuesApart DEF Payload
  <1>3. sess'[Origin] = sess[Origin] /\ mail'[Origin] = mail[Origin]
    <2>1. CASE ReceiveFails(Dest)
      BY <1>1, <2>1, TwoStations DEF IInv, SessInv, MailInv, ReceiveFails, Become
    <2>2. CASE Orderly(Dest) BY <1>1, <2>2, TwoStations DEF Orderly
    <2> QED
      BY <1>1, <2>1, <2>2, TwoStations, OperatorOrderly, TickOrderly, ReceiveOrderly,
         StoreOrderly
  <1>4. /\ Frames(inbox'[Origin]) \subseteq Frames(inbox[Origin])
        /\ Frames(inbox'[Dest]) \subseteq Frames(inbox[Dest])
    <2>1. CASE Receive(Dest)
      BY <1>1, <2>1, TwoStations, ReceiveTakes, OneHandled
    <2>2. CASE ~Receive(Dest)
      BY <2>2, TwoStations, <1>1, NothingHeard DEF Payload
    <2> QED BY <2>1, <2>2
  <1> QED BY <1>2, <1>3, <1>4 DEF Incoming

\* The receiver's session ends.
LEMMA DestEnds ==
    ASSUME Known, Incoming, NEW n, sess'[Dest] = n, ReceiverFits(n), ~Meets(n),
           \A f \in txq'[Dest] :
             f.type \notin Agreement \/ (f \in txq[Dest] /\ ~Ready(sess[Dest]))
    PROVE  Follows
  <1>1. \A f \in txq'[Dest] : f.type \notin {"ACK_HAVE", "WORKING_ACK"}
    BY DEF Known, Handshake, Fitting, Fits, AnswersFit, Agreement
  <1>2. Fits(sess'[Origin], sess'[Dest], txq'[Origin], txq'[Dest],
             Frames(inbox'[Origin]), Frames(inbox'[Dest]), profile'[Origin],
             mail'[Origin].box)
    BY <1>1, ReceiverEnds DEF Known, Handshake, Fitting, Incoming
  <1>3. ASSUME configs' = 0
        PROVE  Calm(sess'[Origin], sess'[Dest], txq'[Origin], txq'[Dest],
                    Frames(inbox'[Origin]), Frames(inbox'[Dest]), profile'[Origin],
                    profile'[Dest])
    <2>1. Calming BY <1>3 DEF Known, Handshake, Incoming
    <2>2. \A f \in txq'[Dest] : f.type # "G2_PROFILE_ACK"
      BY <2>1 DEF Calming, Calm, AnswersCalm, Agreement
    <2> QED BY <2>1, <2>2, ReceiverEndsCalm DEF Calming, Incoming
  <1>4. Suits(sess'[Origin], sess'[Dest], txq'[Dest], Frames(inbox'[Origin]),
              Frames(inbox'[Dest]), profile'[Origin], profile'[Dest], configs')
    <2>1. \A f \in txq'[Dest] : f.type = "G2_PROFILE_ACK" => f \in txq[Dest]
      BY DEF Agreement
    <2> QED BY <2>1, ReceiverEndsSuits DEF Known, Handshake, Suiting, Incoming
  <1> QED BY <1>2, <1>3, <1>4 DEF Follows

\* It stays in all that matters.
LEMMA DestStays ==
    ASSUME Known, Incoming, AlikeIn(sess[Dest], sess'[Dest]),
           \A f \in txq'[Dest] : f \in txq[Dest] \/ f.type \notin Agreement
    PROVE  Follows
  <1>1. Fits(sess'[Origin], sess'[Dest], txq'[Origin], txq'[Dest],
             Frames(inbox'[Origin]), Frames(inbox'[Dest]), profile'[Origin],
             mail'[Origin].box)
    BY ReceiverStays DEF Known, Handshake, Fitting, Incoming
  <1>2. ASSUME configs' = 0
        PROVE  Calm(sess'[Origin], sess'[Dest], txq'[Origin], txq'[Dest],
                    Frames(inbox'[Origin]), Frames(inbox'[Dest]), profile'[Origin],
                    profile'[Dest])
    <2>1. Calming BY <1>2 DEF Known, Handshake, Incoming
    <2> QED BY <2>1, ReceiverStaysCalm DEF Calming, Incoming
  <1>3. Suits(sess'[Origin], sess'[Dest], txq'[Dest], Frames(inbox'[Origin]),
              Frames(inbox'[Dest]), profile'[Origin], profile'[Dest], configs')
    <2>1. \A f \in txq'[Dest] : f.type = "G2_PROFILE_ACK" => f \in txq[Dest]
      BY DEF Agreement
    <2>2. /\ Meets(sess'[Dest]) = Meets(sess[Dest])
          /\ Ready(sess'[Dest]) = Ready(sess[Dest])
          /\ sess'[Dest].trans = sess[Dest].trans /\ sess'[Dest].tok = sess[Dest].tok
          /\ sess'[Dest].cap = sess[Dest].cap
      BY DEF AlikeIn, Meets, Ready, Takes
    <2> QED BY <2>1, <2>2, ReceiverStaysSuits DEF Known, Handshake, Suiting, Incoming
  <1> QED BY <1>1, <1>2, <1>3 DEF Follows

\* The states in which a receiver is no longer met.
Over == {"failed", "cancelled", "delivered"}

\* It ends by entering one of them.
LEMMA DestEnters ==
    ASSUME Known, Incoming, NEW m \in Session, m.dir = "in", m.src = Origin,
           NEW st \in Over, sess'[Dest] = Enter(m, st),
           \A f \in txq'[Dest] :
             f.type \notin Agreement \/ (f \in txq[Dest] /\ ~Ready(sess[Dest]))
    PROVE  Follows
  <1> DEFINE n == Enter(m, st)
  <1>1. n.dir = "in" /\ n.src = Origin /\ n.st = st /\ n.tx = "done"
    BY DEF Enter, Session
  <1> HIDE DEF n
  <1>2. ~Meets(n) /\ ReceiverFits(n)
    BY <1>1 DEF Meets, Ready, Takes, ReceiverFits, Over
  <1> QED BY <1>2, DestEnds DEF n

\* The receiver gives up.
LEMMA DestFails ==
    ASSUME Known, Incoming, NEW m \in Session, m.dir = "in", m.src = Origin,
           NEW frames, FailWith(Dest, m, frames)
    PROVE  Follows
  <1>1. sess'[Dest] = Enter(m, "failed") /\ txq'[Dest] = Answers(txq[Dest] \cup frames)
    BY TwoStations, Becomes DEF Known
  <1>2. \A f \in txq'[Dest] : f.type \notin Agreement BY <1>1, AnswersOnly
  <1> QED BY <1>1, <1>2, DestEnters DEF Over

\* The operator, the timers and the payload.
LEMMA DestWorks ==
    ASSUME Known,
           \/ Operator(Dest) /\ ~Reconfigure(Dest)
           \/ Discoverer(Dest) \/ Tick(Dest)
           \/ ReceiveFails(Dest) \/ ReceiveCompletes(Dest)
    PROVE  Follows
  <1> DEFINE v == sess[Dest]
  <1>1. /\ Incoming /\ IInv /\ Dest \in Station /\ v \in Session /\ v.dir # "out"
        /\ v.dir = "in" => v.src = Origin
        /\ mail[Dest].box \in {"none", "inbox"}
    BY DestAlone, TwoStations, TheReceiver DEF Known
  <1>2. ~SendQueued(Dest) /\ ~AutoDeliver(Dest) /\ ~Approve(Dest) /\ ~Discoverer(Dest)
    BY <1>1 DEF SendQueued, AutoDeliver, Queue, Approve, Discoverer, DiscoveryResult,
       DiscoveryFailure, ResumeRoute, Out
  <1>3. CASE Cancel(Dest)
    <2>1. v.dir = "in" BY <1>1, <1>3 DEF Cancel, Open, Session
    <2>2. /\ sess'[Dest] = Enter(v, "cancelled")
          /\ txq'[Dest] = Answers(txq[Dest]) \cup Cancelling(Dest)
      BY <1>1, <1>3 DEF Cancel, Become, IInv, SessInv, TxqInv
    <2>3. \A f \in txq'[Dest] : f.type \notin Agreement
      BY <2>2, AnswersOnly, CallsOnly DEF Calls, Agreement
    <2> QED BY <1>1, <2>1, <2>2, <2>3, DestEnters DEF Over
  <1>4. CASE Tick(Dest)
    <2>1. v.dir = "in" /\ FailWith(Dest, v, {})
      BY <1>1, <1>4 DEF Tick, AnnounceTimeout, BusyRetry, DiscoveryTimeout,
         WorkingTimeout, ProfileTimeout, StartTimeout, AckedTimeout, TransferTimeout,
         ReceiptTimeout, ConfirmTimeout, Out, In
    <2> QED BY <1>1, <2>1, DestFails
  <1>5. CASE ReceiveFails(Dest)
    <2> DEFINE m == [v EXCEPT !.rx = FALSE]
    <2>1. /\ v.dir = "in" /\ ~Ready(v)
          /\ sess'[Dest] = [Enter(v, "failed") EXCEPT !.rx = FALSE]
          /\ txq'[Dest] = txq[Dest] \cup Cancelling(Dest)
      BY <1>1, <1>5, Becomes DEF ReceiveFails, In, Ready
    <2>2. m \in Session /\ m.dir = v.dir /\ m.src = v.src BY <1>1 DEF Session
    <2>3. sess'[Dest] = Enter(m, "failed") BY <1>1, <2>1 DEF Enter, Session
    <2> HIDE DEF m
    <2> QED BY <1>1, <2>1, <2>2, <2>3, CallsOnly, DestEnters DEF Over, Calls, Agreement
  <1>6. CASE ReceiveCompletes(Dest)
    <2>1. v.dir = "in" /\ ~Ready(v) BY <1>6 DEF ReceiveCompletes, In, Ready
    <2>2. PICK m : Alike(v, m) /\ DeliverHere(Dest, m)
      BY <1>1, <1>6, CompletionFacts DEF TakeCustody
    <2>3. m \in Session /\ m.dir = v.dir /\ m.src = v.src BY <2>2, AlikeFields
    <2>4. /\ sess'[Dest] = Enter(m, "delivered")
          /\ txq'[Dest] = txq[Dest] \cup {Say("RECEIVED", Dest),
                                          Receipt(Dest, m.src, ReceiptTtl)}
      BY <1>1, <2>2 DEF DeliverHere, Send, IInv, SessInv, TxqInv
    <2> QED BY <1>1, <2>1, <2>3, <2>4, Types, DestEnters DEF Over, Agreement
  <1> QED BY <1>2, <1>3, <1>4, <1>5, <1>6 DEF Operator

\* The payload arrives.
LEMMA DestGets ==
    ASSUME Known, NEW s \in Station, NEW r \in Station, PayloadArrives(s, r)
    PROVE  Follows
  <1> DEFINE v == sess[Dest]
             n == [v EXCEPT !.got = TRUE, !.hops = mail[Origin].hops,
                            !.hollow = sess[Origin].hollow]
  <1>1. s = Origin /\ r = Dest
    BY TwoStations, TheReceiver, TheSender DEF Known, PayloadArrives, Out, In
  <1>2. /\ sess' = [sess EXCEPT ![Dest].got = TRUE, ![Dest].hops = mail[Origin].hops,
                                ![Dest].hollow = sess[Origin].hollow]
        /\ UNCHANGED <<mail, txq, inbox, profile, configs>>
    BY <1>1 DEF PayloadArrives, TimerRest, StationRest, AllButLate
  <1>3. v \in Session /\ Origin # Dest /\ Dest \in Station /\ Origin \in Station
    BY TwoStations, TheReceiver DEF Known
  <1>4. sess'[Dest] = n /\ sess'[Origin] = sess[Origin]
    BY <1>2, <1>3 DEF Known, IInv, SessInv, Session
  <1>5. AlikeIn(v, n) BY <1>3 DEF AlikeIn, Session
  <1> HIDE DEF n
  <1>6. Incoming BY <1>2, <1>4 DEF Incoming
  <1> QED BY <1>2, <1>4, <1>5, <1>6, DestStays

\* The payload goes to a reception that was given up.
LEMMA DestStrays ==
    ASSUME Known, NEW s \in Station, NEW r \in Station, PayloadStrays(s, r)
    PROVE  Follows
  <1> DEFINE u == sess[Origin]
  <1>1. s = Origin
    BY TwoStations, TheReceiver DEF Known, PayloadStrays, Out
  <1>2. Engaged(u) /\ u.hop = r BY <1>1 DEF PayloadStrays, Out, Engaged
  <1>3. r = Dest BY <1>2 DEF Known, Handshake, Fitting, Fits, SenderFits
  <1>4. PICK n : Alike(sess[Dest], n) /\ sess' = [sess EXCEPT ![Dest] = n]
    BY <1>1, <1>3, StraysAlike DEF Known
  <1>5. UNCHANGED <<mail, txq, inbox, profile, configs>>
    BY DEF PayloadStrays, TimerRest, StationRest, AllButLate
  <1>6. sess'[Dest] = n /\ sess'[Origin] = sess[Origin]
    BY <1>4, TwoStations DEF Known, IInv, SessInv
  <1>7. AlikeIn(sess[Dest], n) BY <1>4 DEF Alike, AlikeIn, Session
  <1>8. Incoming BY <1>5, <1>6 DEF Incoming
  <1> QED BY <1>5, <1>6, <1>7, <1>8, DestStays

\* What the receiver hears is the sender's, and it is the only frame on its way.
LEMMA DestHears ==
    ASSUME Known, Receive(Dest), NEW f, f = Head(inbox[Dest])
    PROVE  /\ f \in Frames(inbox[Dest]) /\ f.src = Origin /\ f \in Frame
           /\ f.type # "DELIVERED" /\ inbox[Dest] # <<>>
           /\ Frames(inbox'[Origin]) = {} /\ Frames(inbox'[Dest]) = {}
  <1>1. inbox[Dest] # <<>> /\ inbox' = [inbox EXCEPT ![Dest] = Tail(@)]
    BY TwoStations, ReceiveTakes DEF Known
  <1>2. f \in Frames(inbox[Dest]) /\ Frames(inbox'[Origin]) = {}
        /\ Frames(inbox'[Dest]) = {}
    BY <1>1, TwoStations, OneHandled DEF Known, Handshake
  <1>3. f.src \in Neighbours(Dest)
    BY <1>1, TwoStations, HeadWay DEF Known, IInv, WayInv
  <1>4. f.src = Origin BY <1>3, TwoStations DEF Known
  <1>5. f.type # "DELIVERED" BY <1>2 DEF Known, Handshake, Fitting, Fits, OffersFit
  <1>6. f \in Frame
    BY <1>2, TwoStations DEF Known, IInv, InboxInv, Frames, GoodFrame
  <1> QED BY <1>1, <1>2, <1>4, <1>5, <1>6

\* A frame that is answered.
LEMMA DestAnswers ==
    ASSUME Known, Receive(Dest), NEW C,
           txq'[Dest] = C, sess'[Dest].dir # "none",
           Fits(sess[Origin], sess'[Dest], txq[Origin], C, {}, {}, profile[Origin],
                mail[Origin].box),
           configs = 0 =>
             Calm(sess[Origin], sess'[Dest], txq[Origin], C, {}, {}, profile[Origin],
                  profile[Dest]),
           Suits(sess[Origin], sess'[Dest], C, {}, {}, profile[Origin], profile[Dest],
                 configs)
    PROVE  Follows
  <1>1. Incoming BY DestAlone
  <1>2. Frames(inbox'[Origin]) = {} /\ Frames(inbox'[Dest]) = {}
    BY DestHears
  <1> QED BY <1>1, <1>2 DEF Follows, Incoming

\* An announcement.
LEMMA DestAnnounced ==
    ASSUME Known, Receive(Dest), NEW f, f = Head(inbox[Dest]), RxHaveMsg(Dest, f)
    PROVE  Follows
  <1> DEFINE v == sess[Dest]
             p == profile[Origin]
             q == profile[Dest]
             m == Receiver(Dest, f)
  <1>1. /\ Incoming /\ IInv /\ Dest \in Station /\ v \in Session /\ v.dir # "out"
        /\ v.dir = "in" => v.src = Origin
        /\ f \in Frames(inbox[Dest]) /\ f.src = Origin /\ f \in Frame
        /\ f.type = "HAVE_MSG"
    BY DestAlone, DestHears, TwoStations, TheReceiver DEF Known, RxHaveMsg, Heard
  <1>2. CASE Reconfirm(Dest, f)
    <2> DEFINE frames == {FrameTo("RECEIVED", Dest,
                    IF v.dir = "out" THEN f.src ELSE v.hop)}
               \cup (IF v.st = "delivered" THEN {Receipt(Dest, f.src, ReceiptTtl)} ELSE {})
    <2>1. Become(Dest, v) /\ Send(Dest, frames) BY <1>2 DEF Reconfirm
    <2>2. \A g \in frames : g.type \notin Agreement BY Types DEF Agreement
    <2> HIDE DEF frames
    <2>3. sess'[Dest] = v /\ txq'[Dest] = txq[Dest] \cup frames
      BY <1>1, <2>1, Becomes
    <2> QED BY <1>1, <2>2, <2>3, DestStays DEF AlikeIn
  <1>3. CASE ReAck(Dest)
    <2>1. /\ Ready(v) /\ sess'[Dest] = v
          /\ txq'[Dest] = txq[Dest] \cup {AckHave(Dest, v)}
      BY <1>1, <1>3, Becomes DEF ReAck, In, Ready
    <2>2. Fits(sess[Origin], v, txq[Origin], txq[Dest] \cup {AckHave(Dest, v)}, {}, {},
               p, mail[Origin].box)
      BY <1>1, <2>1, ReceiverRepeats DEF Known, Handshake, Fitting
    <2>3. ASSUME configs = 0
          PROVE  Calm(sess[Origin], v, txq[Origin], txq[Dest] \cup {AckHave(Dest, v)},
                      {}, {}, p, q)
      <3>1. AckHave(Dest, v).type # "G2_PROFILE_ACK" BY Types
      <3> QED BY <2>3, <3>1, ReceiverRepeatsCalm DEF Known, Handshake, Calming
    <2>4. Suits(sess[Origin], v, txq[Dest] \cup {AckHave(Dest, v)}, {}, {}, p, q,
                configs)
      <3>1. AckHave(Dest, v).type # "G2_PROFILE_ACK" BY Types
      <3> QED BY <3>1, ReceiverRepeatsSuits DEF Known, Handshake, Suiting
    <2> QED BY <2>1, <2>2, <2>3, <2>4, DestAnswers DEF Ready
  <1>4. CASE Answer(Dest, f)
    <2>1. ~Open(Dest) BY <1>4 DEF Answer, MayAnswer
    <2>2. ~Meets(v) BY <2>1 DEF Open, Terminal, Meets, Ready, Takes
    <2>3. /\ m.dir = "in" /\ m.src = Origin /\ m.st = "acked" /\ m.tx = "done"
          /\ m.work = NoToken
          /\ m.cap = (f.cap /\ q # NoToken)
          /\ m.trans = IF f.cap /\ q # NoToken THEN "ofdm_vhf" ELSE "vara_p2p"
          /\ m.tok = IF f.cap /\ q # NoToken /\ IsSC(q) /\ f.tok = q THEN q ELSE NoToken
      BY <1>1 DEF Receiver, After, NewSession
    <2>4. m \in Session
      <3>1. Heard(Dest, f, "HAVE_MSG") BY DEF RxHaveMsg
      <3> QED BY <1>1, <3>1, ReceiverGood DEF GoodSession
    <2>5. \/ \E frames : Become(Dest, Enter(m, "failed")) /\ SendAndStop(Dest, frames)
          \/ Become(Dest, m) /\ Send(Dest, {AckHave(Dest, m)})
      BY <1>4 DEF Answer
    <2> HIDE DEF m
    <2>6. CASE \E frames : Become(Dest, Enter(m, "failed")) /\ SendAndStop(Dest, frames)
      BY <1>1, <2>3, <2>4, <2>6, DestFails DEF FailWith
    <2>7. CASE Become(Dest, m) /\ Send(Dest, {AckHave(Dest, m)})
      <3>1. /\ sess'[Dest] = m
            /\ txq'[Dest] = txq[Dest] \cup {AckHave(Dest, m)}
        BY <1>1, <2>7, Becomes
      <3>2. Ready(m) /\ ReceiverFits(m) BY <2>3 DEF Ready, ReceiverFits
      <3>3. Fits(sess[Origin], m, txq[Origin], txq[Dest] \cup {AckHave(Dest, m)}, {},
                 {}, p, mail[Origin].box)
        BY <1>1, <2>2, <3>2, ReceiverAnswers DEF Known, Handshake, Fitting
      <3>4. ASSUME configs = 0
            PROVE  Calm(sess[Origin], m, txq[Origin], txq[Dest] \cup {AckHave(Dest, m)},
                        {}, {}, p, q)
        <4>1. Calming /\ Fitting BY <3>4 DEF Known, Handshake
        <4>2. /\ f.cap = (p # NoToken)
              /\ f.tok = IF p # NoToken /\ IsSC(p) THEN p ELSE NoToken
          BY <1>1, <4>1 DEF Calming, Calm, OffersCalm, Announces
        <4>3. m.cap = BothHave(p, q) BY <2>3, <4>2 DEF BothHave
        <4>4. AtFirst(m, p, q) BY <2>3, <4>2 DEF AtFirst, BothHave, Matched
        <4> QED BY <1>1, <2>2, <3>2, <4>1, <4>3, <4>4, ReceiverAnswersCalm
                DEF Calming, Fitting
      <3>5. Suits(sess[Origin], m, txq[Dest] \cup {AckHave(Dest, m)}, {}, {}, p, q,
                  configs)
        <4>1. AckHave(Dest, m).type # "G2_PROFILE_ACK" BY Types
        <4>2. /\ m.cap => q # NoToken
              /\ m.trans = IF m.cap THEN "ofdm_vhf" ELSE "vara_p2p"
          BY <2>3
        <4> QED BY <1>1, <4>1, <4>2, ReceiverAnswersSuits
                DEF Known, Handshake, Fitting, Suiting
      <3> QED BY <2>3, <3>1, <3>3, <3>4, <3>5, DestAnswers
    <2> QED BY <2>5, <2>6, <2>7
  <1> QED BY <1>2, <1>3, <1>4 DEF RxHaveMsg

\* The offer of a working channel.
LEMMA DestMoves ==
    ASSUME Known, Receive(Dest), NEW f, f = Head(inbox[Dest]), RxWorkingOffer(Dest, f)
    PROVE  Follows
  <1> DEFINE v == sess[Dest]
             p == profile[Origin]
             q == profile[Dest]
             n == [v EXCEPT !.work = Accepted]
             g == Tokened("WORKING_ACK", Dest, Origin, Accepted)
  <1>1. /\ IInv /\ Dest \in Station /\ v \in Session /\ Ready(v)
        /\ f \in Frames(inbox[Dest]) /\ f.src = Origin /\ f.type = "WORKING_OFFER"
    BY DestHears, TwoStations, TheReceiver
    DEF Known, RxWorkingOffer, Heard, In, Ready
  <1>2. f.tok = Channel
    BY <1>1 DEF Known, Handshake, Fitting, Fits, OffersFit
  <1>3. Become(Dest, n) /\ Send(Dest, {g})
    <2>1. PICK answer \in WorkingAccept :
            LET token == IF answer = "accept" THEN f.tok ELSE Calling IN
            Become(Dest, [v EXCEPT !.work = token])
            /\ Send(Dest, {Tokened("WORKING_ACK", Dest, f.src, token)})
      BY DEF RxWorkingOffer
    <2>2. (IF answer = "accept" THEN f.tok ELSE Calling) = Accepted
      BY <1>2 DEF Known, OneHopNet, Accepted
    <2> QED BY <1>1, <2>1, <2>2
  <1>4. sess'[Dest] = n /\ txq'[Dest] = txq[Dest] \cup {g} BY <1>1, <1>3, Becomes
  <1>5. /\ n.dir = v.dir /\ n.src = v.src /\ n.st = v.st /\ n.tx = v.tx
        /\ n.work = Accepted /\ n.trans = v.trans /\ n.tok = v.tok /\ n.cap = v.cap
    BY <1>1 DEF Session
  <1>6. n.dir = "in" /\ g.type = "WORKING_ACK" BY <1>1, <1>5, Types DEF Ready
  <1> HIDE DEF n
  <1>7. Fits(sess[Origin], n, txq[Origin], txq[Dest] \cup {g}, {}, {}, p,
             mail[Origin].box)
    BY <1>1, <1>5, ReceiverMoves DEF Known, Handshake, Fitting
  <1> HIDE DEF g
  <1>8. ASSUME configs = 0
        PROVE  Calm(sess[Origin], n, txq[Origin], txq[Dest] \cup {g}, {}, {}, p, q)
    <2>1. (Meets(n) => Meets(v)) /\ (Ready(v) => Ready(n))
      BY <1>5 DEF Meets, Ready, Takes
    <2> QED BY <1>5, <1>6, <1>8, <2>1, ReceiverRepeatsCalm DEF Known, Handshake, Calming
  <1>9. Suits(sess[Origin], n, txq[Dest] \cup {g}, {}, {}, p, q, configs)
    <2>1. Meets(n) => Meets(v) BY <1>5 DEF Meets, Ready, Takes
    <2> QED BY <1>5, <1>6, <2>1, ReceiverRepeatsSuits DEF Known, Handshake, Suiting
  <1> QED BY <1>4, <1>6, <1>7, <1>8, <1>9, DestAnswers

\* The offer of a profile.
LEMMA DestAgrees ==
    ASSUME Known, Receive(Dest), NEW f, f = Head(inbox[Dest]), RxG2ProfileOffer(Dest, f)
    PROVE  Follows
  <1> DEFINE v == sess[Dest]
             p == profile[Origin]
             q == profile[Dest]
             n == ProfileAnswer(v, f.tok, q)
             g == Tokened("G2_PROFILE_ACK", Dest, Origin, n.tok)
  <1>1. /\ Incoming /\ IInv /\ Dest \in Station /\ v \in Session /\ Ready(v)
        /\ v.dir = "in" /\ v.src = Origin
        /\ f \in Frames(inbox[Dest]) /\ f.type = "G2_PROFILE_OFFER"
    BY DestAlone, DestHears, TwoStations, TheReceiver
    DEF Known, RxG2ProfileOffer, Heard, In, Ready
  <1>2. \/ FailWith(Dest, v, Cancelling(Dest))
        \/ /\ Become(Dest, n) /\ Send(Dest, {g})
           /\ f.tok = q \/ A500 \notin {q, f.tok}
    BY <1>1 DEF RxG2ProfileOffer
  <1>3. CASE FailWith(Dest, v, Cancelling(Dest)) BY <1>1, <1>3, DestFails
  <1>4. CASE /\ Become(Dest, n) /\ Send(Dest, {g})
             /\ f.tok = q \/ A500 \notin {q, f.tok}
    <2>1. sess'[Dest] = n /\ txq'[Dest] = txq[Dest] \cup {g} BY <1>1, <1>4, Becomes
    <2>2. /\ n.dir = v.dir /\ n.src = v.src /\ n.st = v.st /\ n.tx = v.tx
          /\ n.work = v.work /\ n.cap = v.cap
          /\ IF v.trans # "vara_p2p" /\ q = f.tok
             THEN n.tok = f.tok /\ n.trans = IF f.tok = A500 THEN "ardop" ELSE v.trans
             ELSE n.tok = Calling /\ n.trans = "vara_p2p"
      BY <1>1 DEF ProfileAnswer, Agreed, Fallback, Session
    <2>3. g.type = "G2_PROFILE_ACK" BY Types
    <2> HIDE DEF n
    <2>4. Fits(sess[Origin], n, txq[Origin], txq[Dest] \cup {g}, {}, {}, p,
               mail[Origin].box)
      <3> HIDE DEF g
      <3> QED BY <1>1, <2>2, <2>3, ReceiverAgrees DEF Known, Handshake, Fitting
    <2>5. ASSUME configs = 0
          PROVE  Calm(sess[Origin], n, txq[Origin], txq[Dest] \cup {g}, {}, {}, p, q)
      <3>1. Calming /\ Fitting BY <2>5 DEF Known, Handshake
      <3>2. f.tok = p /\ Asked(p, q)
        BY <1>1, <3>1 DEF Calming, Calm, OffersCalm
      <3>3. p \notin {Calling, Channel} /\ q \notin {Calling, Channel}
        BY TwoStations DEF Known, OneHopNet, Handshake, Configured
      <3>4. AtFirst(v, p, q) \/ AtLast(v, p, q)
        BY <1>1, <3>1 DEF Calming, Calm, ReceiverCalm, Meets
      <3>5. AtLast(n, p, q)
        BY <2>2, <3>2, <3>3, <3>4
        DEF AtFirst, AtLast, Asked, Matched, BothHave, SettledToken, IsSC
      <3> QED BY <1>1, <2>2, <3>1, <3>5, ReceiverAgreesCalm DEF Calming, Fitting
    <2>6. Suits(sess[Origin], n, txq[Dest] \cup {g}, {}, {}, p, q, configs)
      <3>1. q \notin {Calling, Channel}
        BY <1>1 DEF Known, OneHopNet, Handshake, Configured
      <3> QED BY <1>1, <1>4, <2>2, <3>1, ReceiverAgreesSuits
              DEF Known, Handshake, Fitting, Suiting
    <2> QED BY <1>1, <2>1, <2>2, <2>4, <2>5, <2>6, DestAnswers
  <1> QED BY <1>2, <1>3, <1>4

\* The payload is about to come.
LEMMA DestStarts ==
    ASSUME Known, Receive(Dest), NEW f, f = Head(inbox[Dest]), RxStart(Dest, f)
    PROVE  Follows
  <1> DEFINE v == sess[Dest]
             k == Enter(v, "receiving")
  <1>1. /\ IInv /\ Dest \in Station /\ v \in Session /\ Ready(v)
        /\ f \in Frames(inbox[Dest]) /\ f.type = "START_VARA"
    BY DestHears, TwoStations, TheReceiver DEF Known, RxStart, Heard, In, Ready
  <1>0. PICK began \in BOOLEAN :
            Become(Dest, [k EXCEPT !.rx = began]) /\ UNCHANGED txq
    BY DEF RxStart
  <1> DEFINE n == [k EXCEPT !.rx = began]
  <1>2. sess'[Dest] = n /\ txq'[Dest] = txq[Dest] BY <1>0, <1>1, Becomes
  <1>3. /\ n.dir = v.dir /\ n.src = v.src /\ n.st = "receiving" /\ n.tx = "done"
        /\ n.work = v.work /\ n.trans = v.trans /\ n.tok = v.tok /\ n.cap = v.cap
    BY <1>1 DEF Enter, Session
  <1> HIDE DEF n
  <1>4. Fits(sess[Origin], n, txq[Origin], txq[Dest], {}, {}, profile[Origin],
             mail[Origin].box)
    BY <1>1, <1>3, ReceiverStarts DEF Known, Handshake, Fitting
  <1>5. ASSUME configs = 0
        PROVE  Calm(sess[Origin], n, txq[Origin], txq[Dest], {}, {}, profile[Origin],
                    profile[Dest])
    BY <1>1, <1>3, <1>5, ReceiverStartsCalm DEF Known, Handshake, Calming
  <1>6. Suits(sess[Origin], n, txq[Dest], {}, {}, profile[Origin], profile[Dest],
              configs)
    <2>1. Meets(v) /\ ~Ready(n) BY <1>1, <1>3 DEF Meets, Ready
    <2> QED BY <1>3, <2>1, ReceiverStaysSuits DEF Known, Handshake, Suiting
  <1> QED BY <1>1, <1>2, <1>3, <1>4, <1>5, <1>6, DestAnswers DEF Ready

\* The frame handlers.
LEMMA DestReceives ==
    ASSUME Known, Receive(Dest)
    PROVE  Follows
  <1> DEFINE v == sess[Dest]
             f == Head(inbox[Dest])
  <1>1. /\ Incoming /\ IInv /\ Dest \in Station /\ v \in Session /\ v.dir # "out"
        /\ v.dir = "in" => v.src = Origin
        /\ f.type # "DELIVERED" /\ f.src = Origin
    BY DestAlone, DestHears, TwoStations, TheReceiver DEF Known
  <1>2. /\ ~RxRouteOffer(Dest, f) /\ ~RxAck(Dest, f) /\ ~RxWorkingAck(Dest, f)
        /\ ~RxG2ProfileAck(Dest, f) /\ ~RxBusy(Dest, f) /\ ~RxReceived(Dest, f)
        /\ ~RxStrayReceipt(Dest, f) /\ ~RxDelivered(Dest, f)
    BY <1>1 DEF RxRouteOffer, RxAck, RxWorkingAck, RxG2ProfileAck, RxBusy, RxReceived,
       RxStrayReceipt, RxDelivered, Heard, Out
  <1>3. CASE Miss(Dest) BY <1>1, <1>3, DestStays DEF Miss, AlikeIn
  <1>4. CASE RxRouteQuery(Dest, f)
    <2>1. /\ UNCHANGED sess
          /\ txq'[Dest] = txq[Dest] \cup {FrameTo("ROUTE_OFFER", Dest, f.src)}
      BY <1>1, <1>4, Becomes DEF RxRouteQuery
    <2>2. FrameTo("ROUTE_OFFER", Dest, f.src).type \notin Agreement
      BY Types DEF Agreement
    <2> QED BY <1>1, <2>1, <2>2, DestStays DEF AlikeIn
  <1>5. CASE RxCancel(Dest, f)
    <2>1. /\ v.dir = "in" /\ Become(Dest, Enter(v, "cancelled"))
          /\ SendAndStop(Dest, {})
      BY <1>1, <1>5 DEF RxCancel, Open, Session
    <2>2. /\ sess'[Dest] = Enter(v, "cancelled")
          /\ txq'[Dest] = Answers(txq[Dest] \cup {})
      BY <1>1, <2>1, Becomes
    <2> QED BY <1>1, <2>1, <2>2, AnswersOnly, DestEnters DEF Over
  <1>6. CASE \/ RxHaveMsg(Dest, f) \/ RxWorkingOffer(Dest, f)
             \/ RxG2ProfileOffer(Dest, f) \/ RxStart(Dest, f)
    <2> HIDE DEF f
    <2> QED BY <1>6, DestAnnounced, DestMoves, DestAgrees, DestStarts DEF f
  <1> HIDE DEF f
  <1> QED BY <1>2, <1>3, <1>4, <1>5, <1>6 DEF Receive, f

\* A frame of the receiver goes on the air.
LEMMA DestTransmits ==
    ASSUME Known, Transmit(Dest)
    PROVE  Follows
  <1> DEFINE p == profile[Origin]
             q == profile[Dest]
  <1>1. IInv /\ OneHopNet /\ Origin \in Station /\ Dest \in Station /\ Origin # Dest
    BY TwoStations DEF Known
  <1>2. PICK f \in txq[Dest] : txq' = [txq EXCEPT ![Dest] = @ \ {f}] /\ Air(Dest, f)
    BY DEF Transmit
  <1>3. UNCHANGED <<sess, mail, profile, configs>> BY DEF Transmit, RxRest
  <1>4. txq'[Dest] = txq[Dest] \ {f} /\ txq'[Origin] = txq[Origin]
    BY <1>1, <1>2 DEF IInv, TxqInv
  <1>5. /\ Frames(inbox[Origin]) = {} /\ Frames(inbox[Dest]) = {}
        /\ Frames(inbox'[Dest]) = {} /\ Frames(inbox'[Origin]) \subseteq {f}
    BY <1>1, <1>2, OneAired
  <1>6. Fits(sess[Origin], sess[Dest], txq[Origin], txq[Dest] \ {f},
             Frames(inbox'[Origin]), {}, p, mail[Origin].box)
    BY <1>5, ReceiverSends DEF Known, Handshake, Fitting
  <1>7. ASSUME configs = 0
        PROVE  Calm(sess[Origin], sess[Dest], txq[Origin], txq[Dest] \ {f},
                    Frames(inbox'[Origin]), {}, p, q)
    <2>1. p \notin {Calling, Channel} /\ q \notin {Calling, Channel}
      BY <1>1 DEF Known, OneHopNet, Handshake, Configured
    <2> QED BY <1>5, <1>7, <2>1, ReceiverSendsCalm
            DEF Known, Handshake, Fitting, Calming
  <1>8. Suits(sess[Origin], sess[Dest], txq[Dest] \ {f}, Frames(inbox'[Origin]), {},
              p, q, configs)
    BY <1>5, ReceiverSendsSuits DEF Known, Handshake, Suiting
  <1> QED BY <1>3, <1>4, <1>5, <1>6, <1>7, <1>8 DEF Follows

\* The receiver starts again.
LEMMA DestRestarts ==
    ASSUME Known, Restart(Dest)
    PROVE  Follows
  <1>1. IInv /\ Origin \in Station /\ Dest \in Station /\ Origin # Dest
    BY TwoStations DEF Known
  <1>2. /\ sess'[Dest] = NoSession /\ sess'[Origin] = sess[Origin]
        /\ txq'[Dest] = {} /\ txq'[Origin] = txq[Origin]
        /\ inbox'[Dest] = <<>> /\ inbox'[Origin] = inbox[Origin]
        /\ UNCHANGED <<mail, profile, configs>>
    BY <1>1 DEF Restart, IInv, SessInv, TxqInv, InboxInv
  <1>3. NoSession.dir = "none" /\ NoSession.tx = "done"
    BY DEF NoSession, NewSession
  <1>4. ~Meets(NoSession) /\ ReceiverFits(NoSession)
    BY <1>3 DEF Meets, Ready, Takes, ReceiverFits
  <1>5. Incoming BY <1>2, FrameSets DEF Incoming
  <1> QED BY <1>2, <1>4, <1>5, DestEnds

\* A profile is changed between two sessions of the station.
LEMMA Reconfigured ==
    ASSUME Known, NEW s \in Station, Reconfigure(s)
    PROVE  Follows
  <1>1. IInv /\ Station = {Origin, Dest} /\ Origin # Dest
    BY TwoStations DEF Known
  <1>2. /\ UNCHANGED <<sess, mail, txq, inbox>> /\ configs' = configs + 1 /\ ~Open(s)
        /\ \A t \in Station \ {s} : profile'[t] = profile[t]
    BY <1>1 DEF Reconfigure, IInv, RestInv
  <1>3. configs' # 0 BY <1>1, <1>2 DEF IInv, RestInv
  <1>4. Fits(sess[Origin], sess[Dest], txq[Origin], txq[Dest], Frames(inbox[Origin]),
             Frames(inbox[Dest]), profile'[Origin], mail[Origin].box)
    <2>1. CASE s = Dest BY <1>1, <1>2, <2>1 DEF Known, Handshake, Fitting
    <2>2. CASE s = Origin
      <3>1. sess[Origin].dir = "none" \/ sess[Origin].st \in Terminal
        BY <1>2, <2>2 DEF Open
      <3>2. ~Engaged(sess[Origin]) BY <3>1 DEF Engaged, Terminal
      <3>3. SenderFits(sess[Origin], profile'[Origin])
        BY <3>1 DEF Known, Handshake, Fitting, Fits, SenderFits, Terminal
      <3>4. AsksFit(txq[Origin], sess[Origin], mail[Origin].box)
        BY DEF Known, Handshake, Fitting, Fits
      <3> QED BY <3>2, <3>3, <3>4, SenderRests DEF Known, Handshake, Fitting
    <2> QED BY <1>1, <2>1, <2>2
  <1>5. Suits(sess[Origin], sess[Dest], txq[Dest], Frames(inbox[Origin]),
              Frames(inbox[Dest]), profile'[Origin], profile'[Dest], configs')
    <2> DEFINE u == sess[Origin]
               v == sess[Dest]
               p == profile[Origin]
               q == profile[Dest]
               B == txq[Dest]
               X == Frames(inbox[Origin])
               Y == Frames(inbox[Dest])
    <2>1. Suits(u, v, B, X, Y, p, q, configs) BY DEF Known, Handshake, Suiting
    <2>2. configs \in Nat BY DEF Known, IInv, RestInv
    <2>3. configs' <= 1 => configs = 0 /\ configs <= 1 BY <1>2, <2>2
    <2>4. p \notin {Calling, Channel} /\ q \notin {Calling, Channel}
      BY <1>1 DEF Known, OneHopNet, Handshake, Configured
    <2>5. ASSUME configs' <= 1
          PROVE  /\ Calm(u, v, txq[Origin], B, X, Y, p, q)
                 /\ AnswersSuit(B, v, Y, p, q) /\ HeardSuit(X, v)
                 /\ OffersSuit(Y, v, p, q)
      BY <2>1, <2>3, <2>5 DEF Known, Handshake, Calming, Suits
    <2> HIDE DEF u, v, p, q, B, X, Y
    <2>6. CASE s = Origin
      <3>1. profile'[Dest] = q BY <1>1, <1>2, <2>6 DEF q
      <3>2. ~Engaged(u) BY <1>2, <2>6 DEF Open, Engaged, Terminal, u
      <3>3. ASSUME configs' <= 1
            PROVE  AnswersSuit(B, v, Y, profile'[Origin], q)
        <4> SUFFICES ASSUME NEW f \in B, f.type = "G2_PROFILE_ACK", f.tok # Calling
                     PROVE  ~Fallen(v) /\ f.tok = q /\ f.tok = A500
          BY DEF AnswersSuit
        <4>1. ~Fallen(v) /\ f.tok = q BY <2>5, <3>3 DEF AnswersSuit
        <4>2. f.tok = SettledToken(p, q)
          BY <2>5, <3>3 DEF Calm, AnswersCalm, Tokened, FrameTo
        <4> QED BY <4>1, <4>2 DEF SettledToken
      <3>4. ASSUME configs' <= 1
            PROVE  OffersSuit(Y, v, profile'[Origin], q)
        <4> SUFFICES ASSUME NEW g \in Y, g.type = "G2_PROFILE_OFFER", g.tok = q, IsSC(q)
                     PROVE  FALSE
          BY DEF OffersSuit
        <4>1. g.tok = p /\ Asked(p, q) BY <2>5, <3>4 DEF Calm, OffersCalm
        <4> QED BY <4>1 DEF Asked, Matched
      <3>5. ReceiverSuits(v, q) /\ EndsSuit(u, v, configs')
        BY <2>1, <3>2 DEF Suits, EndsSuit
      <3> QED BY <2>5, <3>1, <3>3, <3>4, <3>5 DEF Suits, u, v, B, X, Y
    <2>7. CASE s = Dest
      <3>1. profile'[Origin] = p BY <1>1, <1>2, <2>7 DEF p
      <3>2. ~Meets(v) /\ ~Ready(v)
        BY <1>2, <2>7 DEF Open, Meets, Ready, Takes, Terminal, v
      <3>3. ~Listens(v) /\ ~Fallen(v) BY <3>2 DEF Listens, Fallen
      <3>4. configs' <= 1 => \A f \in B : f.type # "G2_PROFILE_ACK"
        BY <2>5, <3>2 DEF Calm, AnswersCalm
      <3> HIDE DEF Fallen
      <3>5. Suits(u, v, B, X, Y, p, profile'[Dest], configs')
        BY <2>5, <3>2, <3>3, <3>4
        DEF Suits, ReceiverSuits, EndsSuit, AnswersSuit, HeardSuit, OffersSuit
      <3> QED BY <3>1, <3>5 DEF u, v, B, X, Y
    <2> QED BY <1>1, <2>6, <2>7
  <1> QED BY <1>2, <1>3, <1>4, <1>5 DEF Follows

\* The author's mail came from nobody.
LEMMA StillFromHere ==
    ASSUME Known, Moves
    PROVE  FromHere'
  <1> DEFINE e == mail[Origin]
             m == sess'[Origin]
  <1>1. e \in Mail /\ e.prev = NoStation /\ e.hops = <<>> /\ MailMoves(Origin)
    BY TwoStations DEF Known, IInv, MailInv, Handshake, FromHere, Moves
  <1>2. ~In(Origin, "receiving") BY TheSender DEF In
  <1>3. MailAfter(e, m).prev = e.prev /\ MailAfter(e, m).hops = e.hops
    <2> DEFINE k == m.st
    <2>1. Filed(e, k).prev = e.prev /\ Filed(e, k).hops = e.hops
      <3> HIDE DEF k
      <3>1. \/ Filed(e, k) = e
            \/ \E b, v : Filed(e, k) = [e EXCEPT !.box = b, !.status = v]
            \/ \E v : Filed(e, k) = [e EXCEPT !.status = v]
        BY DEF Filed
      <3> QED BY <1>1, <3>1 DEF Mail
    <2> HIDE DEF k
    <2> QED BY <2>1 DEF MailAfter, k
  <1> HIDE DEF m
  <1>4. mail'[Origin].prev = e.prev /\ mail'[Origin].hops = e.hops
    BY <1>1, <1>2, <1>3 DEF MailMoves, m, Mail
  <1> QED BY <1>1, <1>4 DEF FromHere

\* At most one frame is on its way.
LEMMA StillOneInFlight ==
    ASSUME Known, NEW s \in Station,
           \/ Operator(s) \/ Discoverer(s) \/ Payload(s) \/ Tick(s)
           \/ Receive(s) \/ Transmitter(s) \/ Restart(s)
    PROVE  OneInFlight'
  <1>1. IInv /\ OneHopNet /\ OneInFlight BY DEF Known, Handshake
  <1>2. CASE UNCHANGED inbox BY <1>1, <1>2 DEF OneInFlight
  <1>3. CASE Operator(s) \/ Discoverer(s) \/ Payload(s) \/ Tick(s)
    BY <1>2, <1>3, NothingHeard
  <1>4. CASE Receive(s) BY <1>1, <1>4, ReceiveTakes, OneHandled
  <1>5. CASE Transmitter(s)
    <2>1. CASE StartComplete(s)
      BY <1>2, <2>1 DEF StartComplete, TimerRest, StationRest, AllButLate
    <2>2. CASE Transmit(s) \/ TransmitGuarded(s)
      <3>1. \E f : Air(s, f) BY <2>2 DEF Transmit, TransmitGuarded
      <3> QED BY <1>1, <3>1, OneAired
    <2> QED BY <1>5, <2>1, <2>2 DEF Transmitter
  <1>6. CASE Restart(s)
    <2>1. /\ inbox'[s] = <<>> /\ Len(<<>>) <= 1
          /\ \A t \in Station \ {s} : inbox'[t] = inbox[t]
      BY <1>1, <1>6, FrameSets DEF Restart, IInv, InboxInv
    <2> QED BY <1>1, <2>1, TwoStations DEF OneInFlight
  <1> QED BY <1>3, <1>4, <1>5, <1>6

\* Every step keeps the handshake.
LEMMA NextHandshake ==
    ASSUME Known, Next, late' = {}
    PROVE  Handshake'
  <1>1. PICK s \in Station :
            \/ Operator(s) \/ Discoverer(s) \/ Payload(s) \/ Tick(s)
            \/ Receive(s) \/ Transmitter(s) \/ Restart(s)
    BY DEF Next
  <1>2. /\ IInv /\ WayInv /\ OneHopNet /\ Station = {Origin, Dest}
        /\ Origin \in Station /\ Dest \in Station
    BY TwoStations DEF Known
  <1>0. Prompt' /\ ~LateFails(s) /\ ~LateCompletes(s)
    BY DEF Prompt, LateFails, LateCompletes, Mistaken
  <1>3. OneInFlight' BY <1>1, StillOneInFlight
  <1>4. FromHere'
    BY <1>0, <1>1, <1>2, StillFromHere, OperatorMoves, PayloadMoves, TickMoves, ReceiveMoves,
       TransmitterMoves, RestartMoves
  <1>5. Configured'
    <2>1. CASE UNCHANGED profile BY <2>1 DEF Known, Handshake, Configured
    <2>2. CASE Reconfigure(s)
      BY <1>2, <2>2 DEF Reconfigure, Known, Handshake, Configured, IInv, RestInv
    <2>3. CASE ~Reconfigure(s)
      <3>1. UNCHANGED profile BY <1>1, <2>3, SettingsStay
      <3> QED BY <2>1, <3>1
    <2> QED BY <2>2, <2>3
  <1>6. Follows
    <2>1. CASE Reconfigure(s) BY <2>1, Reconfigured
    <2> DEFINE sent == \E r \in Station : PayloadArrives(s, r) \/ PayloadStrays(s, r)
    <2>2. CASE sent BY <2>2, DestGets, DestStrays
    <2>3. CASE s = Origin /\ ~Reconfigure(s) /\ ~sent
      <3>1. ~ReceiveFails(Origin) /\ ~ReceiveCompletes(Origin)
        BY TheSender DEF ReceiveFails, ReceiveCompletes, In
      <3> QED BY <1>0, <1>1, <2>3, <3>1, OriginOperates, OriginSent, OriginTicks,
                 OriginReceives, OriginTransmits, OriginKeys, OriginBegins,
                 OriginRestarts DEF Payload, Transmitter
    <2>4. CASE s = Dest /\ ~Reconfigure(s) /\ ~sent
      <3>1. ~SendDone(Dest) /\ ~TransmitGuarded(Dest) /\ ~StartComplete(Dest)
        BY TheReceiver DEF SendDone, TransmitGuarded, StartComplete, Out
      <3> QED BY <1>0, <1>1, <2>4, <3>1, DestWorks, DestReceives, DestTransmits,
                 DestRestarts DEF Payload, Transmitter
    <2> QED BY <1>2, <2>1, <2>2, <2>3, <2>4
  <1> QED BY <1>3, <1>4, <1>5, <1>6, FollowsNext DEF Handshake

\* Nobody has said anything yet.
LEMMA InitHandshake ==
    ASSUME Init, OneHopNet
    PROVE  Handshake
  <1>1. Origin \in Station /\ Dest \in Station /\ Origin # Dest /\ Station = {Origin, Dest}
    BY TwoStations
  <1>2. /\ sess[Origin] = NoSession /\ sess[Dest] = NoSession
        /\ txq[Origin] = {} /\ txq[Dest] = {}
        /\ \A s \in Station : inbox[s] = <<>>
        /\ mail[Origin].prev = NoStation /\ mail[Origin].hops = <<>>
        /\ \A s \in Station : profile[s] \in Profiles[s]
    BY <1>1 DEF Init, NoMail
  <1>3. OneInFlight /\ FromHere /\ Configured
    BY <1>1, <1>2, FrameSets DEF OneInFlight, FromHere, Configured
  <1>4. NoSession.dir = "none" /\ NoSession.tx = "done"
    BY DEF NoSession, NewSession
  <1> HIDE DEF NoSession
  <1>5. Fits(NoSession, NoSession, {}, {}, {}, {}, profile[Origin], mail[Origin].box)
    BY <1>4 DEF Fits, SenderFits, AsksFit, ReceiverFits, AnswersFit, HeardFits,
       OffersFit, EndsFit, Engaged, Later, Begun, Meets, Ready, Takes
  <1>6. Calm(NoSession, NoSession, {}, {}, {}, {}, profile[Origin], profile[Dest])
    BY <1>4 DEF Calm, SenderCalm, ReceiverCalm, AnswersCalm, HeardCalm, OffersCalm,
       EndsCalm, Engaged, Later, Begun, Meets, Ready, Takes
  <1>7. Suits(NoSession, NoSession, {}, {}, {}, profile[Origin], profile[Dest], configs)
    BY <1>4 DEF Suits, ReceiverSuits, EndsSuit, AnswersSuit, HeardSuit, OffersSuit,
       Listens, Fallen, Engaged, Meets, Ready, Takes
  <1> QED BY <1>1, <1>2, <1>3, <1>5, <1>6, <1>7, FrameSets
          DEF Handshake, Fitting, Calming, Suiting

\* It says that the two ends of a payload agree.
LEMMA HandshakeAgrees ==
    ASSUME Known
    PROVE  SettledHandoff
  <1> SUFFICES ASSUME configs = 0, late = {}, NEW a \in Station, NEW r \in Station,
                      Out(a, "transferring"), ~sess[a].sent, sess[a].hop = r,
                      In(r, "receiving"), sess[r].src = a
               PROVE  Compatible(sess[a], sess[r])
    BY DEF SettledHandoff, HandoffAgrees
  <1> DEFINE u == sess[Origin]
             v == sess[Dest]
             p == profile[Origin]
             q == profile[Dest]
  <1>1. a = Origin /\ r = Dest
    BY TwoStations, TheSender, TheReceiver DEF Known, Out, In
  <1>2. Begun(u) /\ Later(u) /\ Takes(v) /\ Meets(v)
    BY <1>1 DEF Out, In, Begun, Later, Engaged, Takes, Meets
  <1>3. u.work = v.work
    BY <1>2 DEF Known, Handshake, Fitting, Fits, EndsFit
  <1>4. u.trans = v.trans /\ (u.trans = "vara_p2p" \/ u.tok = v.tok)
    <2>1. /\ ~Asked(p, q) => AtFirst(u, p, q)
          /\ Asked(p, q) => IF p = q THEN AtLast(u, p, q) ELSE u.trans = "vara_p2p"
      BY <1>2 DEF Known, Handshake, Calming, Calm, SenderCalm
    <2>2. /\ AtFirst(v, p, q) \/ (Asked(p, q) /\ AtLast(v, p, q))
          /\ Asked(p, q) => AtLast(v, p, q)
      BY <1>2 DEF Known, Handshake, Calming, Calm, ReceiverCalm, EndsCalm
    <2> QED BY <2>1, <2>2 DEF AtFirst, AtLast
  <1> QED BY <1>1, <1>3, <1>4 DEF Compatible, Tuned

\* And that the sender plays VARA to a receiver that listens for it.
LEMMA HandshakeIsHeard ==
    ASSUME Known
    PROVE  ListenersHearTheirModem
  <1> SUFFICES ASSUME configs <= 1, late = {}, NEW a \in Station, NEW r \in Station,
                      Out(a, "transferring"), ~sess[a].sent, sess[a].hop = r,
                      In(r, "receiving"), sess[r].src = a, sess[r].trans = "vara_p2p"
               PROVE  sess[a].trans = "vara_p2p"
    BY DEF ListenersHearTheirModem
  <1>1. a = Origin /\ r = Dest
    BY TwoStations, TheSender, TheReceiver DEF Known, Out, In
  <1>2. Begun(sess[Origin]) /\ Engaged(sess[Origin]) /\ Listens(sess[Dest])
    BY <1>1 DEF Out, In, Begun, Later, Engaged, Listens, Meets, Takes
  <1> QED BY <1>1, <1>2 DEF Known, Handshake, Suiting, Suits, EndsSuit

\* In a net of one hop the handshake is kept until a late reception reports.
LEMMA HandshakeHolds ==
    ASSUME OneHopNet
    PROVE  Spec => [](late = {} => IInv /\ WayInv /\ Handshake)
  <1>1. IInv /\ WayInv /\ Handshake /\ late' = {} /\ [Next]_vars => Handshake'
    <2>1. ASSUME Handshake, UNCHANGED vars PROVE Handshake'
      <3>1. /\ sess' = sess /\ mail' = mail /\ txq' = txq /\ inbox' = inbox
            /\ profile' = profile /\ configs' = configs
        BY <2>1 DEF vars
      <3>2. Follows BY <2>1, <3>1 DEF Handshake, Fitting, Calming, Suiting, Follows
      <3>3. Fitting' /\ (configs = 0 => Calming)' /\ Suiting' BY <3>2, FollowsNext
      <3>4. OneInFlight' BY <2>1, <3>1 DEF Handshake, OneInFlight
      <3>5. FromHere' BY <2>1, <3>1 DEF Handshake, FromHere
      <3>6. Configured' BY <2>1, <3>1 DEF Handshake, Configured
      <3> QED BY <3>3, <3>4, <3>5, <3>6 DEF Handshake
    <2> QED BY <2>1, NextHandshake DEF Known
  <1>2. Init => Handshake BY InitHandshake
  <1>3. late' = {} /\ [Next]_vars => late = {} BY LateGrows DEF vars
  <1>4. late = {} => Prompt BY DEF Prompt
  <1> DEFINE Quiet == late = {}
  <1>5. /\ IInv /\ WayInv /\ Handshake /\ Quiet' /\ [Next]_vars => Handshake'
        /\ Quiet' /\ [Next]_vars => Quiet
        /\ Quiet => Prompt
    BY <1>1, <1>3, <1>4
  <1>6. Spec => [](Quiet => IInv /\ WayInv /\ Handshake)
    <2> HIDE DEF Quiet
    <2> QED BY <1>2, <1>5, Invariance, MessageKeepsToWays, PTL DEF Spec
  <1> QED BY <1>6

\* The two stations of a net of one hop start the same modem on the same channel,
\* as long as no operator changes a profile and no late reception reports.
THEOREM HandoffIsSettled ==
    ASSUME OneHopNet
    PROVE  Spec => []SettledHandoff
  <1>1. IInv /\ WayInv /\ Handshake => SettledHandoff BY HandshakeAgrees DEF Known
  <1>2. ~(late = {}) => SettledHandoff BY DEF SettledHandoff
  <1> QED BY <1>1, <1>2, HandshakeHolds, PTL

\* In a net of one hop a station that listens for VARA is not played another
\* modem, as long as at most one operator changed a profile and no late
\* reception reports.
THEOREM ListenersAreHeard ==
    ASSUME OneHopNet
    PROVE  Spec => []ListenersHearTheirModem
  <1>1. IInv /\ WayInv /\ Handshake => ListenersHearTheirModem
    BY HandshakeIsHeard DEF Known
  <1>2. ~(late = {}) => ListenersHearTheirModem BY DEF ListenersHearTheirModem
  <1> QED BY <1>1, <1>2, HandshakeHolds, PTL
=============================================================================
