--------------------------- MODULE WarshipsProofs ---------------------------
(***************************************************************************)
(* Proofs about Warships for any board, any fleets and any number of        *)
(* attempts and of frames that are lost, late, repeated or not transmitted. *)
(*                                                                         *)
(* The frames of a game are many and may be repeated; what keeps it fair is *)
(* that a frame is true whenever it is heard (Says): a result stands among  *)
(* the responses of its sender, and the acknowledgement of a result comes   *)
(* from one who has counted the turn.  So the attacker counts a turn first, *)
(* the attacked only after it, and their counts are never further apart     *)
(* (InStep); the parity of its count tells a player whose turn it is        *)
(* (OnTurn).  GameInv is the inductive invariant.                          *)
(***************************************************************************)
EXTENDS Warships, TLAPS

GameOps == Results \cup {"NONE", "INVITE", "ACCEPT", "DECLINE", "READY", "SHOT", "ACK",
                         "RESIGN", "CANCEL"}
GameEvents == [op : GameOps, turn : Nat, at : SUBSET Cell, of : GameOps]
GameFrames == [session : Player \cup {"none"}, event : GameEvents]
Opening == {"LOBBY", "INVITE_SENT", "INVITE_RECEIVED", "PLACING", "READY_WAIT"}
Attack == {"MY_TURN", "SHOT_QUEUED", "WAIT_RESULT"}
Defence == {"PEER_TURN", "ACK_QUEUED", "WAIT_RESULT_ACK"}
GameStates == Opening \cup Attack \cup Defence \cup Ended \cup {"PAUSED", "ENDING", "none"}
Games == [st : GameStates, was : GameStates, session : Player \cup {"none"},
          initiator : BOOLEAN, pending : SUBSET GameEvents, queued : SUBSET GameEvents,
          sent : SUBSET (GameEvents \X Nat), turn : Nat, target : SUBSET Cell,
          enemy : [Cell -> Results \cup {"none"}], sunk : SUBSET SUBSET Cell,
          hits : SUBSET Cell, ready : BOOLEAN, peerReady : BOOLEAN, readyAck : BOOLEAN,
          history : SUBSET GameEvents, responses : SUBSET GameEvents]

\* Whose turn the number of turns says it is.
OnTurn(g) == g.initiator <=> g.turn % 2 = 0
\* The fleet of a player is hit, as its own record of the hits has it.
Sunken(p, hits) == UNION Fleet[p] \subseteq hits

\* What a player says with an event is so: H are the hits the other has taken,
\* R the players that have resigned.
Says(p, g, H, R, e) ==
    /\ e.op \in Results => e \in g.responses
    /\ e.op = "SHOT" => \E c \in Cell : e.at = {c}
    /\ e.op = "ACK" /\ e.of \in Results => e.turn < g.turn
    /\ e.op = "ACK" /\ e.of = "LOSS" => Sunken(Other(p), H)
    /\ e.op = "RESIGN" => p \in R
Asks(p, g, H, R, e) == IF e.op = "INVITE" THEN g.session = p ELSE Says(p, g, H, R, e)

\* A game may be in state b.
Placed(p, g, H, R, b) ==
    /\ b = "LOBBY" <=> g.session = "none"
    /\ b \in Opening => g.turn = 0 /\ g.responses = {}
    /\ b = "INVITE_SENT" => g.initiator /\ \A e \in g.history : e.op = "ACK"
    /\ b \in Attack => OnTurn(g)
    /\ b \in Defence => ~OnTurn(g)
    /\ \A r \in g.responses :
         r.turn = g.turn => b \in {"WAIT_RESULT_ACK", "ENDING"} \cup Ended
    /\ b = "WON" => Other(p) \in R \/ Sunken(Other(p), H)
    /\ b = "LOST" => p \in R \/ Sunken(p, g.hits)

\* What was answered.
Answered(p, g) ==
    /\ \A r \in g.responses :
         /\ r.op \in Results /\ r.turn <= g.turn /\ r.at \subseteq g.hits
         /\ r.turn < g.turn => \E a \in g.history : a.op = "ACK" /\ a.turn = r.turn /\ a.of = r.op
         /\ r.op = "MISS" => r.at \cap UNION Fleet[p] = {}
         /\ r.op # "MISS" => r.at \subseteq UNION Fleet[p]
         /\ r.op = "LOSS" => Sunken(p, g.hits)
    /\ \A r, s \in g.responses : r.turn = s.turn => r = s

\* What was heard and is believed.
Recorded(p, g, H) ==
    /\ \A e \in g.history :
         /\ e.op = "SHOT" => \E r \in g.responses : r.turn = e.turn
         /\ e.op \in Results => e.turn < g.turn
         /\ e.op = "LOSS" => Sunken(Other(p), H)
    /\ \A c \in Cell : g.enemy[c] # "none" =>
         c \in H /\ (g.enemy[c] = "MISS" <=> c \notin UNION Fleet[Other(p)])

Own(p, g, H, R) ==
    /\ g \in Games
    /\ \A e \in g.pending : Asks(p, g, H, R, e)
    /\ Placed(p, g, H, R, Before(g))
    /\ Answered(p, g) /\ Recorded(p, g, H)
    /\ Before(g) = "INVITE_SENT" => \A e \in g.pending : e.op = "INVITE"
    /\ g.session = "none" => g.pending = {} /\ g.st = "LOBBY"
    /\ g.initiator <=> g.session = p

\* A game in which the other has no part yet.
Blank(g) ==
    /\ g.turn = 0 /\ g.responses = {} /\ g.hits = {} /\ g.history = {}
    /\ \A c \in Cell : g.enemy[c] = "none"
    /\ Before(g) \in {"LOBBY", "INVITE_SENT", "DECLINED", "ENDING"}
    /\ \A e \in g.pending : e.op \in {"INVITE", "RESIGN", "CANCEL"}

Joined(p) == game[p].session # "none" /\ game[p].session = game[Other(p)].session

\* The attacker of a turn counts it before the other does.
Ahead(g, h) == g.turn = h.turn + 1 /\ (g.initiator <=> h.turn % 2 = 0)
InStep(g, h) == g.turn = h.turn \/ Ahead(g, h) \/ Ahead(h, g)

Framed(p, g, H, R, f) ==
    IF f.event.op = "INVITE"
    THEN f.session = p /\ g.session # "none" /\ (p = First => g.session = p)
    ELSE /\ f.session = g.session /\ g.session # "none" /\ Before(g) # "INVITE_SENT"
         /\ Says(p, g, H, R, f.event)

\* The frames of p that are on their way to the other.
OnWay(p) == ({tx[p]} \ {NoFrame}) \cup
            {inbox[Other(p)][i] : i \in 1..Len(inbox[Other(p)])}
FramedNow(p, f) == Framed(p, game[p], game[Other(p)].hits, resigned, f)
GameTypes ==
    /\ game \in [Player -> Games] /\ tx \in [Player -> GameFrames]
    /\ done \in [Player -> SUBSET (GameEvents \X BOOLEAN)]
    /\ inbox \in [Player -> Seq(GameFrames)]
GameInv ==
    /\ GameTypes
    /\ \A p \in Player :
         /\ Own(p, game[p], game[Other(p)].hits, resigned)
         /\ Joined(p) \/ Blank(game[p])
         /\ game[p].session \in {p, Other(p), "none"}
         /\ game[p].session = Other(p) => game[Other(p)].session = Other(p)
         /\ InStep(game[p], game[Other(p)])
         /\ \A f \in OnWay(p) : FramedNow(p, f)

\* What no answer and no frame takes back.
Keeps(g, h) ==
    /\ h.session = g.session /\ h.initiator = g.initiator
    /\ g.responses \subseteq h.responses /\ g.turn <= h.turn /\ g.hits \subseteq h.hits
    /\ Before(h) = "INVITE_SENT" => Before(g) = "INVITE_SENT"

\* What changes with the state alone leaves.
Rest(g, h) ==
    /\ h.session = g.session /\ h.initiator = g.initiator /\ h.turn = g.turn
    /\ h.enemy = g.enemy /\ h.hits = g.hits /\ h.responses = g.responses
    /\ h.history = g.history

----------------------------------------------------------------------------
(* The operators the model is built from.                                  *)

LEMMA OtherIsOther ==
    ASSUME GameAssumption, NEW p \in Player
    PROVE  /\ Other(p) \in Player /\ Other(p) # p /\ Other(Other(p)) = p
           /\ \A q \in Player : q = p \/ q = Other(p)
  <1>1. PICK a, b \in Player : a # b /\ Player = {a, b}
    BY DEF GameAssumption
  <1>2. \E q \in Player : q # p
    BY <1>1
  <1>3. Other(p) \in Player /\ Other(p) # p
    BY <1>2 DEF Other
  <1>4. \E q \in Player : q # Other(p)
    BY <1>3
  <1>5. Other(Other(p)) \in Player /\ Other(Other(p)) # Other(p)
    BY <1>4 DEF Other
  <1> QED
    BY <1>1, <1>3, <1>5

\* Parity changes with every turn.
LEMMA Parity == ASSUME NEW n \in Nat PROVE (n + 1) % 2 = 0 <=> ~(n % 2 = 0)
  OBVIOUS

LEMMA EventTyped ==
    ASSUME NEW o \in GameOps
    PROVE  Event(o) \in GameEvents /\ Event(o).op = o
  <1>1. NoEvent \in GameEvents
    BY DEF NoEvent, GameEvents, GameOps, NoTurn
  <1> QED
    BY <1>1 DEF Event, GameEvents

LEMMA ShotTyped ==
    ASSUME NEW n \in Nat, NEW c \in Cell
    PROVE  Shot(n, c) \in GameEvents /\ Shot(n, c).op = "SHOT" /\ Shot(n, c).at = {c}
  <1>1. Event("SHOT") \in GameEvents /\ Event("SHOT").op = "SHOT"
    BY EventTyped DEF GameOps
  <1> QED
    BY <1>1 DEF Shot, GameEvents

LEMMA AckTyped ==
    ASSUME NEW e \in GameEvents
    PROVE  Ack(e) \in GameEvents /\ Ack(e).op = "ACK" /\ Ack(e).of = e.op /\ Ack(e).turn = e.turn
  <1>1. Event("ACK") \in GameEvents /\ Event("ACK").op = "ACK"
    BY EventTyped DEF GameOps
  <1> QED
    BY <1>1 DEF Ack, GameEvents

\* A game that starts.
LEMMA NewGameTyped ==
    ASSUME NEW s \in Player \cup {"none"}, NEW i \in BOOLEAN, NEW b \in GameStates, b # "PAUSED",
           NEW g, g = NewGame(s, i, b)
    PROVE  /\ g \in Games /\ g.session = s /\ g.initiator = i /\ g.st = b /\ Before(g) = b
           /\ g.turn = 0 /\ g.responses = {} /\ g.hits = {} /\ g.history = {} /\ g.pending = {}
           /\ \A c \in Cell : g.enemy[c] = "none"
  <1>1. g \in Games
    BY DEF NewGame, Games, GameStates, Results
  <1> QED
    BY <1>1 DEF NewGame, Before

LEMMA QueueTyped ==
    ASSUME NEW g \in Games, NEW e \in GameEvents, NEW h, h = Queue(g, e)
    PROVE  /\ h \in Games /\ Rest(g, h) /\ h.st = g.st /\ Before(h) = Before(g)
           /\ h.pending = g.pending \cup {e} /\ h.ready = g.ready /\ h.peerReady = g.peerReady
           /\ h.readyAck = g.readyAck /\ h.target = g.target /\ h.sunk = g.sunk
  BY DEF Queue, Games, Rest, Before

LEMMA ForgetTyped ==
    ASSUME NEW g \in Games, NEW o, NEW n, NEW h, h = Forget(g, o, n)
    PROVE  /\ h \in Games /\ Rest(g, h) /\ h.st = g.st /\ Before(h) = Before(g)
           /\ h.pending \subseteq g.pending /\ h.target = g.target /\ h.sunk = g.sunk
  BY DEF Forget, Games, Rest, Before

LEMMA PauseTyped ==
    ASSUME NEW g \in Games, NEW h, h = Pause(g)
    PROVE  /\ h \in Games /\ Rest(g, h) /\ Before(h) = Before(g) /\ h.pending = g.pending
  <1>1. CASE g.st = "PAUSED"
    BY <1>1 DEF Pause, Rest
  <1>2. CASE g.st # "PAUSED"
    BY <1>2 DEF Pause, Games, Rest, Before, GameStates
  <1> QED
    BY <1>1, <1>2

LEMMA StartedTyped ==
    ASSUME NEW g \in Games, NEW h, h = Started(g)
    PROVE  /\ h \in Games /\ Rest(g, h) /\ h.pending = g.pending
           /\ \/ h = g
              \/ /\ g.st \in {"PLACING", "READY_WAIT"} /\ Before(g) = g.st
                 /\ Before(h) = IF g.initiator THEN "MY_TURN" ELSE "PEER_TURN"
  <1>1. CASE g.ready /\ g.peerReady /\ g.readyAck /\ g.st \in {"PLACING", "READY_WAIT"}
    BY <1>1 DEF Started, Games, Rest, Before, GameStates, Attack, Defence
  <1>2. CASE ~(g.ready /\ g.peerReady /\ g.readyAck /\ g.st \in {"PLACING", "READY_WAIT"})
    BY <1>2 DEF Started, Rest
  <1> QED
    BY <1>1, <1>2

----------------------------------------------------------------------------
(* What keeps a game true.                                                 *)

\* What was said stays so.
LEMMA SaysKept ==
    ASSUME NEW p, NEW g \in Games, NEW h \in Games, NEW H, NEW H2, NEW R, NEW R2,
           NEW e \in GameEvents, Says(p, g, H, R, e), g.responses \subseteq h.responses,
           g.turn <= h.turn, H \subseteq H2, R \subseteq R2
    PROVE  Says(p, h, H2, R2, e)
  <1>1. g.turn \in Nat /\ h.turn \in Nat /\ e.turn \in Nat
    BY DEF Games, GameEvents
  <1> QED
    BY <1>1 DEF Says, Sunken

LEMMA OwnLater ==
    ASSUME NEW p, NEW g, NEW H, NEW H2, NEW R, NEW R2, Own(p, g, H, R),
           H \subseteq H2, R \subseteq R2
    PROVE  Own(p, g, H2, R2)
  <1>1. g \in Games /\ g.pending \subseteq GameEvents /\ g.turn <= g.turn
    BY DEF Own, Games
  <1>2. ASSUME NEW e \in g.pending PROVE Asks(p, g, H2, R2, e)
    <2>1. Asks(p, g, H, R, e)
      BY DEF Own
    <2>2. CASE e.op = "INVITE"
      BY <2>1, <2>2 DEF Asks
    <2>3. CASE e.op # "INVITE"
      BY <1>1, <2>1, <2>3, SaysKept DEF Asks
    <2> QED
      BY <2>2, <2>3
  <1>3. Placed(p, g, H2, R2, Before(g))
    <2>1. Placed(p, g, H, R, Before(g))
      BY DEF Own
    <2> QED
      BY <2>1 DEF Placed, Sunken
  <1>4. Recorded(p, g, H2)
    BY DEF Own, Recorded, Sunken
  <1> QED
    BY <1>1, <1>2, <1>3, <1>4 DEF Own

LEMMA FramedLater ==
    ASSUME NEW p, NEW g \in Games, NEW h \in Games, NEW H, NEW H2, NEW R, NEW R2,
           NEW f \in GameFrames, Framed(p, g, H, R, f), Keeps(g, h), H \subseteq H2, R \subseteq R2
    PROVE  Framed(p, h, H2, R2, f)
  <1>1. CASE f.event.op = "INVITE"
    BY <1>1 DEF Framed, Keeps
  <1>2. CASE f.event.op # "INVITE"
    <2>1. Says(p, g, H, R, f.event) /\ f.event \in GameEvents
      BY <1>2 DEF Framed, GameFrames
    <2>2. Says(p, h, H2, R2, f.event)
      BY <2>1, SaysKept DEF Keeps
    <2> QED
      BY <1>2, <2>2 DEF Framed, Keeps
  <1> QED
    BY <1>1, <1>2

\* A change of the state, of what is sent and of what is to be answered.
LEMMA Rests ==
    ASSUME NEW p, NEW g, NEW H, NEW R, NEW h \in Games, Own(p, g, H, R), Rest(g, h),
           g.session # "none",
           \A e \in h.pending : e \in g.pending \/ Asks(p, g, H, R, e),
           Placed(p, g, H, R, Before(h)),
           Before(h) = "INVITE_SENT" =>
                Before(g) = "INVITE_SENT" /\ \A e \in h.pending : e.op = "INVITE"
    PROVE  Own(p, h, H, R) /\ Keeps(g, h)
  <1>1. \A e \in h.pending : Asks(p, h, H, R, e)
    <2>1. \A e \in h.pending : Asks(p, g, H, R, e)
      BY DEF Own
    <2> QED
      BY <2>1 DEF Asks, Says, Rest
  <1>2. Placed(p, h, H, R, Before(h))
    BY DEF Placed, Rest, OnTurn
  <1>3. Answered(p, h) /\ Recorded(p, h, H)
    BY DEF Own, Answered, Recorded, Rest
  <1>4. Keeps(g, h)
    <2>1. g.turn \in Nat
      BY DEF Own, Games
    <2> QED
      BY <2>1 DEF Rest, Keeps
  <1> QED
    BY <1>1, <1>2, <1>3, <1>4 DEF Own, Rest

\* The same, in the same state.
LEMMA Stays ==
    ASSUME NEW p, NEW g, NEW H, NEW R, NEW h \in Games, Own(p, g, H, R), Rest(g, h),
           g.session # "none", Before(h) = Before(g),
           \A e \in h.pending : e \in g.pending \/ (Asks(p, g, H, R, e) /\ Before(g) # "INVITE_SENT")
    PROVE  Own(p, h, H, R) /\ Keeps(g, h)
  <1>1. Placed(p, g, H, R, Before(h))
    BY DEF Own
  <1>2. Before(h) = "INVITE_SENT" => \A e \in h.pending : e.op = "INVITE"
    BY DEF Own
  <1> QED
    BY <1>1, <1>2, Rests

\* The states a game may always end in.
LEMMA EndsPlaced ==
    ASSUME NEW p, NEW g, NEW H, NEW R, g.session # "none",
           NEW b \in {"ENDING", "DECLINED", "CANCELLED", "WON", "LOST"},
           b = "WON" => Other(p) \in R \/ Sunken(Other(p), H),
           b = "LOST" => p \in R \/ Sunken(p, g.hits)
    PROVE  Placed(p, g, H, R, b)
  BY DEF Placed, Opening, Attack, Defence, Ended

\* An opening moves on.
LEMMA OpeningPlaced ==
    ASSUME NEW p, NEW g, NEW H, NEW R, g.session # "none", Placed(p, g, H, R, Before(g)),
           Before(g) \in Opening,
           NEW b \in {"INVITE_RECEIVED", "PLACING", "READY_WAIT", "MY_TURN", "PEER_TURN"},
           b = "MY_TURN" => g.initiator, b = "PEER_TURN" => ~g.initiator
    PROVE  Placed(p, g, H, R, b)
  <1>1. g.turn = 0 /\ g.responses = {}
    BY DEF Placed
  <1>2. g.turn % 2 = 0
    BY <1>1
  <1>3. b # "LOBBY" /\ b # "INVITE_SENT" /\ b # "WON" /\ b # "LOST"
    OBVIOUS
  <1>4. (b \in Attack => b = "MY_TURN") /\ (b \in Defence => b = "PEER_TURN")
    BY DEF Attack, Defence
  <1> QED
    BY <1>1, <1>2, <1>3, <1>4 DEF Placed, OnTurn

LEMMA StartedOwn ==
    ASSUME NEW p, NEW g, NEW H, NEW R, Own(p, g, H, R), g.session # "none"
    PROVE  Own(p, Started(g), H, R) /\ Keeps(g, Started(g))
  <1>1. g \in Games /\ Placed(p, g, H, R, Before(g))
    BY DEF Own
  <1>2. PICK h : h = Started(g)
    OBVIOUS
  <1>3. /\ h \in Games /\ Rest(g, h) /\ h.pending = g.pending
        /\ \/ h = g
           \/ /\ g.st \in {"PLACING", "READY_WAIT"} /\ Before(g) = g.st
              /\ Before(h) = IF g.initiator THEN "MY_TURN" ELSE "PEER_TURN"
    BY <1>1, <1>2, StartedTyped
  <1>4. CASE h = g
    BY <1>1, <1>2, <1>3, <1>4, Stays
  <1>5. CASE h # g
    <2>1. Before(g) \in Opening /\ Before(h) # "INVITE_SENT"
      BY <1>3, <1>5 DEF Opening
    <2>2. CASE g.initiator
      <3>1. Before(h) = "MY_TURN"
        BY <1>3, <1>5, <2>2
      <3>2. Placed(p, g, H, R, "MY_TURN")
        BY <1>1, <2>1, <2>2, OpeningPlaced
      <3> QED
        BY <1>2, <1>3, <2>1, <3>1, <3>2, Rests
    <2>3. CASE ~g.initiator
      <3>1. Before(h) = "PEER_TURN"
        BY <1>3, <1>5, <2>3
      <3>2. Placed(p, g, H, R, "PEER_TURN")
        BY <1>1, <2>1, <2>3, OpeningPlaced
      <3> QED
        BY <1>2, <1>3, <2>1, <3>1, <3>2, Rests
    <2> QED
      BY <2>2, <2>3
  <1> QED
    BY <1>4, <1>5

----------------------------------------------------------------------------
(* A frame that is heard.                                                  *)

\* A frame of the other has something new to say to p in game g.
Hears(p, g, k, R, e) ==
    /\ Own(p, g, k.hits, R) /\ Own(Other(p), k, g.hits, R)
    /\ e \in GameEvents /\ Says(Other(p), k, g.hits, R, e)
    /\ g.session = k.session /\ g.session \in {p, Other(p)} /\ g.session # "none"
    /\ InStep(g, k) /\ g.st \notin {"LOBBY", "PAUSED"} /\ Heard(g, e) = {}
Better(p, g, h, k, R) == Own(p, h, k.hits, R) /\ Keeps(g, h) /\ InStep(h, k)

LEMMA KeepsOn ==
    ASSUME NEW g \in Games, NEW h \in Games, NEW x \in Games, Keeps(g, h), Keeps(h, x)
    PROVE  Keeps(g, x)
  <1>1. g.turn \in Nat /\ h.turn \in Nat /\ x.turn \in Nat
    BY DEF Games
  <1> QED
    BY <1>1 DEF Keeps

LEMMA KeepsSelf == ASSUME NEW g \in Games PROVE Keeps(g, g)
  <1>1. g.turn \in Nat
    BY DEF Games
  <1> QED
    BY <1>1 DEF Keeps

LEMMA ArrivesWell ==
    ASSUME NEW p, NEW g, NEW k, NEW R, NEW e, Hears(p, g, k, R, e), NEW h, h = Arriving(g, e)
    PROVE  Hears(p, h, k, R, e) /\ Keeps(g, h)
  <1>1. g \in Games /\ Own(p, g, k.hits, R) /\ g.session # "none" /\ Before(g) = g.st
    BY DEF Hears, Own, Before
  <1>2. ASSUME Rest(g, h), Own(p, h, k.hits, R), Keeps(g, h), h.st \notin {"LOBBY", "PAUSED"}
        PROVE  Hears(p, h, k, R, e) /\ Keeps(g, h)
    <2>1. Heard(h, e) = {}
      BY <1>2 DEF Rest, Hears, Heard
    <2>2. InStep(h, k)
      BY <1>2 DEF Rest, Hears, InStep, Ahead
    <2>3. h.session = g.session /\ h.hits = g.hits
      BY <1>2 DEF Rest
    <2> QED
      BY <1>2, <2>1, <2>2, <2>3 DEF Hears
  <1>3. CASE h = g
    <2>1. Rest(g, h)
      BY <1>3 DEF Rest
    <2>2. Keeps(g, h) /\ h.st \notin {"LOBBY", "PAUSED"}
      BY <1>1, <1>3, KeepsSelf DEF Hears
    <2> QED
      BY <1>1, <1>2, <1>3, <2>1, <2>2
  <1>4. CASE e.op = "SHOT" /\ g.st = "READY_WAIT" /\ ~g.initiator /\ g.ready /\ g.peerReady
    <2>1. PICK a : a = [g EXCEPT !.readyAck = TRUE]
      OBVIOUS
    <2>2. /\ a \in Games /\ Rest(g, a) /\ Before(a) = Before(g) /\ a.pending = g.pending
          /\ a.st = g.st
      BY <1>1, <2>1 DEF Games, Rest, Before
    <2>3. PICK b : b = Forget(a, "READY", NoTurn)
      OBVIOUS
    <2>4. b \in Games /\ Rest(a, b) /\ Before(b) = Before(a) /\ b.pending \subseteq a.pending /\ b.st = a.st
      BY <2>2, <2>3, ForgetTyped
    <2>5. Rest(g, b)
      BY <2>2, <2>4 DEF Rest
    <2>6. Own(p, b, k.hits, R) /\ Keeps(g, b)
      BY <1>1, <2>2, <2>4, <2>5, Stays
    <2>7. h = Started(b)
      BY <1>4, <2>1, <2>3 DEF Arriving
    <2>8. b.session # "none"
      BY <1>1, <2>5 DEF Rest
    <2>9. Own(p, h, k.hits, R) /\ Keeps(b, h)
      BY <2>6, <2>7, <2>8, StartedOwn
    <2>10. h \in Games /\ Rest(b, h)
      BY <2>4, <2>7, StartedTyped
    <2>11. Rest(g, h) /\ Keeps(g, h)
      BY <1>1, <2>4, <2>5, <2>6, <2>9, <2>10, KeepsOn DEF Rest
    <2>12. h.st \notin {"LOBBY", "PAUSED"}
      <3>1. b.st \notin {"LOBBY", "PAUSED"}
        BY <2>2, <2>4 DEF Hears
      <3> QED
        BY <2>4, <2>7, <3>1 DEF Started, Games
    <2> QED
      BY <1>2, <2>9, <2>11, <2>12
  <1>5. CASE e.op = "SHOT" /\ g.st = "ACK_QUEUED" /\ h = [g EXCEPT !.st = "PEER_TURN"]
    <2>1. /\ h \in Games /\ Rest(g, h) /\ h.pending = g.pending /\ h.st = "PEER_TURN"
          /\ Before(h) = "PEER_TURN"
      BY <1>1, <1>5 DEF Games, GameStates, Defence, Rest, Before
    <2>2. Before(g) = "ACK_QUEUED" /\ Placed(p, g, k.hits, R, "ACK_QUEUED")
      BY <1>1, <1>5 DEF Own
    <2>3. Placed(p, g, k.hits, R, "PEER_TURN")
      BY <1>1, <2>2 DEF Placed, Opening, Attack, Defence, Ended
    <2>4. Own(p, h, k.hits, R) /\ Keeps(g, h)
      BY <1>1, <2>1, <2>2, <2>3, Rests
    <2> QED
      BY <1>2, <2>1, <2>4
  <1> QED
    BY <1>3, <1>4, <1>5 DEF Arriving

\* An event is acknowledged.
LEMMA Acks ==
    ASSUME NEW p, NEW g, NEW H, NEW R, Own(p, g, H, R), g.session # "none",
           NEW e \in GameEvents, Before(g) # "INVITE_SENT",
           e.op \in Results => e.turn < g.turn, e.op = "LOSS" => Sunken(Other(p), H)
    PROVE  /\ Own(p, Queue(g, Ack(e)), H, R)
           /\ Rest(g, Queue(g, Ack(e))) /\ Keeps(g, Queue(g, Ack(e)))
  <1>1. PICK a : a = Ack(e)
    OBVIOUS
  <1>2. PICK h : h = Queue(g, a)
    OBVIOUS
  <1>3. a \in GameEvents /\ a.op = "ACK" /\ a.of = e.op /\ a.turn = e.turn
    BY <1>1, AckTyped
  <1>4. g \in Games
    BY DEF Own
  <1>5. h \in Games /\ Rest(g, h) /\ Before(h) = Before(g) /\ h.pending = g.pending \cup {a}
    BY <1>2, <1>3, <1>4, QueueTyped
  <1>6. Asks(p, g, H, R, a)
    BY <1>3 DEF Asks, Says, Results
  <1>7. Own(p, h, H, R) /\ Keeps(g, h)
    BY <1>5, <1>6, Stays
  <1> QED
    BY <1>1, <1>2, <1>5, <1>7

\* A repetition.
LEMMA AgainWell ==
    ASSUME NEW p, NEW g, NEW H, NEW R, Own(p, g, H, R), g.session # "none",
           NEW e \in GameEvents, g.st # "PAUSED", Heard(g, e) # {}
    PROVE  Own(p, Again(g, e), H, R) /\ Keeps(g, Again(g, e)) /\ Rest(g, Again(g, e))
  <1>1. g \in Games /\ Before(g) = g.st /\ g.history \subseteq GameEvents
        /\ g.responses \subseteq GameEvents
    BY DEF Own, Before, Games
  <1>2. Placed(p, g, H, R, Before(g)) /\ Recorded(p, g, H)
    BY DEF Own
  <1>3. CASE e \notin g.history
    <2>1. Again(g, e) = Pause(g)
      BY <1>3 DEF Again
    <2> QED
      BY <1>1, <2>1, PauseTyped, Stays
  <1>4. CASE e \in g.history /\ e.op \in Ackable
    <2>1. Again(g, e) = Queue(g, Ack(e))
      BY <1>4 DEF Again
    <2>2. e.op \in Results => e.turn < g.turn
      BY <1>2, <1>4 DEF Recorded
    <2>3. e.op = "LOSS" => Sunken(Other(p), H)
      BY <1>2, <1>4 DEF Recorded
    <2>4. Before(g) # "INVITE_SENT"
      BY <1>2, <1>4 DEF Placed, Ackable, Results
    <2> QED
      BY <2>1, <2>2, <2>3, <2>4, Acks
  <1>5. CASE e \in g.history /\ e.op \notin Ackable /\ e.op = "SHOT"
    <2>1. \E r \in g.responses : r.turn = e.turn
      BY <1>2, <1>5 DEF Recorded
    <2>2. PICK r : r = ResponseTo(g, e)
      OBVIOUS
    <2>3. r \in g.responses /\ r \in GameEvents
      BY <1>1, <2>1, <2>2 DEF ResponseTo
    <2>7. PICK h : h = Queue(g, r)
      OBVIOUS
    <2>8. h = Again(g, e)
      BY <1>5, <2>2, <2>7 DEF Again
    <2>4. /\ h \in Games /\ Rest(g, h) /\ Before(h) = Before(g)
          /\ h.pending = g.pending \cup {r}
      BY <1>1, <2>3, <2>7, QueueTyped
    <2>5. r.op \in Results
      BY <2>3 DEF Own, Answered
    <2>6. Asks(p, g, H, R, r) /\ Before(g) # "INVITE_SENT"
      BY <1>2, <1>5, <2>3, <2>5 DEF Asks, Says, Results, Placed
    <2> QED
      BY <1>1, <2>4, <2>6, <2>8, Stays
  <1>6. CASE e \in g.history /\ e.op \notin Ackable /\ e.op # "SHOT"
    <2>1. Again(g, e) = Forget(g, e.of, e.turn)
      BY <1>6 DEF Again
    <2> QED
      BY <1>1, <2>1, ForgetTyped, Stays
  <1> QED
    BY <1>3, <1>4, <1>5, <1>6

\* An expected event that changes the state alone, and is remembered.
LEMMA Logs ==
    ASSUME NEW p, NEW g, NEW k, NEW R, NEW e, Hears(p, g, k, R, e), e.op \notin Results \cup {"SHOT"},
           NEW o \in Games, Rest(g, o), \A x \in o.pending : x \in g.pending,
           Placed(p, g, k.hits, R, Before(o)), Before(o) = "INVITE_SENT" => e.op = "ACK" /\ Before(g) = "INVITE_SENT",
           NEW x, x = [o EXCEPT !.history = @ \cup {e}],
           NEW y, y = IF e.op \in Ackable THEN Queue(x, Ack(e)) ELSE x
    PROVE  Better(p, g, y, k, R)
  <1>1. g \in Games /\ g.session # "none" /\ Own(p, g, k.hits, R) /\ e \in GameEvents
    BY DEF Hears, Own
  <1>2. Before(g) = "INVITE_SENT" => \A z \in g.pending : z.op = "INVITE"
    BY <1>1 DEF Own
  <1>3. Own(p, o, k.hits, R) /\ Keeps(g, o)
    BY <1>1, <1>2, Rests
  <1>4. /\ x \in Games /\ x.session = o.session /\ x.initiator = o.initiator /\ x.turn = o.turn
        /\ x.enemy = o.enemy /\ x.hits = o.hits /\ x.responses = o.responses
        /\ x.history = o.history \cup {e} /\ Before(x) = Before(o) /\ x.pending = o.pending /\ x.st = o.st
    BY <1>1 DEF Games, Before
  <1>5. Own(p, x, k.hits, R)
    <2>1. \A z \in x.pending : Asks(p, x, k.hits, R, z)
      BY <1>3, <1>4 DEF Own, Asks, Says
    <2>2. Placed(p, x, k.hits, R, Before(x))
      BY <1>3, <1>4 DEF Own, Placed, OnTurn
    <2>3. Answered(p, x)
      BY <1>3, <1>4 DEF Own, Answered
    <2>4. Recorded(p, x, k.hits)
      BY <1>3, <1>4 DEF Own, Recorded, Results
    <2> QED
      BY <1>3, <1>4, <2>1, <2>2, <2>3, <2>4 DEF Own
  <1>6. g.turn \in Nat /\ x.session # "none" /\ x.turn = g.turn /\ x.initiator = g.initiator
    BY <1>1, <1>4 DEF Games, Rest
  <1>7. Keeps(g, x)
    BY <1>3, <1>4 DEF Keeps
  <1>8. Own(p, y, k.hits, R) /\ Keeps(x, y) /\ Rest(x, y)
    <2>1. CASE e.op \notin Ackable
      BY <1>4, <1>5, <2>1, KeepsSelf DEF Rest
    <2>2. CASE e.op \in Ackable
      <3>1. Before(x) # "INVITE_SENT"
        BY <1>4, <2>2 DEF Ackable, Results
      <3>2. y = Queue(x, Ack(e))
        BY <2>2
      <3>3. e.op \notin Results /\ e.op # "LOSS"
        BY DEF Results
      <3>4. Own(p, Queue(x, Ack(e)), k.hits, R) /\ Rest(x, Queue(x, Ack(e))) /\ Keeps(x, Queue(x, Ack(e)))
        BY <1>1, <1>5, <1>6, <3>1, <3>3, Acks
      <3> QED
        BY <3>2, <3>4
    <2> QED
      BY <2>1, <2>2
  <1>9. InStep(y, k)
    BY <1>6, <1>8 DEF Rest, InStep, Ahead, Hears
  <1>10. y \in Games
    BY <1>8 DEF Own
  <1> QED
    BY <1>1, <1>4, <1>7, <1>8, <1>9, <1>10, KeepsOn DEF Better

\* What an expected event leaves behind.
Logged(g, o, e) ==
    LET x == [o EXCEPT !.history = @ \cup {e}]
    IN IF e.op \in Ackable THEN Queue(x, Ack(e)) ELSE x

LEMMA StateTyped ==
    ASSUME NEW g \in Games, NEW b \in GameStates, b # "PAUSED", NEW h, h = [g EXCEPT !.st = b]
    PROVE  h \in Games /\ Rest(g, h) /\ h.pending = g.pending /\ Before(h) = b
  BY DEF Games, Rest, Before

LEMMA OverTyped ==
    ASSUME NEW g \in Games, NEW b \in GameStates, b # "PAUSED",
           NEW h, h = [g EXCEPT !.pending = {}, !.st = b]
    PROVE  h \in Games /\ Rest(g, h) /\ h.pending = {} /\ Before(h) = b
  BY DEF Games, Rest, Before

LEMMA Logging ==
    ASSUME NEW p, NEW g, NEW k, NEW R, NEW e, Hears(p, g, k, R, e), e.op \notin Results \cup {"SHOT"},
           NEW o \in Games, Rest(g, o), \A x \in o.pending : x \in g.pending,
           Placed(p, g, k.hits, R, Before(o)),
           Before(o) = "INVITE_SENT" => e.op = "ACK" /\ Before(g) = "INVITE_SENT"
    PROVE  Better(p, g, Logged(g, o, e), k, R)
  <1>1. PICK x : x = [o EXCEPT !.history = @ \cup {e}]
    OBVIOUS
  <1>2. PICK y : y = IF e.op \in Ackable THEN Queue(x, Ack(e)) ELSE x
    OBVIOUS
  <1>3. Better(p, g, y, k, R)
    BY <1>1, <1>2, Logs
  <1>4. y = Logged(g, o, e)
    BY <1>1, <1>2 DEF Logged
  <1> QED
    BY <1>3, <1>4

\* The invitation is answered, or the game is ended.
LEMMA AnswerLogged ==
    ASSUME NEW p, NEW g, NEW k, NEW R, NEW e, Hears(p, g, k, R, e),
           e.op \in {"ACCEPT", "DECLINE", "RESIGN", "CANCEL"}, Expected(g, e)
    PROVE  Better(p, g, Logged(g, Outcome(p, g, e), e), k, R)
  <1>1. /\ g \in Games /\ g.session # "none" /\ Before(g) = g.st /\ Placed(p, g, k.hits, R, Before(g))
        /\ e.op \notin Results \cup {"SHOT"}
    BY DEF Hears, Own, Before, Results
  <1>2. CASE e.op \in {"ACCEPT", "DECLINE"}
    <2>1. PICK f : f = Forget(g, "INVITE", NoTurn)
      OBVIOUS
    <2>2. f \in Games /\ Rest(g, f) /\ f.pending \subseteq g.pending
      BY <1>1, <2>1, ForgetTyped
    <2>3. PICK b : b = IF e.op = "ACCEPT" THEN "PLACING" ELSE "DECLINED"
      OBVIOUS
    <2>4. PICK o : o = [f EXCEPT !.st = b]
      OBVIOUS
    <2>5. Outcome(p, g, e) = o
      BY <1>2, <2>1, <2>3, <2>4 DEF Outcome, Results
    <2>6. b \in GameStates /\ b # "PAUSED" /\ b # "INVITE_SENT"
      BY <2>3 DEF GameStates, Opening, Ended
    <2>7. o \in Games /\ Rest(f, o) /\ o.pending = f.pending /\ Before(o) = b
      BY <2>2, <2>4, <2>6, StateTyped
    <2>8. Rest(g, o)
      BY <2>2, <2>7 DEF Rest
    <2>9. g.st = "INVITE_SENT"
      BY <1>2 DEF Expected, Results
    <2>10. Placed(p, g, k.hits, R, b)
      <3>1. CASE e.op = "ACCEPT"
        <4>1. Before(g) \in Opening /\ b = "PLACING"
          BY <1>1, <2>3, <2>9, <3>1 DEF Opening
        <4> QED
          BY <1>1, <4>1, OpeningPlaced
      <3>2. CASE e.op = "DECLINE"
        <4>1. b = "DECLINED"
          BY <2>3, <3>2
        <4> QED
          BY <1>1, <4>1, EndsPlaced
      <3> QED
        BY <1>2, <3>1, <3>2
    <2> QED
      BY <1>1, <2>2, <2>5, <2>6, <2>7, <2>8, <2>10, Logging
  <1>3. CASE e.op \in {"RESIGN", "CANCEL"}
    <2>3. PICK b : b = IF e.op = "RESIGN" THEN "WON" ELSE "CANCELLED"
      OBVIOUS
    <2>4. PICK o : o = [g EXCEPT !.pending = {}, !.st = b]
      OBVIOUS
    <2>5. Outcome(p, g, e) = o
      BY <1>3, <2>3, <2>4 DEF Outcome, Results
    <2>6. b \in GameStates /\ b # "PAUSED" /\ b # "INVITE_SENT"
      BY <2>3 DEF GameStates, Opening, Ended
    <2>7. o \in Games /\ Rest(g, o) /\ o.pending = {} /\ Before(o) = b
      BY <1>1, <2>4, <2>6, OverTyped
    <2>8. b = "WON" => Other(p) \in R
      BY <2>3 DEF Hears, Says
    <2>9. Placed(p, g, k.hits, R, b)
      BY <1>1, <2>3, <2>8, EndsPlaced
    <2> QED
      BY <1>1, <2>5, <2>6, <2>7, <2>9, Logging
  <1> QED
    BY <1>2, <1>3

LEMMA ReadyLogged ==
    ASSUME NEW p, NEW g, NEW k, NEW R, NEW e, Hears(p, g, k, R, e), e.op = "READY", Expected(g, e)
    PROVE  Better(p, g, Logged(g, Outcome(p, g, e), e), k, R)
  <1>1. /\ g \in Games /\ g.session # "none" /\ Before(g) = g.st /\ Own(p, g, k.hits, R)
        /\ e.op \notin Results \cup {"SHOT"}
    BY DEF Hears, Own, Before, Results
  <1>2. g.st \in {"PLACING", "READY_WAIT"}
    BY DEF Expected, Results
  <1>3. PICK f : f = [g EXCEPT !.peerReady = TRUE]
    OBVIOUS
  <1>4. f \in Games /\ Rest(g, f) /\ Before(f) = Before(g) /\ f.pending = g.pending
    BY <1>1, <1>3 DEF Games, Rest, Before
  <1>5. PICK o : o = Started(f)
    OBVIOUS
  <1>6. Outcome(p, g, e) = o
    BY <1>3, <1>5 DEF Outcome, Results
  <1>7. Own(p, f, k.hits, R) /\ f.session # "none"
    BY <1>1, <1>4, Stays DEF Rest
  <1>8. o \in Games /\ Rest(f, o) /\ o.pending = f.pending
    BY <1>4, <1>5, StartedTyped
  <1>9. Rest(g, o)
    BY <1>4, <1>8 DEF Rest
  <1>10. Placed(p, g, k.hits, R, Before(o))
    <2>1. Own(p, o, k.hits, R)
      BY <1>5, <1>7, StartedOwn
    <2>2. Placed(p, o, k.hits, R, Before(o))
      BY <2>1 DEF Own
    <2> QED
      BY <1>9, <2>2 DEF Placed, Rest, OnTurn
  <1>11. Before(o) # "INVITE_SENT"
    <2>1. Keeps(f, o)
      BY <1>5, <1>7, StartedOwn
    <2> QED
      BY <1>1, <1>2, <1>4, <2>1 DEF Keeps
  <1> QED
    BY <1>1, <1>4, <1>6, <1>8, <1>9, <1>10, <1>11, Logging

\* A result is acknowledged: the turn is over for the one who was shot at.
LEMMA TurnIsOver ==
    ASSUME NEW p, NEW g, NEW k, NEW R, NEW e, Hears(p, g, k, R, e), e.op = "ACK",
           e.of \in Results, g.st = "WAIT_RESULT_ACK", Expected(g, e)
    PROVE  Better(p, g, Logged(g, Outcome(p, g, e), e), k, R)
  <1>1. /\ g \in Games /\ g.session # "none" /\ Before(g) = "WAIT_RESULT_ACK" /\ g.turn \in Nat
        /\ Own(p, g, k.hits, R) /\ e \in GameEvents /\ k.turn \in Nat
    BY DEF Hears, Own, Before, Games
  <1>2. PICK x \in g.pending : x.op = e.of /\ x.turn = e.turn
    BY DEF Expected, Results
  <1>3. x \in g.responses /\ x.turn \in Nat
    <2>1. Asks(p, g, k.hits, R, x)
      BY <1>1 DEF Own
    <2> QED
      BY <1>1, <1>2, <2>1 DEF Asks, Says, Results, Games, GameEvents
  <1>4. Answered(p, g) /\ Recorded(p, g, k.hits) /\ Placed(p, g, k.hits, R, "WAIT_RESULT_ACK")
    BY <1>1 DEF Own
  <1>5. e.turn = g.turn
    <2>1. \A a \in g.history : ~(a.op = "ACK" /\ a.turn = x.turn /\ a.of = x.op)
      BY <1>2 DEF Hears, Heard
    <2>2. ~(x.turn < g.turn) /\ x.turn <= g.turn
      BY <1>3, <1>4, <2>1 DEF Answered
    <2> QED
      BY <1>1, <1>2, <1>3, <2>2
  <1>6. PICK f : f = Forget(g, e.of, e.turn)
    OBVIOUS
  <1>7. f \in Games /\ Rest(g, f) /\ f.pending \subseteq g.pending
    BY <1>1, <1>6, ForgetTyped
  <1>8. PICK b : b = IF e.of = "LOSS" THEN "LOST" ELSE "MY_TURN"
    OBVIOUS
  <1>9. Outcome(p, g, e) = [f EXCEPT !.turn = @ + 1, !.st = b]
    BY <1>6, <1>8 DEF Outcome, AckOf, Results
  <1>10. PICK y : y = [f EXCEPT !.turn = @ + 1, !.st = b, !.history = @ \cup {e}]
    OBVIOUS
  <1>11. Logged(g, Outcome(p, g, e), e) = y
    <2>1. [[f EXCEPT !.turn = @ + 1, !.st = b] EXCEPT !.history = @ \cup {e}] = y
      BY <1>7, <1>10 DEF Games
    <2> QED
      BY <1>9, <2>1 DEF Logged, Ackable, Results
  <1>12. /\ y \in Games /\ y.session = g.session /\ y.initiator = g.initiator
         /\ y.turn = g.turn + 1 /\ y.enemy = g.enemy /\ y.hits = g.hits
         /\ y.responses = g.responses /\ y.history = g.history \cup {e}
         /\ y.pending \subseteq g.pending /\ Before(y) = b
    <2>1. b \in GameStates /\ b # "PAUSED"
      BY <1>8 DEF GameStates, Attack, Ended
    <2>3. f.turn + 1 \in Nat /\ f.history \cup {e} \in SUBSET GameEvents
      BY <1>1, <1>7 DEF Games
    <2>2. y \in Games
      BY <1>7, <1>10, <2>1, <2>3 DEF Games
    <2> QED
      BY <1>7, <1>10, <2>1, <2>2 DEF Games, Rest, Before
  <1>13. Keeps(g, y)
    BY <1>1, <1>8, <1>12 DEF Keeps
  <1>14. \A z \in y.pending : Asks(p, y, k.hits, R, z)
    <2>1. TAKE z \in y.pending
    <2>2. z \in GameEvents /\ Asks(p, g, k.hits, R, z)
      BY <1>1, <1>12 DEF Own, Games
    <2>3. CASE z.op = "INVITE"
      BY <1>12, <2>2, <2>3 DEF Asks
    <2>4. CASE z.op # "INVITE"
      <3>1. Says(p, y, k.hits, R, z)
        BY <1>1, <1>12, <1>13, <2>2, <2>4, SaysKept DEF Asks, Keeps
      <3> QED
        BY <2>4, <3>1 DEF Asks
    <2> QED
      BY <2>3, <2>4
  <1>15. \A r \in g.responses : r.turn \in Nat /\ r.turn <= g.turn
    BY <1>1, <1>4 DEF Games, GameEvents, Answered
  <1>16. Placed(p, y, k.hits, R, b)
    <2>1. ~OnTurn(g)
      BY <1>4 DEF Placed, Defence
    <2>2. OnTurn(y)
      BY <1>1, <1>12, <2>1, Parity DEF OnTurn
    <2>3. \A r \in y.responses : r.turn # y.turn
      BY <1>1, <1>12, <1>15
    <2>4. b = "LOST" => Sunken(p, y.hits)
      BY <1>2, <1>3, <1>4, <1>8, <1>12 DEF Answered
    <2> QED
      BY <1>1, <1>8, <1>12, <2>2, <2>3, <2>4 DEF Placed, Opening, Attack, Defence
  <1>17. Answered(p, y)
    <2>1. ASSUME NEW r \in y.responses, r.turn < y.turn
          PROVE  \E a \in y.history : a.op = "ACK" /\ a.turn = r.turn /\ a.of = r.op
      <3>1. CASE r.turn < g.turn
        BY <1>4, <1>12, <3>1 DEF Answered
      <3>2. CASE r.turn = g.turn
        <4>1. r = x
          BY <1>2, <1>3, <1>4, <1>5, <1>12, <3>2 DEF Answered
        <4> QED
          BY <1>2, <1>12, <4>1
      <3> QED
        BY <1>1, <1>12, <1>15, <2>1, <3>1, <3>2
    <2>2. \A r \in y.responses : r.turn <= y.turn
      BY <1>1, <1>12, <1>15
    <2> QED
      BY <1>4, <1>12, <2>1, <2>2 DEF Answered
  <1>18. Recorded(p, y, k.hits)
    <2>1. \A z \in g.history : z.turn \in Nat
      BY <1>1 DEF Games, GameEvents
    <2>2. \A z \in g.history : z.turn < g.turn => z.turn < y.turn
      BY <1>1, <1>12, <2>1
    <2> QED
      BY <1>4, <1>12, <2>2 DEF Recorded, Results
  <1>19. InStep(y, k)
    <2>1. g.turn < k.turn
      BY <1>5 DEF Hears, Says
    <2>2. InStep(g, k)
      BY DEF Hears
    <2>3. k.turn = g.turn + 1
      BY <1>1, <2>1, <2>2 DEF InStep, Ahead
    <2> QED
      BY <1>12, <2>3 DEF InStep
  <1>20. Own(p, y, k.hits, R)
    <2>1. g.initiator <=> g.session = p
      BY <1>1 DEF Own
    <2> QED
      BY <1>1, <1>8, <1>12, <1>14, <1>16, <1>17, <1>18, <2>1 DEF Own
  <1> QED
    BY <1>11, <1>13, <1>19, <1>20 DEF Better

LEMMA AckLogged ==
    ASSUME NEW p, NEW g, NEW k, NEW R, NEW e, Hears(p, g, k, R, e), e.op = "ACK", Expected(g, e)
    PROVE  Better(p, g, Logged(g, Outcome(p, g, e), e), k, R)
  <1>1. /\ g \in Games /\ g.session # "none" /\ Before(g) = g.st /\ Own(p, g, k.hits, R)
        /\ e.op \notin Results \cup {"SHOT"} /\ Placed(p, g, k.hits, R, Before(g))
    BY DEF Hears, Own, Before, Results
  <1>2. PICK f : f = Forget(g, e.of, e.turn)
    OBVIOUS
  <1>3. f \in Games /\ Rest(g, f) /\ f.pending \subseteq g.pending /\ Before(f) = Before(g)
    BY <1>1, <1>2, ForgetTyped
  <1>4. Outcome(p, g, e) = AckOf(g, e)
    BY DEF Outcome, Results
  <1>5. PICK x \in g.pending : x.op = e.of /\ x.turn = e.turn
    BY DEF Expected, Results
  <1>6. CASE e.of \in Results /\ g.st = "WAIT_RESULT_ACK"
    BY <1>6, TurnIsOver
  <1>7. CASE e.of = "READY"
    <2>1. PICK h : h = [f EXCEPT !.readyAck = TRUE]
      OBVIOUS
    <2>2. h \in Games /\ Rest(f, h) /\ Before(h) = Before(f) /\ h.pending = f.pending
      BY <1>3, <2>1 DEF Games, Rest, Before
    <2>3. PICK o : o = Started(h)
      OBVIOUS
    <2>4. Outcome(p, g, e) = o
      BY <1>2, <1>4, <1>7, <2>1, <2>3 DEF AckOf
    <2>5. Rest(g, h)
      BY <1>3, <2>2 DEF Rest
    <2>6. Own(p, h, k.hits, R) /\ h.session # "none"
      BY <1>1, <1>3, <2>2, <2>5, Stays DEF Rest
    <2>7. o \in Games /\ Rest(h, o) /\ o.pending = h.pending
      BY <2>2, <2>3, StartedTyped
    <2>8. Rest(g, o)
      BY <2>5, <2>7 DEF Rest
    <2>9. Own(p, o, k.hits, R) /\ Keeps(h, o)
      BY <2>3, <2>6, StartedOwn
    <2>10. Placed(p, g, k.hits, R, Before(o))
      <3>1. Placed(p, o, k.hits, R, Before(o))
        BY <2>9 DEF Own
      <3> QED
        BY <2>8, <3>1 DEF Placed, Rest, OnTurn
    <2>11. Before(o) = "INVITE_SENT" => Before(g) = "INVITE_SENT"
      BY <1>3, <2>2, <2>9 DEF Keeps
    <2>12. \A z \in o.pending : z \in g.pending
      BY <1>3, <2>2, <2>7
    <2> QED
      BY <1>1, <2>4, <2>7, <2>8, <2>10, <2>11, <2>12, Logging
  <1>8. CASE e.of \in {"RESIGN", "CANCEL"}
    <2>1. PICK b : b = IF e.of = "RESIGN" THEN "LOST" ELSE "CANCELLED"
      OBVIOUS
    <2>2. PICK o : o = [f EXCEPT !.st = b]
      OBVIOUS
    <2>3. Outcome(p, g, e) = o
      BY <1>2, <1>4, <1>8, <2>1, <2>2 DEF AckOf, Results
    <2>4. b \in GameStates /\ b # "PAUSED" /\ b # "INVITE_SENT"
      BY <2>1 DEF GameStates, Ended
    <2>5. o \in Games /\ Rest(f, o) /\ o.pending = f.pending /\ Before(o) = b
      BY <1>3, <2>2, <2>4, StateTyped
    <2>6. Rest(g, o)
      BY <1>3, <2>5 DEF Rest
    <2>7. b = "LOST" => p \in R
      <3>1. Asks(p, g, k.hits, R, x)
        BY <1>1 DEF Own
      <3> QED
        BY <1>5, <1>8, <2>1, <3>1 DEF Asks, Says
    <2>8. Placed(p, g, k.hits, R, b)
      BY <1>1, <2>1, <2>7, EndsPlaced
    <2> QED
      BY <1>1, <1>3, <2>3, <2>4, <2>5, <2>6, <2>8, Logging
  <1>9. CASE /\ ~(e.of \in Results /\ g.st = "WAIT_RESULT_ACK")
             /\ e.of # "READY" /\ e.of \notin {"RESIGN", "CANCEL"}
    <2>1. Outcome(p, g, e) = f
      BY <1>2, <1>4, <1>9 DEF AckOf
    <2>2. Placed(p, g, k.hits, R, Before(f))
      BY <1>1, <1>3
    <2> QED
      BY <1>1, <1>3, <2>1, <2>2, Logging
  <1> QED
    BY <1>6, <1>7, <1>8, <1>9

\* What is said of a shot is so.
LEMMA ShootTrue ==
    ASSUME GameAssumption, NEW p \in Player, NEW hits \in SUBSET Cell, NEW e \in GameEvents,
           NEW c \in Cell, e.at = {c}, c \in hits, NEW r, r = Shoot(p, hits, e)
    PROVE  /\ r \in GameEvents /\ r.op \in Results /\ r.turn = e.turn /\ r.at \subseteq hits
           /\ r.op = "MISS" => r.at \cap UNION Fleet[p] = {}
           /\ r.op # "MISS" => r.at \subseteq UNION Fleet[p]
           /\ r.op = "LOSS" => Sunken(p, hits)
  <1>1. PICK d : d = CHOOSE x \in e.at : TRUE
    OBVIOUS
  <1>2. d = c
    BY <1>1
  <1>3. PICK struck : struck = {ship \in Fleet[p] : c \in ship}
    OBVIOUS
  <1>4. CASE struck = {}
    <2>1. r = [e EXCEPT !.op = "MISS", !.at = e.at]
      BY <1>1, <1>2, <1>3, <1>4 DEF Shoot
    <2>2. r \in GameEvents /\ r.op = "MISS" /\ r.at = {c} /\ r.turn = e.turn
      BY <2>1 DEF GameEvents, GameOps, Results
    <2>3. c \notin UNION Fleet[p]
      BY <1>3, <1>4
    <2> QED
      BY <2>2, <2>3 DEF Results
  <1>5. CASE struck # {}
    <2>1. PICK ship : ship = CHOOSE x \in struck : TRUE
      OBVIOUS
    <2>2. ship \in struck
      BY <1>5, <2>1
    <2>3. ship \in Fleet[p] /\ c \in ship /\ ship \subseteq UNION Fleet[p] /\ ship \subseteq Cell
      BY <1>3, <2>2 DEF GameAssumption
    <2>4. CASE ~(ship \subseteq hits)
      <3>1. r = [e EXCEPT !.op = "HIT", !.at = e.at]
        BY <1>1, <1>2, <1>3, <1>5, <2>1, <2>4 DEF Shoot
      <3>2. r \in GameEvents /\ r.op = "HIT" /\ r.at = {c} /\ r.turn = e.turn
        BY <3>1 DEF GameEvents, GameOps, Results
      <3> QED
        BY <2>3, <3>2 DEF Results
    <2>5. CASE ship \subseteq hits
      <3>1. PICK o : o = IF UNION Fleet[p] \subseteq hits THEN "LOSS" ELSE "SUNK"
        OBVIOUS
      <3>2. r = [e EXCEPT !.op = o, !.at = ship]
        BY <1>1, <1>2, <1>3, <1>5, <2>1, <2>5, <3>1 DEF Shoot
      <3>3. o \in Results /\ o # "MISS" /\ o \in GameOps
        BY <3>1 DEF Results, GameOps
      <3>4. r \in GameEvents /\ r.op = o /\ r.at = ship /\ r.turn = e.turn
        BY <2>3, <3>2, <3>3 DEF GameEvents
      <3> QED
        BY <2>3, <2>5, <3>1, <3>3, <3>4 DEF Sunken
    <2> QED
      BY <2>4, <2>5
  <1> QED
    BY <1>4, <1>5

\* A shot is answered.
LEMMA ShotLogged ==
    ASSUME GameAssumption, NEW p \in Player, NEW g, NEW k, NEW R, NEW e,
           Hears(p, g, k, R, e), e.op = "SHOT", Expected(g, e)
    PROVE  Better(p, g, Logged(g, Outcome(p, g, e), e), k, R)
  <1>1. /\ g \in Games /\ g.session # "none" /\ Before(g) = g.st /\ g.turn \in Nat
        /\ Own(p, g, k.hits, R) /\ e \in GameEvents
    BY DEF Hears, Own, Before, Games
  <1>2. g.st = "PEER_TURN" /\ e.turn = g.turn
    BY DEF Expected, Results
  <1>3. Answered(p, g) /\ Recorded(p, g, k.hits) /\ Placed(p, g, k.hits, R, "PEER_TURN")
    BY <1>1, <1>2 DEF Own
  <1>4. PICK c : c \in Cell /\ e.at = {c}
    BY DEF Hears, Says
  <1>5. PICK hits : hits = g.hits \cup e.at
    OBVIOUS
  <1>6. PICK r : r = Shoot(p, hits, e)
    OBVIOUS
  <1>7. hits \in SUBSET Cell /\ c \in hits /\ g.hits \subseteq hits
    BY <1>1, <1>4, <1>5 DEF Games
  <1>8. /\ r \in GameEvents /\ r.op \in Results /\ r.turn = e.turn /\ r.at \subseteq hits
        /\ r.op = "MISS" => r.at \cap UNION Fleet[p] = {}
        /\ r.op # "MISS" => r.at \subseteq UNION Fleet[p]
        /\ r.op = "LOSS" => Sunken(p, hits)
    BY <1>1, <1>4, <1>6, <1>7, ShootTrue
  <1>9. Outcome(p, g, e) = Queue([g EXCEPT !.hits = hits, !.responses = @ \cup {r},
                                           !.st = "WAIT_RESULT_ACK"], r)
    BY <1>5, <1>6 DEF Outcome, ShotAt, Results
  <1>10. PICK y : y = [g EXCEPT !.hits = hits, !.responses = @ \cup {r}, !.st = "WAIT_RESULT_ACK",
                               !.pending = @ \cup {r}, !.history = @ \cup {e}]
    OBVIOUS
  <1>11. Logged(g, Outcome(p, g, e), e) = y
    <2>1. [[[g EXCEPT !.hits = hits, !.responses = @ \cup {r}, !.st = "WAIT_RESULT_ACK"]
              EXCEPT !.pending = @ \cup {r}] EXCEPT !.history = @ \cup {e}] = y
      BY <1>1, <1>10 DEF Games
    <2> QED
      BY <1>9, <2>1 DEF Logged, Queue, Ackable, Results
  <1>12. /\ y \in Games /\ y.session = g.session /\ y.initiator = g.initiator
         /\ y.turn = g.turn /\ y.enemy = g.enemy /\ y.hits = hits
         /\ y.responses = g.responses \cup {r} /\ y.history = g.history \cup {e}
         /\ y.pending = g.pending \cup {r} /\ Before(y) = "WAIT_RESULT_ACK"
    <2>1. "WAIT_RESULT_ACK" \in GameStates
      BY DEF GameStates, Defence
    <2>2. /\ g.responses \cup {r} \in SUBSET GameEvents /\ g.history \cup {e} \in SUBSET GameEvents
          /\ g.pending \cup {r} \in SUBSET GameEvents
      BY <1>1, <1>8 DEF Games
    <2>3. y \in Games
      BY <1>1, <1>7, <1>10, <2>1, <2>2 DEF Games
    <2> QED
      BY <1>1, <1>10, <2>3 DEF Games, Before
  <1>13. Keeps(g, y)
    BY <1>1, <1>7, <1>12 DEF Keeps
  <1>14. \A z \in y.pending : Asks(p, y, k.hits, R, z)
    <2>1. TAKE z \in y.pending
    <2>2. CASE z = r
      BY <1>8, <1>12, <2>2 DEF Asks, Says, Results
    <2>3. CASE z \in g.pending /\ z.op = "INVITE"
      BY <1>1, <1>12, <2>3 DEF Asks, Own
    <2>4. CASE z \in g.pending /\ z.op # "INVITE"
      <3>1. z \in GameEvents /\ Asks(p, g, k.hits, R, z)
        BY <1>1, <2>4 DEF Own, Games
      <3>2. Says(p, y, k.hits, R, z)
        BY <1>1, <1>12, <1>13, <2>4, <3>1, SaysKept DEF Asks, Keeps
      <3> QED
        BY <2>4, <3>2 DEF Asks
    <2> QED
      BY <1>12, <2>2, <2>3, <2>4
  <1>15. Placed(p, y, k.hits, R, "WAIT_RESULT_ACK")
    <2>1. ~OnTurn(y)
      BY <1>3, <1>12 DEF Placed, Defence, OnTurn
    <2> QED
      BY <1>1, <1>12, <2>1 DEF Placed, Opening, Attack
  <1>16. Answered(p, y)
    <2>1. ASSUME NEW s \in g.responses PROVE s.turn \in Nat /\ s.turn < g.turn
      <3>1. s.turn \in Nat /\ s.turn <= g.turn
        BY <1>1, <1>3 DEF Games, GameEvents, Answered
      <3>2. s.turn # g.turn
        BY <1>3 DEF Placed, Ended
      <3> QED
        BY <1>1, <3>1, <3>2
    <2>2. ASSUME NEW s \in y.responses
          PROVE  /\ s.op \in Results /\ s.turn <= y.turn /\ s.at \subseteq y.hits
                 /\ s.turn < y.turn => \E a \in y.history : a.op = "ACK" /\ a.turn = s.turn /\ a.of = s.op
                 /\ s.op = "MISS" => s.at \cap UNION Fleet[p] = {}
                 /\ s.op # "MISS" => s.at \subseteq UNION Fleet[p]
                 /\ s.op = "LOSS" => Sunken(p, y.hits)
      <3>1. CASE s = r
        BY <1>1, <1>2, <1>8, <1>12, <3>1
      <3>2. CASE s \in g.responses
        BY <1>3, <1>7, <1>12, <3>2 DEF Answered, Sunken
      <3> QED
        BY <1>12, <3>1, <3>2
    <2>3. ASSUME NEW s \in y.responses, NEW t \in y.responses, s.turn = t.turn PROVE s = t
      <3>1. CASE s \in g.responses /\ t \in g.responses
        BY <1>3, <2>3, <3>1 DEF Answered
      <3>2. CASE s = r /\ t \in g.responses
        BY <1>1, <1>2, <1>8, <2>1, <2>3, <3>2
      <3>3. CASE t = r /\ s \in g.responses
        BY <1>1, <1>2, <1>8, <2>1, <2>3, <3>3
      <3> QED
        BY <1>12, <3>1, <3>2, <3>3
    <2> QED
      BY <2>2, <2>3 DEF Answered
  <1>17. Recorded(p, y, k.hits)
    BY <1>3, <1>8, <1>12 DEF Recorded, Results
  <1>18. InStep(y, k)
    BY <1>12 DEF Hears, InStep, Ahead
  <1>19. Own(p, y, k.hits, R)
    <2>1. g.initiator <=> g.session = p
      BY <1>1 DEF Own
    <2> QED
      BY <1>1, <1>12, <1>14, <1>15, <1>16, <1>17, <2>1 DEF Own
  <1> QED
    BY <1>11, <1>13, <1>18, <1>19 DEF Better

\* The attacker and the attacked are two.
LEMMA OneInitiates ==
    ASSUME GameAssumption, NEW p \in Player, NEW g, NEW k, NEW H, NEW I, NEW R,
           Own(p, g, H, R), Own(Other(p), k, I, R),
           g.session = k.session, g.session \in {p, Other(p)}
    PROVE  g.initiator <=> ~k.initiator
  <1>1. Other(p) # p
    BY OtherIsOther
  <1>2. (g.initiator <=> g.session = p) /\ (k.initiator <=> k.session = Other(p))
    BY DEF Own
  <1> QED
    BY <1>1, <1>2

\* The result of a shot is believed.
LEMMA ResultLogged ==
    ASSUME GameAssumption, NEW p \in Player, NEW g, NEW k, NEW R, NEW e,
           Hears(p, g, k, R, e), e.op \in Results, Expected(g, e), Valid(p, g, e)
    PROVE  Better(p, g, Logged(g, Outcome(p, g, e), e), k, R)
  <1>1. /\ g \in Games /\ g.session # "none" /\ Before(g) = g.st /\ g.turn \in Nat
        /\ Own(p, g, k.hits, R) /\ e \in GameEvents
    BY DEF Hears, Own, Before, Games
  <1>2. g.st \in Shooting /\ e.turn = g.turn
    BY DEF Expected, Results
  <1>3. Answered(p, g) /\ Recorded(p, g, k.hits) /\ Placed(p, g, k.hits, R, g.st)
    BY <1>1 DEF Own
  <1>4. e \in k.responses /\ Answered(Other(p), k)
    BY DEF Hears, Says, Own
  <1>5. PICK f : f = Forget(g, "SHOT", g.turn)
    OBVIOUS
  <1>6. f \in Games /\ Rest(g, f) /\ f.pending \subseteq g.pending /\ f.target = g.target
        /\ f.sunk = g.sunk
    BY <1>1, <1>5, ForgetTyped
  <1>7. PICK board : board = [c \in Cell |-> IF c \in g.target THEN e.op ELSE g.enemy[c]]
    OBVIOUS
  <1>8. PICK fleet : fleet = IF e.op \in {"SUNK", "LOSS"} THEN g.sunk \cup {e.at} ELSE g.sunk
    OBVIOUS
  <1>9. Outcome(p, g, e) = [f EXCEPT !.enemy = board, !.sunk = fleet, !.turn = @ + 1,
                                     !.st = "ACK_QUEUED"]
    <2>1. f.enemy = g.enemy
      BY <1>6 DEF Rest
    <2>2. Outcome(p, g, e) = ResultOf(g, e)
      BY DEF Outcome, Results
    <2>3. board = [c \in Cell |-> IF c \in g.target THEN e.op ELSE f.enemy[c]]
      BY <1>7, <2>1
    <2>4. fleet = IF e.op \in {"SUNK", "LOSS"} THEN f.sunk \cup {e.at} ELSE f.sunk
      BY <1>6, <1>8
    <2> QED
      BY <1>5, <2>2, <2>3, <2>4 DEF ResultOf
  <1>10. PICK x : x = [f EXCEPT !.enemy = board, !.sunk = fleet, !.turn = @ + 1,
                                !.st = "ACK_QUEUED", !.history = @ \cup {e}]
    OBVIOUS
  <1>11. Logged(g, Outcome(p, g, e), e) = Queue(x, Ack(e))
    <2>1. [[f EXCEPT !.enemy = board, !.sunk = fleet, !.turn = @ + 1, !.st = "ACK_QUEUED"]
              EXCEPT !.history = @ \cup {e}] = x
      BY <1>6, <1>10 DEF Games
    <2> QED
      BY <1>9, <2>1 DEF Logged, Ackable
  <1>12. /\ x \in Games /\ x.session = g.session /\ x.initiator = g.initiator
         /\ x.turn = g.turn + 1 /\ x.enemy = board /\ x.hits = g.hits
         /\ x.responses = g.responses /\ x.history = g.history \cup {e}
         /\ x.pending \subseteq g.pending /\ Before(x) = "ACK_QUEUED"
    <2>1. "ACK_QUEUED" \in GameStates
      BY DEF GameStates, Defence
    <2>2. f.history \cup {e} \in SUBSET GameEvents /\ f.turn + 1 \in Nat
      BY <1>1, <1>6 DEF Games
    <2>3. board \in [Cell -> Results \cup {"none"}]
      BY <1>1, <1>7 DEF Games
    <2>4. fleet \in SUBSET SUBSET Cell
      BY <1>1, <1>8 DEF Games, GameEvents
    <2>5. x \in Games
      BY <1>6, <1>10, <2>1, <2>2, <2>3, <2>4 DEF Games
    <2> QED
      BY <1>6, <1>10, <2>5 DEF Games, Rest, Before
  <1>13. Keeps(g, x)
    BY <1>1, <1>12 DEF Keeps
  <1>14. \A z \in x.pending : Asks(p, x, k.hits, R, z)
    <2>1. TAKE z \in x.pending
    <2>2. z \in GameEvents /\ Asks(p, g, k.hits, R, z)
      BY <1>1, <1>12 DEF Own, Games
    <2>3. CASE z.op = "INVITE"
      BY <1>12, <2>2, <2>3 DEF Asks
    <2>4. CASE z.op # "INVITE"
      <3>1. Says(p, x, k.hits, R, z)
        BY <1>1, <1>12, <1>13, <2>2, <2>4, SaysKept DEF Asks, Keeps
      <3> QED
        BY <2>4, <3>1 DEF Asks
    <2> QED
      BY <2>3, <2>4
  <1>15. ASSUME NEW s \in g.responses PROVE s.turn \in Nat /\ s.turn < g.turn
    <2>1. s.turn \in Nat /\ s.turn <= g.turn
      BY <1>1, <1>3 DEF Games, GameEvents, Answered
    <2>2. s.turn # g.turn
      BY <1>2, <1>3 DEF Placed, Ended, Shooting
    <2> QED
      BY <1>1, <2>1, <2>2
  <1>16. OnTurn(g)
    BY <1>2, <1>3 DEF Placed, Attack, Shooting
  <1>17. Placed(p, x, k.hits, R, "ACK_QUEUED")
    <2>1. ~OnTurn(x)
      BY <1>1, <1>12, <1>16, Parity DEF OnTurn
    <2>2. \A r \in x.responses : r.turn # x.turn
      BY <1>1, <1>12, <1>15
    <2> QED
      BY <1>1, <1>12, <2>1, <2>2 DEF Placed, Opening, Attack
  <1>18. Answered(p, x)
    <2>1. \A s \in x.responses : s.turn <= x.turn
      BY <1>1, <1>12, <1>15
    <2>2. \A s \in x.responses : \E a \in x.history : a.op = "ACK" /\ a.turn = s.turn /\ a.of = s.op
      BY <1>3, <1>12, <1>15 DEF Answered
    <2> QED
      BY <1>3, <1>12, <2>1, <2>2 DEF Answered
  <1>19. Recorded(p, x, k.hits)
    <2>1. \A z \in g.history : z.turn \in Nat /\ (z.turn < g.turn => z.turn < x.turn)
      BY <1>1, <1>12 DEF Games, GameEvents
    <2>2. e.turn < x.turn
      BY <1>1, <1>2, <1>12
    <2>3. e.op = "LOSS" => Sunken(Other(p), k.hits)
      BY <1>4 DEF Answered
    <2>4. \A z \in x.history : /\ z.op = "SHOT" => \E r \in x.responses : r.turn = z.turn
                               /\ z.op \in Results => z.turn < x.turn
                               /\ z.op = "LOSS" => Sunken(Other(p), k.hits)
      BY <1>3, <1>12, <2>1, <2>2, <2>3 DEF Recorded, Results
    <2>5. ASSUME NEW c \in Cell, x.enemy[c] # "none"
          PROVE  c \in k.hits /\ (x.enemy[c] = "MISS" <=> c \notin UNION Fleet[Other(p)])
      <3>1. CASE c \notin g.target
        <4>1. x.enemy[c] = g.enemy[c]
          BY <1>7, <1>12, <3>1
        <4> QED
          BY <1>3, <2>5, <4>1 DEF Recorded
      <3>2. CASE c \in g.target
        <4>1. x.enemy[c] = e.op
          BY <1>7, <1>12, <3>2
        <4>2. c \in e.at
          BY <3>2 DEF Valid
        <4>3. /\ e.at \subseteq k.hits
              /\ e.op = "MISS" => e.at \cap UNION Fleet[Other(p)] = {}
              /\ e.op # "MISS" => e.at \subseteq UNION Fleet[Other(p)]
          BY <1>4 DEF Answered
        <4> QED
          BY <4>1, <4>2, <4>3
      <3> QED
        BY <3>1, <3>2
    <2> QED
      BY <2>4, <2>5 DEF Recorded
  <1>20. InStep(x, k)
    <2>1. k.turn \in Nat
      BY DEF Hears, Own, Games
    <2>2. g.turn <= k.turn
      BY <1>2, <1>4 DEF Answered
    <2>3. g.initiator <=> ~k.initiator
      BY OneInitiates DEF Hears
    <2>4. ~Ahead(k, g)
      BY <1>16, <2>3 DEF Ahead, OnTurn
    <2>5. g.turn = k.turn
      BY <1>1, <2>1, <2>2, <2>4 DEF Hears, InStep, Ahead
    <2> QED
      BY <1>12, <1>16, <2>5 DEF InStep, Ahead, OnTurn
  <1>21. Own(p, x, k.hits, R)
    <2>1. g.initiator <=> g.session = p
      BY <1>1 DEF Own
    <2> QED
      BY <1>1, <1>12, <1>14, <1>17, <1>18, <1>19, <2>1 DEF Own
  <1>22. PICK y : y = Queue(x, Ack(e))
    OBVIOUS
  <1>23. Own(p, y, k.hits, R) /\ Rest(x, y) /\ Keeps(x, y)
    <2>1. e.turn < x.turn /\ (e.op = "LOSS" => Sunken(Other(p), k.hits)) /\ x.session # "none"
      BY <1>1, <1>2, <1>4, <1>12 DEF Answered
    <2> QED
      BY <1>1, <1>12, <1>21, <1>22, <2>1, Acks
  <1>24. InStep(y, k)
    BY <1>20, <1>23 DEF Rest, InStep, Ahead
  <1>25. Keeps(g, y)
    <2>1. y \in Games
      BY <1>23 DEF Own
    <2> QED
      BY <1>1, <1>12, <1>13, <1>23, <2>1, KeepsOn
  <1> QED
    BY <1>11, <1>22, <1>23, <1>24, <1>25 DEF Better

LEMMA NewWell ==
    ASSUME GameAssumption, NEW p \in Player, NEW g, NEW k, NEW R, NEW e, Hears(p, g, k, R, e)
    PROVE  Better(p, g, New(p, g, e), k, R)
  <1>1. PICK h : h = Arriving(g, e)
    OBVIOUS
  <1>2. Hears(p, h, k, R, e) /\ Keeps(g, h)
    BY <1>1, ArrivesWell
  <1>3. g \in Games /\ h \in Games /\ h.session # "none" /\ Own(p, h, k.hits, R) /\ InStep(h, k)
    BY <1>2 DEF Hears, Own
  <1>4. CASE ~Expected(h, e)
    <2>1. New(p, g, e) = h
      BY <1>1, <1>4 DEF New
    <2> QED
      BY <1>2, <1>3, <2>1 DEF Better
  <1>5. CASE Expected(h, e) /\ e.op \in Results /\ ~Valid(p, h, e)
    <2>1. PICK x : x = Pause(h)
      OBVIOUS
    <2>2. New(p, g, e) = x
      BY <1>1, <1>5, <2>1 DEF New
    <2>3. x \in Games /\ Rest(h, x) /\ Before(x) = Before(h) /\ x.pending = h.pending
      BY <1>3, <2>1, PauseTyped
    <2>4. Own(p, x, k.hits, R) /\ Keeps(h, x)
      BY <1>3, <2>3, Stays
    <2>5. InStep(x, k)
      BY <1>3, <2>3 DEF Rest, InStep, Ahead
    <2> QED
      BY <1>2, <1>3, <2>2, <2>3, <2>4, <2>5, KeepsOn DEF Better
  <1>6. CASE Expected(h, e) /\ ~(e.op \in Results /\ ~Valid(p, h, e))
    <2>1. New(p, g, e) = Logged(h, Outcome(p, h, e), e)
      BY <1>1, <1>6 DEF New, Logged
    <2>2. Better(p, h, Logged(h, Outcome(p, h, e), e), k, R)
      <3>1. CASE e.op \in {"ACCEPT", "DECLINE", "RESIGN", "CANCEL"}
        BY <1>2, <1>6, <3>1, AnswerLogged
      <3>2. CASE e.op = "READY"
        BY <1>2, <1>6, <3>2, ReadyLogged
      <3>3. CASE e.op = "ACK"
        BY <1>2, <1>6, <3>3, AckLogged
      <3>4. CASE e.op = "SHOT"
        BY <1>2, <1>6, <3>4, ShotLogged
      <3>5. CASE e.op \in Results
        BY <1>2, <1>6, <3>5, ResultLogged
      <3> QED
        BY <1>6, <3>1, <3>2, <3>3, <3>4, <3>5 DEF Expected
    <2>3. PICK x : x = Logged(h, Outcome(p, h, e), e)
      OBVIOUS
    <2>4. x \in Games /\ Own(p, x, k.hits, R) /\ Keeps(h, x) /\ InStep(x, k)
      BY <2>2, <2>3 DEF Better, Own
    <2>5. Keeps(g, x)
      BY <1>2, <1>3, <2>4, KeepsOn
    <2> QED
      BY <2>1, <2>3, <2>4, <2>5 DEF Better
  <1> QED
    BY <1>4, <1>5, <1>6

----------------------------------------------------------------------------
(* The steps of the two players.                                           *)

LEMMA FramesTyped ==
    ASSUME GameAssumption, GameTypes, NEW p \in Player, NEW f \in OnWay(p)
    PROVE  f \in GameFrames
  <1>1. Other(p) \in Player
    BY OtherIsOther
  <1>2. tx[p] \in GameFrames /\ inbox[Other(p)] \in Seq(GameFrames)
    BY <1>1 DEF GameTypes
  <1> QED
    BY <1>2 DEF OnWay

\* One player's game changes.
LEMMA GameStep ==
    ASSUME GameAssumption, GameInv, NEW p \in Player, NEW q, q = Other(p), NEW n,
           game' = [game EXCEPT ![p] = n],
           tx' \in [Player -> GameFrames], inbox' \in [Player -> Seq(GameFrames)],
           done' \in [Player -> SUBSET (GameEvents \X BOOLEAN)],
           game[p].hits \subseteq n.hits, resigned \subseteq resigned',
           Own(p, n, game[q].hits, resigned'), InStep(n, game[q]),
           n.session \in {p, q, "none"}, n.session = q => game[q].session = q,
           game[q].session = p => n.session = p,
           (n.session # "none" /\ n.session = game[q].session) \/ (Blank(n) /\ Blank(game[q])),
           \A f \in OnWay(p)' : Framed(p, n, game[q].hits, resigned', f),
           \A f \in OnWay(q)' : f \in OnWay(q) \/ Framed(q, game[q], n.hits, resigned', f)
    PROVE  GameInv'
  <1>1. q \in Player /\ q # p /\ Other(q) = p /\ \A r \in Player : r = p \/ r = q
    BY OtherIsOther
  <1>2. game \in [Player -> Games] /\ n \in Games
    BY DEF GameInv, GameTypes, Own
  <1>3. game' \in [Player -> Games] /\ game'[p] = n /\ game'[q] = game[q]
    BY <1>1, <1>2
  <1>4. GameTypes'
    BY <1>3 DEF GameTypes
  <1>5. game[q] \in Games /\ Own(q, game[q], game[p].hits, resigned)
        /\ game[q].session \in {q, p, "none"} /\ (\A f \in OnWay(q) : FramedNow(q, f))
    BY <1>1, <1>2 DEF GameInv
  <1>6. /\ Own(p, game'[p], game'[q].hits, resigned') /\ InStep(game'[p], game'[q])
        /\ game'[p].session \in {p, q, "none"}
        /\ game'[p].session = q => game'[q].session = q
        /\ Joined(p)' \/ Blank(game'[p])
        /\ \A f \in OnWay(p)' : FramedNow(p, f)'
    BY <1>3 DEF Joined, FramedNow
  <1>7. Own(q, game'[q], game'[p].hits, resigned')
    BY <1>3, <1>5, OwnLater
  <1>8. InStep(game'[q], game'[p])
    BY <1>3 DEF InStep
  <1>9. /\ game'[q].session \in {q, p, "none"}
        /\ game'[q].session = p => game'[p].session = p
        /\ Joined(q)' \/ Blank(game'[q])
    BY <1>1, <1>3, <1>5 DEF Joined
  <1>10. ASSUME NEW f \in OnWay(q)' PROVE FramedNow(q, f)'
    <2>1. CASE f \in OnWay(q)
      <3>1. f \in GameFrames /\ Framed(q, game[q], game[p].hits, resigned, f)
        BY <1>1, <1>5, <2>1, FramesTyped DEF FramedNow, GameInv
      <3>2. Framed(q, game[q], n.hits, resigned', f)
        BY <1>5, <3>1, KeepsSelf, FramedLater
      <3> QED
        BY <1>1, <1>3, <3>2 DEF FramedNow
    <2>2. CASE Framed(q, game[q], n.hits, resigned', f)
      BY <1>1, <1>3, <2>2 DEF FramedNow
    <2> QED
      BY <2>1, <2>2
  <1>11. ASSUME NEW r \in Player
         PROVE  /\ Own(r, game'[r], game'[Other(r)].hits, resigned')
                /\ Joined(r)' \/ Blank(game'[r])
                /\ game'[r].session \in {r, Other(r), "none"}
                /\ game'[r].session = Other(r) => game'[Other(r)].session = Other(r)
                /\ InStep(game'[r], game'[Other(r)])
                /\ \A f \in OnWay(r)' : FramedNow(r, f)'
    <2>1. CASE r = p
      BY <1>6, <2>1
    <2>2. CASE r = q
      BY <1>1, <1>7, <1>8, <1>9, <1>10, <2>2
    <2> QED
      BY <1>1, <2>1, <2>2
  <1> QED
    BY <1>4, <1>11 DEF GameInv

\* One player's game goes on.
LEMMA GamePlays ==
    ASSUME GameAssumption, GameInv, NEW p \in Player, NEW q, q = Other(p), NEW n,
           game' = [game EXCEPT ![p] = n],
           tx' \in [Player -> GameFrames], inbox' \in [Player -> Seq(GameFrames)],
           done' \in [Player -> SUBSET (GameEvents \X BOOLEAN)],
           resigned \subseteq resigned', Keeps(game[p], n),
           Own(p, n, game[q].hits, resigned'), InStep(n, game[q]), Joined(p) \/ Blank(n),
           \A f \in OnWay(p)' : f \in OnWay(p) \/ Framed(p, n, game[q].hits, resigned', f),
           \A f \in OnWay(q)' : f \in OnWay(q)
    PROVE  GameInv'
  <1>1. q \in Player /\ q # p /\ Other(q) = p
    BY OtherIsOther
  <1>2. /\ game[p] \in Games /\ n \in Games /\ game[q] \in Games
        /\ game[p].session \in {p, q, "none"} /\ game[q].session \in {q, p, "none"}
        /\ game[p].session = q => game[q].session = q
        /\ game[q].session = p => game[p].session = p
        /\ Joined(q) \/ Blank(game[q])
    BY <1>1 DEF GameInv, GameTypes, Own
  <1>3. n.session = game[p].session /\ game[p].hits \subseteq n.hits
    BY DEF Keeps
  <1>4. (n.session # "none" /\ n.session = game[q].session) \/ (Blank(n) /\ Blank(game[q]))
    BY <1>1, <1>2, <1>3 DEF Joined
  <1>5. ASSUME NEW f \in OnWay(p)' PROVE Framed(p, n, game[q].hits, resigned', f)
    <2>1. CASE f \in OnWay(p)
      <3>1. f \in GameFrames /\ Framed(p, game[p], game[q].hits, resigned, f)
        BY <2>1, FramesTyped DEF GameInv, FramedNow
      <3> QED
        BY <1>2, <3>1, FramedLater
    <2> QED
      BY <1>5, <2>1
  <1> QED
    BY <1>2, <1>3, <1>4, <1>5, GameStep

LEMMA OwnNow ==
    ASSUME GameAssumption, GameInv, NEW p \in Player
    PROVE  /\ game[p] \in Games /\ game[Other(p)] \in Games
           /\ Own(p, game[p], game[Other(p)].hits, resigned)
           /\ Own(Other(p), game[Other(p)], game[p].hits, resigned)
           /\ Placed(p, game[p], game[Other(p)].hits, resigned, Before(game[p]))
           /\ Joined(p) \/ Blank(game[p])
           /\ game[p].session = "none" <=> Before(game[p]) = "LOBBY"
           /\ game[p].session = "none" => game[p].pending = {} /\ game[p].st = "LOBBY"
           /\ tx[p] \in GameFrames /\ inbox[p] \in Seq(GameFrames)
  <1>1. Other(p) \in Player /\ Other(Other(p)) = p
    BY OtherIsOther
  <1>2. Own(p, game[p], game[Other(p)].hits, resigned)
    BY DEF GameInv
  <1>3. Own(Other(p), game[Other(p)], game[p].hits, resigned)
    BY <1>1 DEF GameInv
  <1>4. Placed(p, game[p], game[Other(p)].hits, resigned, Before(game[p]))
    BY <1>2 DEF Own
  <1>5. game[p].session = "none" <=> Before(game[p]) = "LOBBY"
    BY <1>4 DEF Placed
  <1> QED
    BY <1>2, <1>3, <1>4, <1>5 DEF Own, GameInv, GameTypes

\* A game changes and nothing is sent.
LEMMA PlaysOn ==
    ASSUME GameAssumption, GameInv, NEW p \in Player, NEW n, Play(p, n),
           tx' = tx, inbox' = inbox, done' \in [Player -> SUBSET (GameEvents \X BOOLEAN)],
           resigned \subseteq resigned', Keeps(game[p], n), Rest(game[p], n),
           Own(p, n, game[Other(p)].hits, resigned'), Joined(p) \/ Blank(n)
    PROVE  GameInv'
  <1>1. OnWay(p)' = OnWay(p) /\ OnWay(Other(p))' = OnWay(Other(p))
    BY DEF OnWay
  <1>2. InStep(n, game[Other(p)])
    BY DEF GameInv, Rest, InStep, Ahead
  <1>3. tx' \in [Player -> GameFrames] /\ inbox' \in [Player -> Seq(GameFrames)]
    BY DEF GameInv, GameTypes
  <1> QED
    BY <1>1, <1>2, <1>3, GamePlays DEF Play

LEMMA BlankKept ==
    ASSUME NEW g, NEW n, Blank(g), Rest(g, n), Before(n) \in {Before(g), "DECLINED", "ENDING"},
           \A e \in n.pending : e \in g.pending \/ e.op \in {"INVITE", "RESIGN", "CANCEL"}
    PROVE  Blank(n)
  BY DEF Blank, Rest

LEMMA AnswerPlays ==
    ASSUME GameAssumption, GameInv, NEW p \in Player, Answer(p)
    PROVE  GameInv'
  <1>1. PICK b, o : /\ <<b, o>> \in {<<"PLACING", "ACCEPT">>, <<"DECLINED", "DECLINE">>}
                    /\ Play(p, Queue([game[p] EXCEPT !.st = b], Event(o)))
    BY DEF Answer
  <1>2. PICK g, H : g = game[p] /\ H = game[Other(p)].hits
    OBVIOUS
  <1>3. /\ g \in Games /\ Own(p, g, H, resigned) /\ Before(g) = "INVITE_RECEIVED"
        /\ g.session # "none" /\ Placed(p, g, H, resigned, Before(g)) /\ Joined(p)
    BY <1>2, OwnNow DEF Answer, Before, Blank
  <1>4. PICK e : e = Event(o)
    OBVIOUS
  <1>5. e \in GameEvents /\ e.op = o
    BY <1>1, <1>4, EventTyped DEF GameOps
  <1>6. PICK x : x = [g EXCEPT !.st = b]
    OBVIOUS
  <1>7. x \in Games /\ Rest(g, x) /\ x.pending = g.pending /\ Before(x) = b
    BY <1>1, <1>3, <1>6, StateTyped DEF GameStates, Opening, Ended
  <1>8. PICK n : n = Queue(x, e)
    OBVIOUS
  <1>9. n \in Games /\ Rest(x, n) /\ Before(n) = b /\ n.pending = g.pending \cup {e}
    BY <1>5, <1>7, <1>8, QueueTyped
  <1>10. Rest(g, n)
    BY <1>7, <1>9 DEF Rest
  <1>11. Asks(p, g, H, resigned, e)
    BY <1>1, <1>5 DEF Asks, Says, Results
  <1>12. Placed(p, g, H, resigned, b)
    <2>1. CASE b = "PLACING"
      BY <1>3, <2>1, OpeningPlaced DEF Opening
    <2>2. CASE b = "DECLINED"
      BY <1>3, <2>2, EndsPlaced
    <2> QED
      BY <1>1, <2>1, <2>2
  <1>13. Own(p, n, H, resigned) /\ Keeps(g, n)
    BY <1>1, <1>3, <1>9, <1>10, <1>11, <1>12, Rests
  <1>14. Play(p, n) /\ tx' = tx /\ inbox' = inbox /\ done' = done /\ resigned' = resigned
    BY <1>1, <1>2, <1>4, <1>6, <1>8 DEF Answer, OnAir
  <1> QED
    BY <1>2, <1>3, <1>10, <1>13, <1>14, PlaysOn DEF GameInv, GameTypes

LEMMA ReadyPlays ==
    ASSUME GameAssumption, GameInv, NEW p \in Player, Ready(p)
    PROVE  GameInv'
  <1>1. PICK g, H : g = game[p] /\ H = game[Other(p)].hits
    OBVIOUS
  <1>2. /\ g \in Games /\ Own(p, g, H, resigned) /\ Before(g) = "PLACING"
        /\ g.session # "none" /\ Placed(p, g, H, resigned, Before(g)) /\ Joined(p)
    BY <1>1, OwnNow DEF Ready, Before, Blank
  <1>3. PICK e : e = Event("READY")
    OBVIOUS
  <1>4. e \in GameEvents /\ e.op = "READY"
    BY <1>3, EventTyped DEF GameOps
  <1>5. PICK x : x = [g EXCEPT !.ready = TRUE, !.st = "READY_WAIT"]
    OBVIOUS
  <1>6. x \in Games /\ Rest(g, x) /\ x.pending = g.pending /\ Before(x) = "READY_WAIT"
    <2>1. "READY_WAIT" \in GameStates
      BY DEF GameStates, Opening
    <2> QED
      BY <1>2, <1>5, <2>1 DEF Games, Rest, Before
  <1>7. PICK y : y = Queue(x, e)
    OBVIOUS
  <1>8. y \in Games /\ Rest(x, y) /\ Before(y) = "READY_WAIT" /\ y.pending = g.pending \cup {e}
    BY <1>4, <1>6, <1>7, QueueTyped
  <1>9. Rest(g, y)
    BY <1>6, <1>8 DEF Rest
  <1>10. Asks(p, g, H, resigned, e)
    BY <1>4 DEF Asks, Says, Results
  <1>11. Placed(p, g, H, resigned, "READY_WAIT")
    BY <1>2, OpeningPlaced DEF Opening
  <1>12. Own(p, y, H, resigned) /\ Keeps(g, y)
    BY <1>2, <1>8, <1>9, <1>10, <1>11, Rests
  <1>13. PICK n : n = Started(y)
    OBVIOUS
  <1>14. n \in Games /\ Own(p, n, H, resigned) /\ Keeps(y, n) /\ Rest(y, n)
    <2>1. y.session # "none"
      BY <1>2, <1>9 DEF Rest
    <2> QED
      BY <1>8, <1>12, <1>13, <2>1, StartedOwn, StartedTyped
  <1>15. Rest(g, n) /\ Keeps(g, n)
    BY <1>2, <1>8, <1>9, <1>12, <1>14, KeepsOn DEF Rest
  <1>16. Play(p, n) /\ tx' = tx /\ inbox' = inbox /\ done' = done /\ resigned' = resigned
    BY <1>1, <1>3, <1>5, <1>7, <1>13 DEF Ready, OnAir
  <1> QED
    BY <1>1, <1>2, <1>14, <1>15, <1>16, PlaysOn DEF GameInv, GameTypes

LEMMA FirePlays ==
    ASSUME GameAssumption, GameInv, NEW p \in Player, Fire(p)
    PROVE  GameInv'
  <1>1. PICK g, H : g = game[p] /\ H = game[Other(p)].hits
    OBVIOUS
  <1>2. /\ g \in Games /\ Own(p, g, H, resigned) /\ Before(g) = "MY_TURN" /\ g.turn \in Nat
        /\ g.session # "none" /\ Placed(p, g, H, resigned, Before(g)) /\ Joined(p)
    BY <1>1, OwnNow DEF Fire, Before, Blank, Games
  <1>3. PICK c \in Cell : Play(p, Queue([g EXCEPT !.target = {c}, !.st = "SHOT_QUEUED"],
                                        Shot(g.turn, c)))
    BY <1>1 DEF Fire
  <1>4. PICK e : e = Shot(g.turn, c)
    OBVIOUS
  <1>5. e \in GameEvents /\ e.op = "SHOT" /\ e.at = {c}
    BY <1>2, <1>4, ShotTyped
  <1>6. PICK x : x = [g EXCEPT !.target = {c}, !.st = "SHOT_QUEUED"]
    OBVIOUS
  <1>7. x \in Games /\ Rest(g, x) /\ x.pending = g.pending /\ Before(x) = "SHOT_QUEUED"
    <2>1. "SHOT_QUEUED" \in GameStates
      BY DEF GameStates, Attack
    <2> QED
      BY <1>2, <1>6, <2>1 DEF Games, Rest, Before
  <1>8. PICK n : n = Queue(x, e)
    OBVIOUS
  <1>9. n \in Games /\ Rest(x, n) /\ Before(n) = "SHOT_QUEUED" /\ n.pending = g.pending \cup {e}
    BY <1>5, <1>7, <1>8, QueueTyped
  <1>10. Rest(g, n)
    BY <1>7, <1>9 DEF Rest
  <1>11. Asks(p, g, H, resigned, e)
    BY <1>5 DEF Asks, Says, Results
  <1>12. Placed(p, g, H, resigned, "SHOT_QUEUED")
    BY <1>2 DEF Placed, Opening, Attack, Defence, Ended
  <1>13. Own(p, n, H, resigned) /\ Keeps(g, n)
    BY <1>2, <1>9, <1>10, <1>11, <1>12, Rests
  <1>14. Play(p, n) /\ tx' = tx /\ inbox' = inbox /\ done' = done /\ resigned' = resigned
    BY <1>3, <1>4, <1>6, <1>8 DEF Fire, OnAir
  <1> QED
    BY <1>1, <1>2, <1>10, <1>13, <1>14, PlaysOn DEF GameInv, GameTypes

LEMMA EndPlays ==
    ASSUME GameAssumption, GameInv, NEW p \in Player, End(p)
    PROVE  GameInv'
  <1>1. PICK g, H : g = game[p] /\ H = game[Other(p)].hits
    OBVIOUS
  <1>2. /\ g \in Games /\ Own(p, g, H, resigned) /\ g.session # "none"
        /\ Joined(p) \/ Blank(g)
    BY <1>1, OwnNow DEF End
  <1>3. PICK o \in {"RESIGN", "CANCEL"} :
          /\ Play(p, Queue([g EXCEPT !.pending = {}, !.st = "ENDING"], Event(o)))
          /\ resigned' = IF o = "RESIGN" THEN resigned \cup {p} ELSE resigned
    BY <1>1 DEF End
  <1>4. PICK e : e = Event(o)
    OBVIOUS
  <1>5. e \in GameEvents /\ e.op = o
    BY <1>4, EventTyped DEF GameOps
  <1>6. PICK x : x = [g EXCEPT !.pending = {}, !.st = "ENDING"]
    OBVIOUS
  <1>7. x \in Games /\ Rest(g, x) /\ x.pending = {} /\ Before(x) = "ENDING"
    BY <1>2, <1>6, OverTyped DEF GameStates
  <1>8. PICK n : n = Queue(x, e)
    OBVIOUS
  <1>9. n \in Games /\ Rest(x, n) /\ Before(n) = "ENDING" /\ n.pending = {e}
    BY <1>5, <1>7, <1>8, QueueTyped
  <1>10. Rest(g, n)
    BY <1>7, <1>9 DEF Rest
  <1>11. Own(p, g, H, resigned') /\ resigned \subseteq resigned'
    BY <1>2, <1>3, OwnLater
  <1>12. Asks(p, g, H, resigned', e)
    BY <1>3, <1>5 DEF Asks, Says, Results
  <1>13. Placed(p, g, H, resigned', "ENDING")
    BY <1>2, EndsPlaced
  <1>14. Own(p, n, H, resigned') /\ Keeps(g, n)
    BY <1>2, <1>9, <1>10, <1>11, <1>12, <1>13, Rests
  <1>15. Joined(p) \/ Blank(n)
    BY <1>2, <1>5, <1>9, <1>10, BlankKept
  <1>16. Play(p, n) /\ tx' = tx /\ inbox' = inbox /\ done' = done
    BY <1>3, <1>4, <1>6, <1>8 DEF End, Disturb
  <1> QED
    BY <1>1, <1>10, <1>11, <1>14, <1>15, <1>16, PlaysOn DEF GameInv, GameTypes

LEMMA ResumePlays ==
    ASSUME GameAssumption, GameInv, NEW p \in Player, Resume(p)
    PROVE  GameInv'
  <1>1. PICK g, H : g = game[p] /\ H = game[Other(p)].hits
    OBVIOUS
  <1>2. /\ g \in Games /\ Own(p, g, H, resigned) /\ g.session # "none" /\ g.st = "PAUSED"
        /\ Joined(p) \/ Blank(g)
    BY <1>1, OwnNow DEF Resume
  <1>3. PICK n : n = [g EXCEPT !.st = g.was, !.sent = {}]
    OBVIOUS
  <1>4. n \in Games /\ Rest(g, n) /\ n.pending = g.pending /\ Before(n) = Before(g)
    BY <1>2, <1>3 DEF Games, Rest, Before
  <1>5. Own(p, n, H, resigned) /\ Keeps(g, n)
    BY <1>2, <1>4, Stays
  <1>6. Joined(p) \/ Blank(n)
    BY <1>2, <1>4, BlankKept
  <1>7. Play(p, n) /\ tx' = tx /\ inbox' = inbox /\ done' = done /\ resigned' = resigned
    BY <1>1, <1>3 DEF Resume, Disturb
  <1> QED
    BY <1>1, <1>4, <1>5, <1>6, <1>7, PlaysOn DEF GameInv, GameTypes

LEMMA ExpirePlays ==
    ASSUME GameAssumption, GameInv, NEW p \in Player, Expire(p)
    PROVE  GameInv'
  <1>1. PICK g, H : g = game[p] /\ H = game[Other(p)].hits
    OBVIOUS
  <1>2. /\ g \in Games /\ Own(p, g, H, resigned) /\ g.session # "none"
        /\ Joined(p) \/ Blank(g)
    BY <1>1, OwnNow DEF Expire
  <1>3. PICK n : n = [g EXCEPT !.pending = {}, !.st = "DECLINED"]
    OBVIOUS
  <1>4. n \in Games /\ Rest(g, n) /\ n.pending = {} /\ Before(n) = "DECLINED"
    BY <1>2, <1>3, OverTyped DEF GameStates, Ended
  <1>5. Own(p, n, H, resigned) /\ Keeps(g, n)
    <2>1. Placed(p, g, H, resigned, "DECLINED")
      BY <1>2, EndsPlaced
    <2> QED
      BY <1>2, <1>4, <2>1, Rests
  <1>6. Joined(p) \/ Blank(n)
    BY <1>2, <1>4, BlankKept
  <1>7. Play(p, n) /\ tx' = tx /\ inbox' = inbox /\ done' = done /\ resigned' = resigned
    BY <1>1, <1>3 DEF Expire, Disturb
  <1> QED
    BY <1>1, <1>4, <1>5, <1>6, <1>7, PlaysOn DEF GameInv, GameTypes

LEMMA AttemptsCounted ==
    ASSUME GameAssumption, NEW g, NEW e
    PROVE  Attempts(g, e) \in Nat
  <1>1. CASE \E n \in 1..MaxAttempts : <<e, n>> \in g.sent
    <2>1. (CHOOSE n \in 1..MaxAttempts : <<e, n>> \in g.sent) \in 1..MaxAttempts
      BY <1>1
    <2>2. Attempts(g, e) \in 1..MaxAttempts
      BY <1>1, <2>1 DEF Attempts
    <2> QED
      BY <2>2 DEF GameAssumption
  <1>2. CASE ~ \E n \in 1..MaxAttempts : <<e, n>> \in g.sent
    BY <1>2 DEF Attempts
  <1> QED
    BY <1>1, <1>2

LEMMA TransmitPlays ==
    ASSUME GameAssumption, GameInv, NEW p \in Player, Transmit(p)
    PROVE  GameInv'
  <1>1. PICK g, H : g = game[p] /\ H = game[Other(p)].hits
    OBVIOUS
  <1>2. PICK e \in g.pending : LET n == Attempts(g, e) IN
         IF n < MaxAttempts THEN
              /\ tx' = [tx EXCEPT ![p] = [session |-> g.session, event |-> e]]
              /\ Play(p, [g EXCEPT !.queued = @ \cup {e},
                                   !.sent = (@ \ {<<e, n>>}) \cup {<<e, n + 1>>}])
            ELSE
              /\ UNCHANGED tx
              /\ Play(p, IF e.op = "INVITE"
                         THEN [g EXCEPT !.pending = {}, !.st = "DECLINED"] ELSE Pause(g))
    BY <1>1 DEF Transmit
  <1>3. /\ g \in Games /\ Own(p, g, H, resigned) /\ g.session # "none"
        /\ (Joined(p) \/ Blank(g)) /\ e \in GameEvents /\ Asks(p, g, H, resigned, e)
        /\ Before(g) = "INVITE_SENT" => e.op = "INVITE"
    BY <1>1, OwnNow DEF Own, Games
  <1>4. inbox' = inbox /\ done' = done /\ resigned' = resigned
    BY DEF Transmit
  <1>5. PICK k : k = Attempts(g, e)
    OBVIOUS
  <1>6. k \in Nat
    BY <1>5, AttemptsCounted
  <1>7. CASE k < MaxAttempts
    <2>1. PICK f : f = [session |-> g.session, event |-> e]
      OBVIOUS
    <2>2. PICK n : n = [g EXCEPT !.queued = @ \cup {e},
                                 !.sent = (@ \ {<<e, k>>}) \cup {<<e, k + 1>>}]
      OBVIOUS
    <2>3. tx' = [tx EXCEPT ![p] = f] /\ Play(p, n)
      BY <1>2, <1>5, <1>7, <2>1, <2>2
    <2>4. n \in Games /\ Rest(g, n) /\ n.pending = g.pending /\ Before(n) = Before(g)
      <3>1. (g.sent \ {<<e, k>>}) \cup {<<e, k + 1>>} \in SUBSET (GameEvents \X Nat)
        BY <1>3, <1>6 DEF Games
      <3>2. g.queued \cup {e} \in SUBSET GameEvents
        BY <1>3 DEF Games
      <3>3. n \in Games
        BY <1>3, <2>2, <3>1, <3>2 DEF Games
      <3> QED
        BY <1>3, <2>2, <3>3 DEF Games, Rest, Before
    <2>5. Own(p, n, H, resigned) /\ Keeps(g, n)
      BY <1>3, <2>4, Stays
    <2>6. Joined(p) \/ Blank(n)
      BY <1>3, <2>4, BlankKept
    <2>7. f \in GameFrames /\ f.session = g.session /\ f.event = e
      BY <1>3, <2>1 DEF GameFrames, Games
    <2>8. Framed(p, g, H, resigned, f)
      BY <1>3, <2>7 DEF Framed, Asks
    <2>9. Framed(p, n, H, resigned, f)
      BY <1>3, <2>4, <2>5, <2>7, <2>8, FramedLater
    <2>10. tx' \in [Player -> GameFrames] /\ inbox' \in [Player -> Seq(GameFrames)]
           /\ done' \in [Player -> SUBSET (GameEvents \X BOOLEAN)]
      BY <1>4, <2>3, <2>7 DEF GameInv, GameTypes
    <2>11. InStep(n, game[Other(p)])
      BY <1>1, <2>4 DEF GameInv, Rest, InStep, Ahead
    <2>12. Other(p) \in Player /\ Other(p) # p
      BY OtherIsOther
    <2>13. \A z \in OnWay(p)' : z \in OnWay(p) \/ z = f
      BY <1>4, <2>3, <2>12 DEF OnWay, GameInv, GameTypes
    <2>14. \A z \in OnWay(Other(p))' : z \in OnWay(Other(p))
      BY <1>4, <2>3, <2>12 DEF OnWay, GameInv, GameTypes
    <2>15. game' = [game EXCEPT ![p] = n]
      BY <2>3 DEF Play
    <2> QED
      BY <1>1, <1>4, <2>5, <2>6, <2>9, <2>10, <2>11, <2>13, <2>14, <2>15, GamePlays
  <1>8. CASE ~(k < MaxAttempts) /\ e.op = "INVITE"
    <2>1. PICK n : n = [g EXCEPT !.pending = {}, !.st = "DECLINED"]
      OBVIOUS
    <2>2. n \in Games /\ Rest(g, n) /\ n.pending = {} /\ Before(n) = "DECLINED"
      BY <1>3, <2>1, OverTyped DEF GameStates, Ended
    <2>3. Placed(p, g, H, resigned, "DECLINED")
      BY <1>3, EndsPlaced
    <2>4. Own(p, n, H, resigned) /\ Keeps(g, n)
      BY <1>3, <2>2, <2>3, Rests
    <2>5. Joined(p) \/ Blank(n)
      BY <1>3, <2>2, BlankKept
    <2>6. Play(p, n) /\ tx' = tx
      BY <1>2, <1>5, <1>8, <2>1
    <2> QED
      BY <1>1, <1>4, <2>2, <2>4, <2>5, <2>6, PlaysOn DEF GameInv, GameTypes
  <1>9. CASE ~(k < MaxAttempts) /\ e.op # "INVITE"
    <2>1. PICK n : n = Pause(g)
      OBVIOUS
    <2>2. n \in Games /\ Rest(g, n) /\ n.pending = g.pending /\ Before(n) = Before(g)
      BY <1>3, <2>1, PauseTyped
    <2>3. Own(p, n, H, resigned) /\ Keeps(g, n)
      BY <1>3, <2>2, Stays
    <2>4. Joined(p) \/ Blank(n)
      BY <1>3, <2>2, BlankKept
    <2>5. Play(p, n) /\ tx' = tx
      BY <1>2, <1>5, <1>9, <2>1
    <2> QED
      BY <1>1, <1>4, <2>2, <2>3, <2>4, <2>5, PlaysOn DEF GameInv, GameTypes
  <1> QED
    BY <1>7, <1>8, <1>9

LEMMA SentPlays ==
    ASSUME GameAssumption, GameInv, NEW p \in Player, Sent(p)
    PROVE  GameInv'
  <1>1. PICK q : q = Other(p)
    OBVIOUS
  <1>2. q \in Player /\ q # p /\ Other(q) = p
    BY <1>1, OtherIsOther
  <1>3. /\ game' = game /\ resigned' = resigned /\ tx[p] # NoFrame
        /\ tx' = [tx EXCEPT ![p] = NoFrame]
        /\ inbox' = [inbox EXCEPT ![q] = Append(@, tx[p])] \/ inbox' = inbox
        /\ \E ok \in BOOLEAN : done' = [done EXCEPT ![p] = @ \cup {<<tx[p].event, ok>>}]
    BY <1>1 DEF Sent
  <1>4. /\ game \in [Player -> Games] /\ tx \in [Player -> GameFrames]
        /\ done \in [Player -> SUBSET (GameEvents \X BOOLEAN)]
        /\ inbox \in [Player -> Seq(GameFrames)] /\ inbox[q] \in Seq(GameFrames)
        /\ tx[p] \in GameFrames
    BY <1>2 DEF GameInv, GameTypes
  <1>5. NoFrame \in GameFrames
    BY DEF NoFrame, NoEvent, GameFrames, GameEvents, GameOps, NoTurn
  <1>6. tx' \in [Player -> GameFrames]
    BY <1>3, <1>4, <1>5
  <1>7. done' \in [Player -> SUBSET (GameEvents \X BOOLEAN)]
    <2>1. tx[p].event \in GameEvents
      BY <1>4 DEF GameFrames
    <2> QED
      BY <1>3, <1>4, <2>1
  <1>8. inbox' \in [Player -> Seq(GameFrames)]
    <2>1. Append(inbox[q], tx[p]) \in Seq(GameFrames)
      BY <1>4
    <2> QED
      BY <1>3, <1>4, <2>1
  <1>9. \A f \in OnWay(p)' : f \in OnWay(p)
    <2>1. tx'[p] = NoFrame
      BY <1>3, <1>4
    <2>2. CASE inbox' = inbox
      BY <1>1, <2>1, <2>2 DEF OnWay
    <2>3. CASE inbox' = [inbox EXCEPT ![q] = Append(@, tx[p])]
      <3>1. inbox'[q] = Append(inbox[q], tx[p])
        BY <1>2, <1>4, <2>3
      <3>2. \A i \in 1..Len(inbox'[q]) :
              inbox'[q][i] = tx[p] \/ \E j \in 1..Len(inbox[q]) : inbox'[q][i] = inbox[q][j]
        BY <1>4, <3>1
      <3>3. tx[p] \in OnWay(p)
        BY <1>3 DEF OnWay
      <3> QED
        BY <1>1, <2>1, <3>2, <3>3 DEF OnWay
    <2> QED
      BY <1>3, <2>2, <2>3
  <1>10. \A f \in OnWay(q)' : f \in OnWay(q)
    <2>1. tx'[q] = tx[q] /\ inbox'[p] = inbox[p]
      BY <1>2, <1>3, <1>4
    <2> QED
      BY <1>2, <2>1 DEF OnWay
  <1>11. PICK n : n = game[p]
    OBVIOUS
  <1>12. /\ Keeps(game[p], n) /\ Own(p, n, game[q].hits, resigned)
         /\ InStep(n, game[q]) /\ (Joined(p) \/ Blank(n))
    BY <1>1, <1>4, <1>11, KeepsSelf DEF GameInv
  <1>13. resigned \subseteq resigned' /\ Own(p, n, game[q].hits, resigned')
    BY <1>3, <1>12
  <1>14. game' = [game EXCEPT ![p] = n]
    BY <1>3, <1>4, <1>11
  <1> QED
    BY <1>1, <1>6, <1>7, <1>8, <1>9, <1>10, <1>12, <1>13, <1>14, GamePlays

\* The report of a transmission.
LEMMA ReportedWell ==
    ASSUME NEW p, NEW g, NEW H, NEW R, Own(p, g, H, R), NEW e, NEW ok \in BOOLEAN,
           NEW n, n = Reported(g, e, ok)
    PROVE  Own(p, n, H, R) /\ Keeps(g, n) /\ Rest(g, n) /\ (Blank(g) => Blank(n))
  <1>1. g \in Games /\ Placed(p, g, H, R, Before(g))
    BY DEF Own
  <1>2. CASE e \notin g.pending
    <2>1. n = g
      BY <1>2 DEF Reported
    <2> QED
      BY <1>1, <2>1, KeepsSelf DEF Rest
  <1>3. CASE e \in g.pending
    <2>1. e \in GameEvents /\ Asks(p, g, H, R, e) /\ g.session # "none"
      BY <1>1, <1>3 DEF Own, Games
    <2>2. PICK h : h = [g EXCEPT !.queued = @ \ {e}]
      OBVIOUS
    <2>3. h \in Games /\ Rest(g, h) /\ h.pending = g.pending /\ Before(h) = Before(g) /\ h.st = g.st
      BY <1>1, <2>2 DEF Games, Rest, Before
    <2>4. Own(p, h, H, R) /\ Keeps(g, h)
      BY <1>1, <2>1, <2>3, Stays
    <2>5. CASE ~ok
      <3>1. n = Pause(h)
        BY <1>3, <2>2, <2>5 DEF Reported
      <3>2. n \in Games /\ Rest(h, n) /\ Before(n) = Before(h) /\ n.pending = h.pending
        BY <2>3, <3>1, PauseTyped
      <3>3. Rest(g, n)
        BY <2>3, <3>2 DEF Rest
      <3> QED
        BY <1>1, <2>1, <2>3, <3>2, <3>3, Stays, BlankKept
    <2>6. CASE ok /\ e.op = "ACK"
      <3>1. PICK b : b = IF e.of \in Results /\ g.st = "ACK_QUEUED"
                         THEN IF e.of = "LOSS" THEN "WON" ELSE "PEER_TURN" ELSE g.st
        OBVIOUS
      <3>2. n = [h EXCEPT !.pending = @ \ {e}, !.st = b]
        BY <1>3, <2>2, <2>3, <2>6, <3>1 DEF Reported
      <3>3. b \in GameStates
        BY <1>1, <3>1 DEF Games, GameStates, Defence, Ended
      <3>4. n \in Games /\ Rest(g, n) /\ n.pending \subseteq g.pending /\ n.st = b /\ n.was = g.was
        <4>3. h.pending \ {e} \in SUBSET GameEvents
          BY <2>3 DEF Games
        <4>4. PICK rest : rest = h.pending \ {e}
          OBVIOUS
        <4>5. n = [h EXCEPT !.pending = rest, !.st = b] /\ rest \in SUBSET GameEvents
          BY <3>2, <4>3, <4>4
        <4>1. n \in Games
          <5>1. [h EXCEPT !.pending = rest] \in Games
            BY <2>3, <4>5 DEF Games
          <5> QED
            BY <3>3, <4>5, <5>1 DEF Games
        <4>2. h.was = g.was
          BY <1>1, <2>2 DEF Games
        <4> QED
          BY <2>3, <3>2, <4>1, <4>2 DEF Games, Rest
      <3>5. CASE b = g.st
        <4>1. Before(n) = Before(g)
          BY <3>4, <3>5 DEF Before
        <4> QED
          BY <1>1, <2>1, <3>4, <4>1, Stays, BlankKept
      <3>6. CASE b # g.st
        <4>1. g.st = "ACK_QUEUED" /\ e.of \in Results /\ b = IF e.of = "LOSS" THEN "WON" ELSE "PEER_TURN"
          BY <3>1, <3>6
        <4>2. Before(g) = "ACK_QUEUED" /\ Before(n) = b /\ ~Blank(g)
          BY <3>4, <4>1 DEF Before, Blank
        <4>3. Placed(p, g, H, R, b)
          <5>1. CASE e.of = "LOSS"
            <6>1. Sunken(Other(p), H)
              BY <2>1, <2>6, <5>1 DEF Asks, Says
            <6> QED
              BY <2>1, <4>1, <5>1, <6>1, EndsPlaced
          <5>2. CASE e.of # "LOSS"
            BY <1>1, <2>1, <4>1, <4>2, <5>2 DEF Placed, Opening, Attack, Defence, Ended
          <5> QED
            BY <5>1, <5>2
        <4>4. b # "INVITE_SENT"
          BY <4>1
        <4> QED
          BY <1>1, <2>1, <3>4, <4>2, <4>3, <4>4, Rests
      <3> QED
        BY <3>5, <3>6
    <2>7. CASE ok /\ e.op = "SHOT" /\ h.st = "SHOT_QUEUED"
      <3>1. n = [h EXCEPT !.st = "WAIT_RESULT"]
        BY <1>3, <2>2, <2>7 DEF Reported
      <3>2. n \in Games /\ Rest(h, n) /\ n.pending = h.pending /\ Before(n) = "WAIT_RESULT"
        BY <2>3, <3>1, StateTyped DEF GameStates, Attack
      <3>3. Rest(g, n) /\ Before(g) = "SHOT_QUEUED" /\ ~Blank(g)
        BY <2>3, <2>7, <3>2 DEF Rest, Before, Blank
      <3>4. Placed(p, g, H, R, "WAIT_RESULT")
        BY <1>1, <2>1, <3>3 DEF Placed, Opening, Attack, Defence, Ended
      <3> QED
        BY <1>1, <2>1, <2>3, <3>2, <3>3, <3>4, Rests
    <2>8. CASE ok /\ e.op # "ACK" /\ ~(e.op = "SHOT" /\ h.st = "SHOT_QUEUED")
      <3>1. n = h
        BY <1>3, <2>2, <2>8 DEF Reported
      <3> QED
        BY <2>3, <2>4, <3>1, BlankKept
    <2> QED
      BY <2>5, <2>6, <2>7, <2>8
  <1> QED
    BY <1>2, <1>3

LEMMA TxDonePlays ==
    ASSUME GameAssumption, GameInv, NEW p \in Player, TxDone(p)
    PROVE  GameInv'
  <1>1. PICK d \in done[p] : /\ done' = [done EXCEPT ![p] = @ \ {d}]
                             /\ Play(p, Reported(game[p], d[1], d[2]))
    BY DEF TxDone
  <1>2. done \in [Player -> SUBSET (GameEvents \X BOOLEAN)]
    BY DEF GameInv, GameTypes
  <1>3. d[2] \in BOOLEAN
    BY <1>2
  <1>4. done' \in [Player -> SUBSET (GameEvents \X BOOLEAN)]
    BY <1>1, <1>2
  <1>5. PICK n : n = Reported(game[p], d[1], d[2])
    OBVIOUS
  <1>6. Own(p, game[p], game[Other(p)].hits, resigned) /\ (Joined(p) \/ Blank(game[p]))
    BY OwnNow
  <1>7. /\ Own(p, n, game[Other(p)].hits, resigned) /\ Keeps(game[p], n) /\ Rest(game[p], n)
        /\ Blank(game[p]) => Blank(n)
    BY <1>3, <1>5, <1>6, ReportedWell
  <1>8. Play(p, n) /\ tx' = tx /\ inbox' = inbox /\ resigned' = resigned
    BY <1>1, <1>5 DEF TxDone
  <1> QED
    BY <1>4, <1>6, <1>7, <1>8, PlaysOn

LEMMA InvitePlays ==
    ASSUME GameAssumption, GameInv, NEW p \in Player, Invite(p)
    PROVE  GameInv'
  <1>1. PICK q : q = Other(p)
    OBVIOUS
  <1>2. q \in Player /\ q # p /\ Other(q) = p /\ q # "none" /\ p # "none"
    BY <1>1, OtherIsOther DEF GameAssumption
  <1>3. PICK g, k : g = game[p] /\ k = game[q]
    OBVIOUS
  <1>4. /\ g.session = "none" /\ Blank(g) /\ k \in Games /\ g \in Games /\ Own(q, k, g.hits, resigned)
    <2>1. Before(g) = "LOBBY"
      BY <1>3 DEF Invite, Before
    <2> QED
      BY <1>1, <1>3, <2>1, OwnNow DEF Joined
  <1>5. /\ k.session \in {q, p, "none"}
        /\ k.session = p => g.session = p
        /\ Joined(q) \/ Blank(k)
    BY <1>2, <1>3 DEF GameInv
  <1>6. k.session # p /\ Blank(k)
    BY <1>2, <1>3, <1>4, <1>5 DEF Joined
  <1>7. PICK x : x = NewGame(p, TRUE, "INVITE_SENT")
    OBVIOUS
  <1>8. /\ x \in Games /\ x.session = p /\ x.initiator = TRUE /\ Before(x) = "INVITE_SENT"
        /\ x.turn = 0 /\ x.responses = {} /\ x.hits = {} /\ x.history = {} /\ x.pending = {}
        /\ \A c \in Cell : x.enemy[c] = "none"
    <2>1. "INVITE_SENT" \in GameStates
      BY DEF GameStates, Opening
    <2>2. PICK i \in BOOLEAN : i = TRUE
      OBVIOUS
    <2>3. x = NewGame(p, i, "INVITE_SENT")
      BY <1>7, <2>2
    <2>4. p \in Player \cup {"none"} /\ "INVITE_SENT" # "PAUSED"
      OBVIOUS
    <2>5. /\ x \in Games /\ x.session = p /\ x.initiator = i /\ Before(x) = "INVITE_SENT"
          /\ x.turn = 0 /\ x.responses = {} /\ x.hits = {} /\ x.history = {} /\ x.pending = {}
          /\ \A c \in Cell : x.enemy[c] = "none"
      BY <2>1, <2>3, <2>4, NewGameTyped
    <2> QED
      BY <2>2, <2>5
  <1>9. PICK e : e = Event("INVITE")
    OBVIOUS
  <1>10. e \in GameEvents /\ e.op = "INVITE"
    BY <1>9, EventTyped DEF GameOps
  <1>11. PICK n : n = Queue(x, e)
    OBVIOUS
  <1>12. n \in Games /\ Rest(x, n) /\ Before(n) = "INVITE_SENT" /\ n.pending = {e}
    BY <1>8, <1>10, <1>11, QueueTyped
  <1>13. /\ n.session = p /\ n.initiator /\ n.turn = 0 /\ n.responses = {} /\ n.hits = {}
         /\ n.history = {} /\ \A c \in Cell : n.enemy[c] = "none"
    BY <1>8, <1>12 DEF Rest
  <1>14. Own(p, n, k.hits, resigned)
    <2>1. Placed(p, n, k.hits, resigned, "INVITE_SENT")
      BY <1>2, <1>13 DEF Placed, Attack, Defence
    <2>2. Answered(p, n) /\ Recorded(p, n, k.hits)
      BY <1>13 DEF Answered, Recorded
    <2>3. \A z \in n.pending : Asks(p, n, k.hits, resigned, z) /\ z.op = "INVITE"
      BY <1>10, <1>12, <1>13 DEF Asks
    <2> QED
      BY <1>2, <1>12, <1>13, <2>1, <2>2, <2>3 DEF Own
  <1>15. Blank(n)
    BY <1>10, <1>12, <1>13 DEF Blank
  <1>16. InStep(n, k)
    BY <1>6, <1>13 DEF InStep, Blank
  <1>17. game' = [game EXCEPT ![p] = n] /\ tx' = tx /\ inbox' = inbox /\ done' = done /\ resigned' = resigned
    BY <1>7, <1>9, <1>11 DEF Invite, Play, OnAir
  <1>18. /\ tx' \in [Player -> GameFrames] /\ inbox' \in [Player -> Seq(GameFrames)]
         /\ done' \in [Player -> SUBSET (GameEvents \X BOOLEAN)]
    BY <1>17 DEF GameInv, GameTypes
  <1>19. OnWay(p)' = OnWay(p) /\ OnWay(q)' = OnWay(q)
    BY <1>17 DEF OnWay
  <1>20. OnWay(p) = {}
    <2>1. \A f \in OnWay(p) : Framed(p, g, k.hits, resigned, f)
      BY <1>1, <1>3 DEF GameInv, FramedNow
    <2> QED
      BY <1>4, <2>1 DEF Framed
  <1>21. g.hits \subseteq n.hits /\ resigned \subseteq resigned'
    BY <1>4, <1>17 DEF Blank
  <1>22. n.session # q
    BY <1>2, <1>13
  <1>23. \A f \in OnWay(p)' : Framed(p, n, k.hits, resigned', f)
    BY <1>19, <1>20
  <1>24. Own(p, n, k.hits, resigned')
    BY <1>14, <1>17
  <1>25. game[q].session = p => n.session = p
    BY <1>13
  <1>26. /\ game[p].hits \subseteq n.hits /\ Own(p, n, game[q].hits, resigned')
         /\ InStep(n, game[q]) /\ Blank(n) /\ Blank(game[q])
    BY <1>3, <1>6, <1>15, <1>16, <1>21, <1>24
  <1>27. n.session \in {p, q, "none"}
    BY <1>13
  <1>28. /\ \A f \in OnWay(p)' : Framed(p, n, game[q].hits, resigned', f)
         /\ \A f \in OnWay(q)' : f \in OnWay(q)
    BY <1>3, <1>19, <1>23
  <1>29. game' = [game EXCEPT ![p] = n] /\ resigned \subseteq resigned'
    BY <1>17
  <1> QED
    BY <1>1, <1>18, <1>22, <1>25, <1>26, <1>27, <1>28, <1>29, GameStep

\* The invitation of the other makes a game, or is answered again.
LEMMA ReceivedTyped ==
    ASSUME NEW q \in Player
    PROVE  \E n : /\ n = NewGame(q, FALSE, "INVITE_RECEIVED")
                  /\ n \in Games /\ n.session = q /\ ~n.initiator /\ Before(n) = "INVITE_RECEIVED"
                  /\ n.turn = 0 /\ n.responses = {} /\ n.hits = {} /\ n.history = {} /\ n.pending = {}
                  /\ \A c \in Cell : n.enemy[c] = "none"
  <1>1. PICK n : n = NewGame(q, FALSE, "INVITE_RECEIVED")
    OBVIOUS
  <1>2. n \in Games
    BY <1>1 DEF NewGame, Games, GameStates, Opening, Results
  <1> QED
    BY <1>1, <1>2 DEF NewGame, Before

LEMMA AnsweredAgain ==
    ASSUME NEW p, NEW g, NEW H, NEW R, Own(p, g, H, R), g.session # p, g.session # "none",
           NEW o \in {"ACCEPT", "DECLINE"}, NEW n, n = Queue(g, Event(o))
    PROVE  Own(p, n, H, R) /\ Keeps(g, n) /\ Rest(g, n)
  <1>1. PICK e : e = Event(o)
    OBVIOUS
  <1>2. e \in GameEvents /\ e.op = o
    BY <1>1, EventTyped DEF GameOps
  <1>3. n = Queue(g, e) /\ g \in Games
    BY <1>1 DEF Own
  <1>4. n \in Games /\ Rest(g, n) /\ Before(n) = Before(g) /\ n.pending = g.pending \cup {e}
    BY <1>2, <1>3, QueueTyped
  <1>5. Asks(p, g, H, R, e)
    BY <1>2 DEF Asks, Says, Results
  <1>6. Before(g) # "INVITE_SENT"
    <2>1. ~g.initiator
      BY DEF Own
    <2> QED
      BY <2>1 DEF Own, Placed
  <1> QED
    BY <1>3, <1>4, <1>5, <1>6, Stays

\* An invitation is heard.
LEMMA InvitationHeard ==
    ASSUME GameAssumption, GameInv, NEW p \in Player, NEW f \in OnWay(Other(p)),
           f.event.op = "INVITE", NEW n, n = HearInvite(p, f.session), Play(p, n),
           tx' \in [Player -> GameFrames], inbox' \in [Player -> Seq(GameFrames)],
           done' = done, resigned' = resigned,
           \A z \in OnWay(p)' : z \in OnWay(p),
           \A z \in OnWay(Other(p))' : z \in OnWay(Other(p))
    PROVE  GameInv'
  <1>1. PICK q : q = Other(p)
    OBVIOUS
  <1>2. q \in Player /\ q # p /\ Other(q) = p /\ q # "none" /\ p # "none"
    BY <1>1, OtherIsOther DEF GameAssumption
  <1>3. PICK g, k : g = game[p] /\ k = game[q]
    OBVIOUS
  <1>4. /\ k \in Games /\ g \in Games /\ Own(q, k, g.hits, resigned) /\ Own(p, g, k.hits, resigned)
        /\ Joined(p) \/ Blank(g)
    BY <1>1, <1>3, OwnNow
  <1>5. /\ k.session \in {q, p, "none"}
        /\ k.session = p => g.session = p
        /\ g.session = q => k.session = q
        /\ Joined(q) \/ Blank(k)
        /\ Framed(q, k, g.hits, resigned, f)
    BY <1>1, <1>2, <1>3 DEF GameInv, FramedNow
  <1>6. f.session = q /\ k.session # "none" /\ (q = First => k.session = q)
    BY <1>5 DEF Framed
  <1>7. game' = [game EXCEPT ![p] = n] /\ done' \in [Player -> SUBSET (GameEvents \X BOOLEAN)]
        /\ resigned \subseteq resigned'
    BY DEF Play, GameInv, GameTypes
  <1>8. CASE g.st = "LOBBY" \/ (g.st = "INVITE_SENT" /\ q = First)
    <2>1. n = NewGame(q, FALSE, "INVITE_RECEIVED")
      BY <1>1, <1>3, <1>6, <1>8 DEF HearInvite
    <2>2. /\ n \in Games /\ n.session = q /\ ~n.initiator /\ Before(n) = "INVITE_RECEIVED"
          /\ n.turn = 0 /\ n.responses = {} /\ n.hits = {} /\ n.history = {} /\ n.pending = {}
          /\ \A c \in Cell : n.enemy[c] = "none"
      <3>1. PICK m : /\ m = NewGame(q, FALSE, "INVITE_RECEIVED")
                     /\ m \in Games /\ m.session = q /\ ~m.initiator /\ Before(m) = "INVITE_RECEIVED"
                     /\ m.turn = 0 /\ m.responses = {} /\ m.hits = {} /\ m.history = {} /\ m.pending = {}
                     /\ \A c \in Cell : m.enemy[c] = "none"
        BY <1>2, ReceivedTyped
      <3>2. m = n
        BY <2>1, <3>1
      <3> QED
        BY <3>1, <3>2
    <2>3. Before(g) = g.st /\ Placed(p, g, k.hits, resigned, g.st) /\ (g.initiator <=> g.session = p)
      BY <1>4, <1>8 DEF Before, Own
    <2>4. k.session = q /\ Blank(g) /\ Blank(k)
      <3>1. CASE g.st = "LOBBY"
        <4>1. g.session = "none"
          BY <2>3, <3>1 DEF Placed
        <4> QED
          BY <1>1, <1>2, <1>3, <1>4, <1>5, <1>6, <4>1 DEF Joined
      <3>2. CASE g.st = "INVITE_SENT" /\ q = First
        <4>1. g.session = p
          BY <2>3, <3>2 DEF Placed
        <4> QED
          BY <1>1, <1>2, <1>3, <1>4, <1>5, <1>6, <3>2, <4>1 DEF Joined
      <3> QED
        BY <1>8, <3>1, <3>2
    <2>5. Own(p, n, k.hits, resigned')
      <3>1. Placed(p, n, k.hits, resigned', "INVITE_RECEIVED")
        BY <1>2, <2>2 DEF Placed, Attack, Defence
      <3>2. Answered(p, n) /\ Recorded(p, n, k.hits)
        BY <2>2 DEF Answered, Recorded
      <3> QED
        BY <1>2, <2>2, <3>1, <3>2 DEF Own
    <2>6. InStep(n, k)
      BY <2>2, <2>4 DEF InStep, Blank
    <2>7. ASSUME NEW z \in OnWay(p)' PROVE Framed(p, n, k.hits, resigned', z)
      <3>1. Framed(p, g, k.hits, resigned, z)
        BY <1>1, <1>3 DEF GameInv, FramedNow
      <3>2. g.session # "none" /\ g.st = "INVITE_SENT" /\ q = First
        BY <1>8, <2>3, <3>1 DEF Framed, Placed
      <3>3. z.event.op = "INVITE" /\ z.session = p
        BY <2>3, <3>1, <3>2 DEF Framed
      <3> QED
        BY <1>2, <2>2, <3>2, <3>3 DEF Framed
    <2>8. g.hits \subseteq n.hits
      BY <2>4 DEF Blank
    <2>9. n.session \in {p, q, "none"} /\ (n.session = q => k.session = q)
          /\ (k.session = p => n.session = p) /\ n.session # "none" /\ n.session = k.session
      BY <1>2, <2>2, <2>4
    <2> QED
      BY <1>1, <1>3, <1>7, <2>5, <2>6, <2>7, <2>8, <2>9, GameStep
  <1>9. CASE ~(g.st = "LOBBY" \/ (g.st = "INVITE_SENT" /\ q = First))
    <2>1. \/ n = g
          \/ /\ g.session = q
             /\ \/ (g.ready \/ g.st \in {"PLACING", "READY_WAIT"}) /\ n = Queue(g, Event("ACCEPT"))
                \/ g.st = "DECLINED" /\ n = Queue(g, Event("DECLINE"))
      BY <1>1, <1>3, <1>6, <1>9 DEF HearInvite
    <2>2. Own(p, n, k.hits, resigned') /\ Keeps(g, n) /\ Rest(g, n) /\ (Joined(p) \/ Blank(n))
      <3>1. CASE n = g
        BY <1>4, <3>1, KeepsSelf DEF Rest
      <3>2. CASE g.session = q /\ \E o \in {"ACCEPT", "DECLINE"} : n = Queue(g, Event(o))
        <4>1. PICK o \in {"ACCEPT", "DECLINE"} : n = Queue(g, Event(o))
          BY <3>2
        <4>2. Joined(p) /\ g.session # p /\ g.session # "none"
          BY <1>1, <1>2, <1>3, <1>5, <3>2 DEF Joined
        <4>3. Own(p, n, k.hits, resigned) /\ Keeps(g, n) /\ Rest(g, n)
          BY <1>4, <4>1, <4>2, AnsweredAgain
        <4> QED
          BY <4>2, <4>3
      <3> QED
        BY <2>1, <3>1, <3>2
    <2>3. InStep(n, k)
      BY <1>1, <1>3, <2>2 DEF GameInv, Rest, InStep, Ahead
    <2> QED
      BY <1>1, <1>3, <1>7, <2>2, <2>3, GamePlays
  <1> QED
    BY <1>8, <1>9

LEMMA ReceivePlays ==
    ASSUME GameAssumption, GameInv, NEW p \in Player, Receive(p)
    PROVE  GameInv'
  <1>1. PICK q : q = Other(p)
    OBVIOUS
  <1>2. q \in Player /\ q # p /\ Other(q) = p
    BY <1>1, OtherIsOther
  <1>3. PICK f, e : f = Head(inbox[p]) /\ e = f.event
    OBVIOUS
  <1>4. /\ inbox[p] # <<>> /\ inbox' = [inbox EXCEPT ![p] = Tail(@)]
        /\ tx' = tx /\ done' = done /\ resigned' = resigned
    BY DEF Receive
  <1>5. /\ inbox \in [Player -> Seq(GameFrames)] /\ inbox[p] \in Seq(GameFrames)
        /\ tx \in [Player -> GameFrames]
    BY DEF GameInv, GameTypes
  <1>6. /\ f \in OnWay(q) /\ f \in GameFrames /\ e \in GameEvents
    <2>1. inbox[p][1] = f /\ 1 \in 1..Len(inbox[p]) /\ f \in GameFrames
      BY <1>3, <1>4, <1>5
    <2> QED
      BY <1>2, <1>3, <2>1 DEF OnWay, GameFrames
  <1>7. inbox' \in [Player -> Seq(GameFrames)] /\ tx' \in [Player -> GameFrames]
    BY <1>4, <1>5
  <1>8. \A z \in OnWay(p)' : z \in OnWay(p)
    BY <1>1, <1>2, <1>4, <1>5 DEF OnWay
  <1>9. \A z \in OnWay(q)' : z \in OnWay(q)
    <2>1. inbox'[p] = Tail(inbox[p])
      BY <1>4, <1>5
    <2>2. \A i \in 1..Len(inbox'[p]) : \E j \in 1..Len(inbox[p]) : inbox'[p][i] = inbox[p][j]
      <3>1. ASSUME NEW i \in 1..Len(inbox'[p])
            PROVE  i + 1 \in 1..Len(inbox[p]) /\ inbox'[p][i] = inbox[p][i + 1]
        BY <1>4, <1>5, <2>1
      <3> QED
        BY <3>1
    <2> QED
      BY <1>2, <1>4, <2>2 DEF OnWay
  <1>10. PICK g, k : g = game[p] /\ k = game[q]
    OBVIOUS
  <1>11. /\ k \in Games /\ g \in Games /\ Own(q, k, g.hits, resigned) /\ Own(p, g, k.hits, resigned)
         /\ Joined(p) \/ Blank(g)
    BY <1>1, <1>10, OwnNow
  <1>12. /\ g.session \in {p, q, "none"} /\ InStep(g, k) /\ Framed(q, k, g.hits, resigned, f)
    BY <1>1, <1>2, <1>6, <1>10 DEF GameInv, FramedNow
  <1>13. done' \in [Player -> SUBSET (GameEvents \X BOOLEAN)]
    BY <1>4 DEF GameInv, GameTypes
  <1>14. CASE e.op = "INVITE"
    <2>1. PICK n : n = HearInvite(p, f.session)
      OBVIOUS
    <2>2. Play(p, n)
      BY <1>3, <1>14, <2>1 DEF Receive
    <2> QED
      BY <1>1, <1>3, <1>4, <1>6, <1>7, <1>8, <1>9, <1>14, <2>1, <2>2, InvitationHeard
  <1>15. CASE e.op # "INVITE"
    <2>1. PICK n : n = IF f.session # g.session \/ g.st \in {"LOBBY", "PAUSED"} THEN g
                       ELSE IF Heard(g, e) # {} THEN Again(g, e) ELSE New(p, g, e)
      OBVIOUS
    <2>2. game' = [game EXCEPT ![p] = n]
      BY <1>3, <1>10, <1>15, <2>1 DEF Receive, Play
    <2>3. Own(p, n, k.hits, resigned) /\ Keeps(g, n) /\ InStep(n, k) /\ (Joined(p) \/ Blank(n))
      <3>1. CASE f.session # g.session \/ g.st \in {"LOBBY", "PAUSED"}
        BY <1>11, <1>12, <2>1, <3>1, KeepsSelf
      <3>2. CASE ~(f.session # g.session \/ g.st \in {"LOBBY", "PAUSED"})
        <4>1. /\ f.session = k.session /\ k.session # "none"
              /\ Says(q, k, g.hits, resigned, e)
          BY <1>3, <1>12, <1>15 DEF Framed
        <4>2. g.session = k.session /\ g.session # "none" /\ Joined(p)
          BY <1>1, <1>10, <3>2, <4>1 DEF Joined
        <4>3. CASE Heard(g, e) # {}
          <5>1. n = Again(g, e)
            BY <2>1, <3>2, <4>3
          <5>2. Own(p, n, k.hits, resigned) /\ Keeps(g, n) /\ Rest(g, n)
            BY <1>6, <1>11, <3>2, <4>2, <4>3, <5>1, AgainWell
          <5> QED
            BY <1>12, <4>2, <5>2 DEF Rest, InStep, Ahead
        <4>4. CASE Heard(g, e) = {}
          <5>1. Hears(p, g, k, resigned, e)
            BY <1>1, <1>6, <1>11, <1>12, <3>2, <4>1, <4>2, <4>4 DEF Hears
          <5>2. n = New(p, g, e)
            BY <2>1, <3>2, <4>4
          <5>3. Better(p, g, n, k, resigned)
            BY <5>1, <5>2, NewWell
          <5> QED
            BY <4>2, <5>3 DEF Better
        <4> QED
          BY <4>3, <4>4
      <3> QED
        BY <3>1, <3>2
    <2>4. resigned \subseteq resigned' /\ Own(p, n, k.hits, resigned')
      BY <1>4, <2>3
    <2> QED
      BY <1>1, <1>7, <1>8, <1>9, <1>10, <1>13, <2>2, <2>3, <2>4, GamePlays
  <1> QED
    BY <1>14, <1>15

LEMMA GameGoesOn == ASSUME GameAssumption, GameInv, [Next]_vars PROVE GameInv'
  <1>1. CASE UNCHANGED vars
    <2>1. /\ game' = game /\ tx' = tx /\ done' = done /\ inbox' = inbox /\ resigned' = resigned
      BY <1>1 DEF vars
    <2> QED
      BY <2>1 DEF GameInv, GameTypes, Joined, FramedNow, OnWay
  <1>2. ASSUME NEW p \in Player,
               \/ Invite(p) \/ Answer(p) \/ Ready(p) \/ Fire(p) \/ End(p) \/ Resume(p)
               \/ Transmit(p) \/ Expire(p) \/ Sent(p) \/ TxDone(p) \/ Receive(p)
        PROVE  GameInv'
    BY <1>2, InvitePlays, AnswerPlays, ReadyPlays, FirePlays, EndPlays, ResumePlays,
       TransmitPlays, ExpirePlays, SentPlays, TxDonePlays, ReceivePlays
  <1> QED
    BY <1>1, <1>2 DEF Next

LEMMA GameBegins == ASSUME GameAssumption, Init PROVE GameInv
  <1>1. PICK g : g = NewGame("none", FALSE, "LOBBY")
    OBVIOUS
  <1>2. /\ g \in Games /\ g.session = "none" /\ g.initiator = FALSE /\ g.st = "LOBBY"
        /\ Before(g) = "LOBBY"
        /\ g.turn = 0 /\ g.responses = {} /\ g.hits = {} /\ g.history = {} /\ g.pending = {}
        /\ \A c \in Cell : g.enemy[c] = "none"
    <2>1. "LOBBY" \in GameStates
      BY DEF GameStates, Opening
    <2>2. PICK i \in BOOLEAN : i = FALSE
      OBVIOUS
    <2>3. g = NewGame("none", i, "LOBBY")
      BY <1>1, <2>2
    <2> QED
      BY <2>1, <2>2, <2>3, NewGameTyped
  <1>3. \A p \in Player : game[p] = g /\ tx[p] = NoFrame /\ inbox[p] = <<>>
    BY <1>1 DEF Init
  <1>4. NoFrame \in GameFrames
    BY DEF NoFrame, NoEvent, GameFrames, GameEvents, GameOps, NoTurn
  <1>5. GameTypes
    <2>1. game \in [Player -> Games]
      BY <1>1, <1>2 DEF Init
    <2>2. tx \in [Player -> GameFrames] /\ inbox \in [Player -> Seq(GameFrames)]
      BY <1>4 DEF Init
    <2>3. done \in [Player -> SUBSET (GameEvents \X BOOLEAN)]
      BY DEF Init
    <2> QED
      BY <2>1, <2>2, <2>3 DEF GameTypes
  <1>6. ASSUME NEW p \in Player
        PROVE  /\ Own(p, game[p], game[Other(p)].hits, resigned)
               /\ Joined(p) \/ Blank(game[p])
               /\ game[p].session \in {p, Other(p), "none"}
               /\ game[p].session = Other(p) => game[Other(p)].session = Other(p)
               /\ InStep(game[p], game[Other(p)])
               /\ \A f \in OnWay(p) : FramedNow(p, f)
    <2>1. Other(p) \in Player /\ game[p] = g /\ game[Other(p)] = g /\ p # "none" /\ Other(p) # "none"
      BY <1>3, OtherIsOther DEF GameAssumption
    <2>2. Own(p, g, {}, resigned)
      <3>1. Placed(p, g, {}, resigned, "LOBBY")
        BY <1>2 DEF Placed, Attack, Defence
      <3>2. Answered(p, g) /\ Recorded(p, g, {})
        BY <1>2 DEF Answered, Recorded
      <3> QED
        BY <1>2, <2>1, <3>1, <3>2 DEF Own
    <2>3. Blank(g) /\ InStep(g, g)
      BY <1>2 DEF Blank, InStep
    <2>4. OnWay(p) = {}
      BY <1>3, <2>1 DEF OnWay
    <2> QED
      BY <1>2, <2>1, <2>2, <2>3, <2>4
  <1> QED
    BY <1>5, <1>6 DEF GameInv

LEMMA GameIsFair == ASSUME GameAssumption, GameInv PROVE TurnsAgree /\ VerdictsAreTrue
  <1>1. TurnsAgree
    <2>1. SUFFICES ASSUME \A p \in Player : game[p].session = game[Other(p)].session,
                          \A p \in Player : Attacking(p)
                   PROVE  FALSE
      BY DEF TurnsAgree
    <2>2. PICK p \in Player : TRUE
      BY DEF GameAssumption
    <2>3. PICK g, k : g = game[p] /\ k = game[Other(p)]
      OBVIOUS
    <2>4. /\ g \in Games /\ k \in Games /\ Own(p, g, k.hits, resigned)
          /\ Own(Other(p), k, g.hits, resigned)
      BY <2>3, OwnNow
    <2>5. Other(p) \in Player /\ Before(g) \in Attack /\ Before(k) \in Attack /\ g.session = k.session
      BY <2>1, <2>3, OtherIsOther DEF Attacking, Attack, Shooting
    <2>6. OnTurn(g) /\ OnTurn(k) /\ g.session # "none"
      BY <2>4, <2>5 DEF Own, Placed, Attack
    <2>7. g.session \in {p, Other(p)} /\ InStep(g, k)
      BY <2>3, <2>6 DEF GameInv
    <2>8. g.initiator <=> ~k.initiator
      BY <2>4, <2>5, <2>7, OneInitiates
    <2>9. g.turn \in Nat /\ k.turn \in Nat
      BY <2>4 DEF Games
    <2>10. g.turn # k.turn
      BY <2>6, <2>8 DEF OnTurn
    <2>11. CASE Ahead(g, k)
      BY <2>6, <2>8, <2>9, <2>11, Parity DEF Ahead, OnTurn
    <2>12. CASE Ahead(k, g)
      BY <2>6, <2>8, <2>9, <2>12, Parity DEF Ahead, OnTurn
    <2> QED
      BY <2>7, <2>10, <2>11, <2>12 DEF InStep
  <1>2. VerdictsAreTrue
    <2>1. SUFFICES ASSUME NEW p \in Player
                   PROVE  LET g == game[p]
                              h == game[Other(p)]
                          IN /\ g.st = "WON" => Other(p) \in resigned \/ UNION Fleet[Other(p)] \subseteq h.hits
                             /\ g.st = "LOST" => p \in resigned \/ UNION Fleet[p] \subseteq g.hits
                             /\ \A c \in Cell : g.enemy[c] # "none" =>
                                  c \in h.hits /\ (g.enemy[c] = "MISS" <=> c \notin UNION Fleet[Other(p)])
      BY DEF VerdictsAreTrue
    <2>2. Own(p, game[p], game[Other(p)].hits, resigned)
      BY OwnNow
    <2>3. Recorded(p, game[p], game[Other(p)].hits)
          /\ Placed(p, game[p], game[Other(p)].hits, resigned, Before(game[p]))
      BY <2>2 DEF Own
    <2>4. game[p].st \in {"WON", "LOST"} => Before(game[p]) = game[p].st
      BY DEF Before
    <2> QED
      BY <2>3, <2>4 DEF Placed, Recorded, Sunken
  <1> QED
    BY <1>1, <1>2

\* The stations never both think it is their turn (model.py, receive), a player
\* who sees WON has hit the whole fleet of the other or that one has resigned, and
\* what one believes of the other's board is so: in any game, whatever is lost,
\* late, repeated or answered before its transmission was reported.
THEOREM GamesAreFair ==
    ASSUME GameAssumption
    PROVE  Spec => [](TurnsAgree /\ VerdictsAreTrue)
  <1>1. Init => GameInv
    BY GameBegins
  <1>2. GameInv /\ [Next]_vars => GameInv'
    BY GameGoesOn
  <1>3. GameInv => TurnsAgree /\ VerdictsAreTrue
    BY GameIsFair
  <1> QED
    BY <1>1, <1>2, <1>3, PTL DEF Spec
=============================================================================
