------------------------------ MODULE Warships ------------------------------
(***************************************************************************)
(* The game of battleships two stations play over their control channel    *)
(* (warships/model.py, and the queue of warships/service.py): an exchange  *)
(* of numbered turns in which every frame may be lost, repeated or overtake *)
(* the report that it was sent.  What an event is answered with depends on *)
(* what was sent before, so that a repetition gets the same answer.        *)
(*                                                                         *)
(* One invitation per station is followed; the answer BUSY to a third one, *)
(* by an object of its own, is left out, and so is the change of frequency, *)
(* which pauses a game as a failed transmission does.                      *)
(***************************************************************************)
EXTENDS Naturals, Sequences, FiniteSets

CONSTANTS Player, First,  \* two stations; First has the smaller callsign
          Cell, Fleet,    \* the board, and the ships of each station on it
          MaxAttempts,    \* 3 in the code
          MaxFaults       \* bound: frames lost or not transmitted, invitations
                          \* that expire, ends and resumptions

GameAssumption ==
    /\ \E a, b \in Player : a # b /\ Player = {a, b}
    /\ "none" \notin Player /\ MaxAttempts \in Nat
    /\ \A p \in Player : Fleet[p] \subseteq SUBSET Cell

VARIABLES
    game,      \* the Game of each station
    tx,        \* the frame its transmitter has, or NoFrame
    done,      \* transmissions completed and not yet reported
    inbox,     \* frames heard and not yet handled
    faults,
    resigned   \* history: players that did so

vars == <<game, tx, done, inbox, faults, resigned>>

Other(p) == CHOOSE q \in Player : q # p
NoTurn == 255
NoEvent == [op |-> "NONE", turn |-> NoTurn, at |-> {}, of |-> "NONE"]
NoFrame == [session |-> "none", event |-> NoEvent]
Event(op) == [NoEvent EXCEPT !.op = op]
Shot(turn, c) == [Event("SHOT") EXCEPT !.turn = turn, !.at = {c}]
Ack(e) == [Event("ACK") EXCEPT !.turn = e.turn, !.of = e.op]
Results == {"MISS", "HIT", "SUNK", "LOSS"}
Ackable == Results \cup {"ACCEPT", "DECLINE", "READY", "RESIGN", "CANCEL"}
Ended == {"WON", "LOST", "CANCELLED", "DECLINED"}

NewGame(session, initiator, state) ==
    [st |-> state, was |-> "none", session |-> session, initiator |-> initiator,
     pending |-> {}, queued |-> {}, sent |-> {}, turn |-> 0, target |-> {},
     enemy |-> [c \in Cell |-> "none"], sunk |-> {}, hits |-> {},
     ready |-> FALSE, peerReady |-> FALSE, readyAck |-> FALSE,
     history |-> {}, responses |-> {}]

Init ==
    /\ game = [p \in Player |-> NewGame("none", FALSE, "LOBBY")]
    /\ tx = [p \in Player |-> NoFrame] /\ done = [p \in Player |-> {}]
    /\ inbox = [p \in Player |-> <<>>] /\ faults = 0
    /\ resigned = {}

\* An event that was sent before keeps the count of its attempts.
Attempts(g, e) == IF \E n \in 1..MaxAttempts : <<e, n>> \in g.sent
                  THEN CHOOSE n \in 1..MaxAttempts : <<e, n>> \in g.sent ELSE 0
Queue(g, e) == [g EXCEPT !.pending = @ \cup {e}]
Forget(g, op, turn) ==
    [g EXCEPT !.pending = {e \in @ : ~(e.op = op /\ e.turn = turn)}]
Pause(g) == IF g.st = "PAUSED" THEN g ELSE [g EXCEPT !.st = "PAUSED", !.was = g.st]
Started(g) ==
    IF g.ready /\ g.peerReady /\ g.readyAck /\ g.st \in {"PLACING", "READY_WAIT"}
    THEN [g EXCEPT !.st = IF g.initiator THEN "MY_TURN" ELSE "PEER_TURN"]
    ELSE g

Play(p, g) == game' = [game EXCEPT ![p] = g]
OnAir == UNCHANGED <<tx, done, inbox, faults>>
Late == faults < MaxFaults /\ faults' = faults + 1
Disturb == Late /\ UNCHANGED <<tx, done, inbox>>

----------------------------------------------------------------------------
(* The player                                                              *)

Invite(p) ==
    /\ game[p].st = "LOBBY"
    /\ Play(p, Queue(NewGame(p, TRUE, "INVITE_SENT"), Event("INVITE")))
    /\ OnAir /\ UNCHANGED resigned

Answer(p) ==
    /\ game[p].st = "INVITE_RECEIVED"
    /\ \/ Play(p, Queue([game[p] EXCEPT !.st = "PLACING"], Event("ACCEPT")))
       \/ Play(p, Queue([game[p] EXCEPT !.st = "DECLINED"], Event("DECLINE")))
    /\ OnAir /\ UNCHANGED resigned

Ready(p) ==
    /\ game[p].st = "PLACING"
    /\ Play(p, Started(Queue([game[p] EXCEPT !.ready = TRUE, !.st = "READY_WAIT"],
                             Event("READY"))))
    /\ OnAir /\ UNCHANGED resigned

Fire(p) ==
    /\ game[p].st = "MY_TURN"
    /\ \E c \in Cell :
         /\ game[p].enemy[c] = "none"
         /\ Play(p, Queue([game[p] EXCEPT !.target = {c}, !.st = "SHOT_QUEUED"],
                          Shot(game[p].turn, c)))
    /\ OnAir /\ UNCHANGED resigned

\* Also from a pause.
End(p) ==
    /\ game[p].st \notin Ended \cup {"LOBBY"}
    /\ \E op \in {"RESIGN", "CANCEL"} :
         /\ Play(p, Queue([game[p] EXCEPT !.pending = {}, !.st = "ENDING"], Event(op)))
         /\ resigned' = IF op = "RESIGN" THEN resigned \cup {p} ELSE resigned
    /\ Disturb

Resume(p) ==
    /\ game[p].st = "PAUSED"
    /\ Play(p, [game[p] EXCEPT !.st = game[p].was, !.sent = {}])
    /\ Disturb /\ UNCHANGED resigned

----------------------------------------------------------------------------
(* The transmitter                                                         *)

\* Frames take seconds, handling them does not: what is late is a disturbance.
Calm == \A q \in Player : inbox[q] = <<>> /\ done[q] = {}
\* So is an answer that outlasts the time allowed for it.
InTime(p, n) ==
    LET g == game[Other(p)] IN
    /\ Calm
    /\ n > 0 /\ g.st # "PAUSED" => \A e \in g.pending : Attempts(g, e) > 0

\* tick: one frame at a time, while the channel is free, after the report of
\* the frame before and only so many attempts.
Transmit(p) ==
    LET g == game[p] IN
    /\ tx = [q \in Player |-> NoFrame] /\ done[p] = {} /\ inbox[p] = <<>>
    /\ g.st # "PAUSED"
    /\ \E e \in g.pending \ g.queued :
         LET n == Attempts(g, e) IN
         /\ IF InTime(p, n) THEN UNCHANGED faults ELSE Late
         /\ IF n < MaxAttempts THEN
              /\ tx' = [tx EXCEPT ![p] = [session |-> g.session, event |-> e]]
              /\ Play(p, [g EXCEPT !.queued = @ \cup {e},
                                   !.sent = (@ \ {<<e, n>>}) \cup {<<e, n + 1>>}])
            ELSE
              /\ UNCHANGED tx
              /\ Play(p, IF e.op = "INVITE"
                         THEN [g EXCEPT !.pending = {}, !.st = "DECLINED"] ELSE Pause(g))
    /\ UNCHANGED <<done, inbox, resigned>>

\* An invitation expires.
Expire(p) ==
    /\ game[p].st \in {"INVITE_SENT", "INVITE_RECEIVED"}
    /\ Play(p, [game[p] EXCEPT !.pending = {}, !.st = "DECLINED"])
    /\ Disturb /\ UNCHANGED resigned

\* The frame leaves the radio and is heard or not, or it does not leave.  It is
\* on the air for longer than the one before takes to be handled.
Sent(p) ==
    /\ tx[p] # NoFrame /\ inbox[Other(p)] = <<>> /\ tx' = [tx EXCEPT ![p] = NoFrame]
    /\ \/ /\ done' = [done EXCEPT ![p] = @ \cup {<<tx[p].event, TRUE>>}]
          /\ inbox' = [inbox EXCEPT ![Other(p)] = Append(@, tx[p])]
          /\ UNCHANGED faults
       \/ /\ \E ok \in BOOLEAN :
               done' = [done EXCEPT ![p] = @ \cup {<<tx[p].event, ok>>}]
          /\ faults < MaxFaults /\ faults' = faults + 1 /\ UNCHANGED inbox
    /\ UNCHANGED <<game, resigned>>

\* tx_done: unless an early answer has completed the exchange.
Reported(g, e, ok) ==
    IF e \notin g.pending THEN g
    ELSE LET h == [g EXCEPT !.queued = @ \ {e}] IN
         IF ~ok THEN Pause(h)
         ELSE IF e.op = "ACK" THEN
              [h EXCEPT !.pending = @ \ {e},
                        !.st = IF e.of \in Results /\ @ = "ACK_QUEUED"
                               THEN IF e.of = "LOSS" THEN "WON" ELSE "PEER_TURN"
                               ELSE @]
         ELSE IF e.op = "SHOT" /\ h.st = "SHOT_QUEUED" THEN [h EXCEPT !.st = "WAIT_RESULT"]
         ELSE h

TxDone(p) ==
    /\ \E d \in done[p] :
         /\ done' = [done EXCEPT ![p] = @ \ {d}]
         /\ Play(p, Reported(game[p], d[1], d[2]))
    /\ UNCHANGED <<tx, inbox, faults, resigned>>

----------------------------------------------------------------------------
(* The frames of the other player                                          *)

HearInvite(p, session) ==
    LET g == game[p] IN
    IF g.st = "LOBBY" \/ (g.st = "INVITE_SENT" /\ Other(p) = First)
    THEN NewGame(session, FALSE, "INVITE_RECEIVED")
    ELSE IF g.session # session THEN g
    ELSE IF g.ready \/ g.st \in {"PLACING", "READY_WAIT"} THEN Queue(g, Event("ACCEPT"))
    ELSE IF g.st = "DECLINED" THEN Queue(g, Event("DECLINE"))
    ELSE g

Heard(g, e) ==
    {h \in g.history : h.op = e.op /\ h.turn = e.turn /\ (e.op = "ACK" => h.of = e.of)}
ResponseTo(g, e) == CHOOSE r \in g.responses : r.turn = e.turn

\* A repetition is answered as the first time.
Again(g, e) ==
    IF e \notin g.history THEN Pause(g)
    ELSE IF e.op \in Ackable THEN Queue(g, Ack(e))
    ELSE IF e.op = "SHOT" THEN Queue(g, ResponseTo(g, e))
    ELSE Forget(g, e.of, e.turn)

\* Board.shoot
Shoot(p, hits, e) ==
    LET c == CHOOSE x \in e.at : TRUE
        struck == {ship \in Fleet[p] : c \in ship}
        Result(op, at) == [e EXCEPT !.op = op, !.at = at]
    IN IF struck = {} THEN Result("MISS", e.at)
       ELSE LET ship == CHOOSE s \in struck : TRUE IN
            IF ~(ship \subseteq hits) THEN Result("HIT", e.at)
            ELSE Result(IF UNION Fleet[p] \subseteq hits THEN "LOSS" ELSE "SUNK", ship)

\* The reports of a shot fit the shots before, and the lengths of the ships that
\* are left (those of both fleets are the same); LOSS is said of the last ship.
OfLength(ships, n) == {ship \in ships : Cardinality(ship) = n}
Valid(p, g, e) ==
    IF e.op \in {"MISS", "HIT"} THEN e.at = g.target
    ELSE /\ g.target \subseteq e.at
         /\ \A c \in e.at \ g.target : g.enemy[c] = "HIT"
         /\ \A ship \in g.sunk : ship \cap e.at = {}
         /\ LET n == Cardinality(e.at) IN
            Cardinality(OfLength(g.sunk, n)) < Cardinality(OfLength(Fleet[p], n))
         /\ e.op = "LOSS" <=> Cardinality(g.sunk) = Cardinality(Fleet[p]) - 1

\* An early shot proves that READY, or the ACK of a result, has arrived.
Arriving(g, e) ==
    IF e.op # "SHOT" THEN g
    ELSE IF g.st = "READY_WAIT" /\ ~g.initiator /\ g.ready /\ g.peerReady
         THEN Started(Forget([g EXCEPT !.readyAck = TRUE], "READY", NoTurn))
    ELSE IF g.st = "ACK_QUEUED" /\ e.turn = g.turn THEN [g EXCEPT !.st = "PEER_TURN"]
    ELSE g

Shooting == {"SHOT_QUEUED", "WAIT_RESULT"}
Expected(g, e) ==
    \/ e.op \in {"ACCEPT", "DECLINE"} /\ g.st = "INVITE_SENT"
    \/ e.op = "READY" /\ g.st \in {"PLACING", "READY_WAIT"}
    \/ e.op = "ACK" /\ \E x \in g.pending : x.op = e.of /\ x.turn = e.turn
    \/ e.op = "SHOT" /\ g.st = "PEER_TURN" /\ e.turn = g.turn /\ e.at \cap g.hits = {}
    \/ e.op \in Results /\ g.st \in Shooting /\ e.turn = g.turn
    \/ e.op \in {"RESIGN", "CANCEL"} /\ g.st \notin Ended

\* Mutant: the player who was shot at does not wait for the ACK.
ToldAndDone(p, g, e) ==
    LET hits == g.hits \cup e.at
        r == Shoot(p, hits, e)
    IN Queue([g EXCEPT !.hits = hits, !.responses = @ \cup {r}, !.turn = @ + 1,
                       !.st = IF r.op = "LOSS" THEN "LOST" ELSE "MY_TURN"], r)
ShotAt(p, g, e) ==
    LET hits == g.hits \cup e.at
        r == Shoot(p, hits, e)
    IN Queue([g EXCEPT !.hits = hits, !.responses = @ \cup {r},
                       !.st = "WAIT_RESULT_ACK"], r)

AckOf(g, e) ==
    LET f == Forget(g, e.of, e.turn) IN
    IF e.of = "READY" THEN Started([f EXCEPT !.readyAck = TRUE])
    ELSE IF e.of \in Results /\ g.st = "WAIT_RESULT_ACK"
         THEN [f EXCEPT !.turn = @ + 1, !.st = IF e.of = "LOSS" THEN "LOST" ELSE "MY_TURN"]
    ELSE IF e.of = "RESIGN" THEN [f EXCEPT !.st = "LOST"]
    ELSE IF e.of = "CANCEL" THEN [f EXCEPT !.st = "CANCELLED"]
    ELSE f

ResultOf(g, e) ==
    [Forget(g, "SHOT", g.turn) EXCEPT
        !.enemy = [c \in Cell |-> IF c \in g.target THEN e.op ELSE @[c]],
        !.sunk = IF e.op \in {"SUNK", "LOSS"} THEN @ \cup {e.at} ELSE @,
        !.turn = @ + 1, !.st = "ACK_QUEUED"]

\* What an expected event does.
Outcome(p, g, e) ==
    CASE e.op = "ACCEPT" -> [Forget(g, "INVITE", NoTurn) EXCEPT !.st = "PLACING"]
      [] e.op = "DECLINE" -> [Forget(g, "INVITE", NoTurn) EXCEPT !.st = "DECLINED"]
      [] e.op = "READY" -> Started([g EXCEPT !.peerReady = TRUE])
      [] e.op = "ACK" -> AckOf(g, e)
      [] e.op = "SHOT" -> ShotAt(p, g, e)
      [] e.op \in Results -> ResultOf(g, e)
      [] e.op = "RESIGN" -> [g EXCEPT !.pending = {}, !.st = "WON"]
      [] e.op = "CANCEL" -> [g EXCEPT !.pending = {}, !.st = "CANCELLED"]

New(p, g, e) ==
    LET h == Arriving(g, e)
        k == [Outcome(p, h, e) EXCEPT !.history = @ \cup {e}]
    IN IF ~Expected(h, e) THEN h
       ELSE IF e.op \in Results /\ ~Valid(p, h, e) THEN Pause(h)
       ELSE IF e.op \in Ackable THEN Queue(k, Ack(e)) ELSE k

\* receive: nothing is heard in a pause, not even a repetition.
Receive(p) ==
    /\ inbox[p] # <<>> /\ inbox' = [inbox EXCEPT ![p] = Tail(@)]
    /\ LET g == game[p]
           session == Head(inbox[p]).session
           e == Head(inbox[p]).event
       IN Play(p, IF e.op = "INVITE" THEN HearInvite(p, session)
                  ELSE IF session # g.session \/ g.st \in {"LOBBY", "PAUSED"} THEN g
                  ELSE IF Heard(g, e) # {} THEN Again(g, e) ELSE New(p, g, e))
    /\ IF done[p] = {} THEN UNCHANGED faults ELSE Late
    /\ UNCHANGED <<tx, done, resigned>>

Next == \E p \in Player :
    \/ Invite(p) \/ Answer(p) \/ Ready(p) \/ Fire(p) \/ End(p) \/ Resume(p)
    \/ Transmit(p) \/ Expire(p) \/ Sent(p) \/ TxDone(p) \/ Receive(p)

Spec == Init /\ [][Next]_vars

----------------------------------------------------------------------------
(* What the game promises                                                  *)

\* The stations never both think it is their turn, whatever is lost, repeated
\* or answered before its transmission was reported (model.py, receive).
Before(g) == IF g.st = "PAUSED" THEN g.was ELSE g.st
Attacking(p) == Before(game[p]) \in {"MY_TURN"} \cup Shooting
TurnsAgree ==
    (\A p \in Player : game[p].session = game[Other(p)].session)
        => ~ \A p \in Player : Attacking(p)

\* A player who sees WON has hit the whole fleet of the other, or that one
\* has resigned; and what one believes of the other's board is so.
VerdictsAreTrue ==
    \A p \in Player :
        LET g == game[p]
            h == game[Other(p)]
        IN /\ g.st = "WON" => Other(p) \in resigned \/ UNION Fleet[Other(p)] \subseteq h.hits
           /\ g.st = "LOST" => p \in resigned \/ UNION Fleet[p] \subseteq g.hits
           /\ \A c \in Cell : g.enemy[c] # "none" =>
                c \in h.hits /\ (g.enemy[c] = "MISS" <=> c \notin UNION Fleet[Other(p)])
=============================================================================
