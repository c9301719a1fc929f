-------------------------- MODULE ServerPathProofs --------------------------
(***************************************************************************)
(* Proofs about ServerPath for every bound.  The inductive invariant is     *)
(* Good(Now, server, torn): when the server has the message, the mailbox    *)
(* says that it may, or the station has waited for its answer in vain.  It  *)
(* is shown of every stage a tick is composed of.                          *)
(***************************************************************************)
EXTENDS ServerPath, TLAPS

Path == Held \cup Final \cup {"none", "rejected", "rf_fallback", "not_accepted"}
Disk == [path : Path, keyed : BOOLEAN, due : BOOLEAN, receipt : BOOLEAN,
         mail : {"waiting", "sent", "failed"}]
Run == [enabled : BOOLEAN, active : BOOLEAN, preparing : BOOLEAN, session : BOOLEAN,
        job : {"idle", "send", "leave", "poll"},
        at : {"none", "offer", "put", "ask", "answer", "publish", "status"},
        over : {"none", "ok", "error", "left"}, queue : BOOLEAN, ticked : BOOLEAN]
State == [disk : Disk, run : Run, overdue : BOOLEAN, rested : BOOLEAN, tried : BOOLEAN,
          gaveUp : BOOLEAN]

\* What the mailbox may say of a message the server has.
Told == {"uploading", "unknown", "accepted", "delivered"}
HasIt(srv) == srv \in {"accepted", "delivered"}

Good(s, srv, t) ==
    /\ s \in State
    /\ HasIt(srv) /\ s.disk.path \notin Told => s.gaveUp \/ t
    /\ s.disk.path = "delivered" => s.disk.mail = "sent" \/ t \/ s.run.at = "status"
    /\ s.run.at # "none" => s.run.active /\ s.run.over = "none"
    /\ s.run.over # "none" => s.run.active
    /\ s.run.at = "put" => s.disk.path = "uploading"

PathInv ==
    /\ server \in {"none", "accepted"} \cup Final
    /\ disk \in Disk /\ run \in Run /\ overdue \in BOOLEAN /\ rested \in BOOLEAN
    /\ tried \in BOOLEAN /\ gaveUp \in BOOLEAN
    /\ HasIt(server) /\ disk.path \notin Told => gaveUp \/ torn
    /\ disk.path = "delivered" => disk.mail = "sent" \/ torn \/ run.at = "status"
    /\ run.at # "none" => run.active /\ run.over = "none"
    /\ run.over # "none" => run.active
    /\ run.at = "put" => disk.path = "uploading"

\* A stage that opens the second way does so rightly; having waited in vain is
\* not forgotten, and nothing is delivered in a stage.
Stage(s, u) ==
    /\ u.run.session /\ ~s.run.session
         => ~HasIt(server) \/ u.gaveUp \/ torn \/ s.disk.path = "delivered"
    /\ s.gaveUp => u.gaveUp
    /\ u.disk.path = "delivered" => s.disk.path = "delivered"

LEMMA StagesCompose ==
    ASSUME NEW s, NEW t, NEW u, Stage(s, t), Stage(t, u) PROVE Stage(s, u)
  BY DEF Stage

LEMMA NowIsGood ==
    ASSUME PathInv PROVE Good(Now, server, torn) /\ Now.disk = disk /\ Now.run = run
  <1>1. Now \in State
    BY DEF PathInv, Now, State
  <1>2. Now.disk = disk /\ Now.run = run /\ Now.gaveUp = gaveUp
    BY DEF Now
  <1>3. QED  BY <1>1, <1>2 DEF PathInv, Good

\* A state that was assigned is the next one.
LEMMA BecomesIs ==
    ASSUME PathInv, NEW s, Good(s, server, torn), Becomes(s), UNCHANGED <<server, torn>>
    PROVE  PathInv' /\ run' = s.run /\ gaveUp' = s.gaveUp
  <1>1. /\ s.disk \in Disk /\ s.run \in Run /\ s.overdue \in BOOLEAN
        /\ s.rested \in BOOLEAN /\ s.tried \in BOOLEAN /\ s.gaveUp \in BOOLEAN
    BY DEF Good, State
  <1>2. /\ disk' = s.disk /\ run' = s.run /\ overdue' = s.overdue
        /\ rested' = s.rested /\ tried' = s.tried /\ gaveUp' = s.gaveUp
    BY DEF Becomes
  <1>3. PathInv'
    BY <1>1, <1>2 DEF PathInv, Good
  <1>4. QED  BY <1>2, <1>3

LEMMA ByRadioGood ==
    ASSUME NEW s, Good(s, server, torn)
    PROVE  /\ Good(ByRadio(s), server, torn)
           /\ Stage(s, ByRadio(s))
  <1>1. CASE ByRadio(s) = s
    BY <1>1 DEF Stage
  <1> DEFINE u == [s EXCEPT !.run.session = TRUE, !.tried = TRUE]
  <1>2. CASE MayRadio(s) /\ ByRadio(s) = u
    <2>0. s \in State
      BY DEF Good
    <2>1. /\ u \in State /\ u.disk = s.disk /\ u.gaveUp = s.gaveUp
          /\ u.run.at = s.run.at /\ u.run.over = s.run.over
          /\ u.run.active = s.run.active
      BY <2>0 DEF State, Run
    <2> HIDE DEF u
    <2>2. Good(u, server, torn)
      BY <2>1 DEF Good
    <2>3. s.disk.path \notin Told \/ s.disk.path = "delivered"
      BY <1>2 DEF MayRadio, Told, Held
    <2>4. QED  BY <1>2, <2>1, <2>2, <2>3 DEF Stage, Good
  <1>3. QED  BY <1>1, <1>2 DEF ByRadio

\* Refused, abandoned or given up: only the last opens the way to the radio.
LEMMA SendGood ==
    ASSUME NEW s, Good(s, server, torn), NEW leave \in BOOLEAN
    PROVE  /\ Good(Send(s, leave), server, torn)
           /\ Stage(s, Send(s, leave))
           /\ Verdict(s, leave) = "server" => Good(ToServer(s, leave), server, torn)
  <1> DEFINE u == ToServer(s, leave)
  <1>1. ASSUME Verdict(s, leave) = "server"
        PROVE  Good(u, server, torn) /\ Stage(s, u)
    <2>1. /\ ~s.run.active /\ s.disk.mail # "sent"
          /\ s.disk.path \notin Held \ {"checking"}
      BY <1>1 DEF Verdict
    <2>0. s \in State
      BY DEF Good
    <2>2. /\ u \in State /\ u.gaveUp = s.gaveUp /\ u.disk.mail = s.disk.mail
          /\ u.run.at = "offer" /\ u.run.active /\ u.run.over = s.run.over
          /\ (u.run.session <=> s.run.session)
          /\ u.disk.path \in {s.disk.path, "checking"}
      <3> DEFINE v(p, o, j) == [s EXCEPT !.disk.path = p, !.overdue = o,
                                 !.run.preparing = TRUE, !.run.active = TRUE,
                                 !.run.job = j, !.run.at = "offer"]
      <3>1. \E p \in {s.disk.path, "checking"} \cap Path, o \in BOOLEAN,
               j \in {"send", "leave"} : u = v(p, o, j)
        <4>1. s.disk.path \in Path /\ s.disk \in Disk /\ s.run \in Run
          BY <2>0 DEF State, Disk
        <4>2. u = v(IF kind = "relay" THEN "checking" ELSE s.disk.path,
                    IF kind = "relay" /\ s.disk.path # "checking" THEN FALSE
                    ELSE s.overdue,
                    IF leave THEN "leave" ELSE "send")
          BY <2>0, <4>1 DEF ToServer, State, Run, Disk
        <4>3. (IF kind = "relay" /\ s.disk.path # "checking" THEN FALSE
               ELSE s.overdue) \in BOOLEAN
          BY <2>0 DEF State
        <4>4. "checking" \in Path
          BY DEF Path, Held
        <4> HIDE DEF u, v
        <4>5. QED  BY <4>1, <4>2, <4>3, <4>4
      <3>2. ASSUME NEW p \in Path, NEW o \in BOOLEAN,
                   NEW j \in {"send", "leave"}, NEW w, w = v(p, o, j)
            PROVE  /\ w \in State /\ w.gaveUp = s.gaveUp /\ w.disk.mail = s.disk.mail
                   /\ w.run.at = "offer" /\ w.run.active /\ w.run.over = s.run.over
                   /\ (w.run.session <=> s.run.session)
                   /\ w.disk.path = p
        <4>1. s.disk \in Disk /\ s.run \in Run
          BY <2>0 DEF State
        <4>2. /\ w.disk = [s.disk EXCEPT !.path = p]
              /\ w.run = [s.run EXCEPT !.preparing = TRUE, !.active = TRUE,
                                       !.job = j, !.at = "offer"]
              /\ w = [disk |-> w.disk, run |-> w.run, overdue |-> o, rested |-> s.rested,
                      tried |-> s.tried, gaveUp |-> s.gaveUp]
          BY <2>0, <3>2 DEF State
        <4>3. w.disk \in Disk /\ w.disk.mail = s.disk.mail /\ w.disk.path = p
          BY <4>1, <4>2 DEF Disk
        <4>4. /\ w.run \in Run /\ w.run.at = "offer" /\ w.run.active
              /\ w.run.over = s.run.over /\ (w.run.session <=> s.run.session)
          BY <4>1, <4>2 DEF Run
        <4>5. QED  BY <2>0, <4>2, <4>3, <4>4 DEF State
      <3> HIDE DEF u, v
      <3>3. QED  BY <3>1, <3>2
    <2>3. s.run.over = "none"
      BY <2>1 DEF Good, State, Run
    <2>4. HasIt(server) => s.gaveUp \/ torn
      BY <2>1 DEF Good, Told, Held
    <2>5. s.disk.path = "delivered" => torn
      BY <2>1 DEF Good
    <2> HIDE DEF u
    <2>6. QED  BY <2>2, <2>3, <2>4, <2>5 DEF Good, Stage
  <1>2. Send(s, leave) = s \/ (Verdict(s, leave) = "server" /\ Send(s, leave) = u)
    BY DEF Send
  <1> HIDE DEF u
  <1>3. QED  BY <1>1, <1>2 DEF Stage, u

----------------------------------------------------------------------------
(* The stages of a tick                                                    *)

LEMMA DrainedGood ==
    ASSUME NEW s, Good(s, server, torn)
    PROVE  Good(Drained(s), server, torn) /\ Stage(s, Drained(s))
  <1> DEFINE failed == s.run.over = "error"
             t == [s EXCEPT !.run.over = "none", !.run.active = FALSE,
                            !.run.preparing = FALSE]
             u == [t EXCEPT !.rested = FALSE,
                            !.disk.path = IF failed /\ kind = "relay"
                                             /\ @ \in {"checking", "rejected"}
                                          THEN "rf_fallback" ELSE @]
  <1>1. CASE s.run.over = "none"
    BY <1>1 DEF Drained, Stage
  <1>2. CASE s.run.over # "none"
    <2>1. /\ t \in State /\ t.run.at = s.run.at /\ t.run.over = "none" /\ t.disk = s.disk
          /\ t.gaveUp = s.gaveUp /\ (t.run.session <=> s.run.session)
      BY DEF Good, State, Run
    <2>2. s.run.at = "none"
      BY <1>2 DEF Good, State, Run
    <2> HIDE DEF t
    <2>3. Good(t, server, torn)
      BY <2>1, <2>2 DEF Good
    <2>4. /\ u \in State /\ u.run = t.run /\ u.gaveUp = t.gaveUp
          /\ u.disk.mail = t.disk.mail
          /\ \/ u.disk.path = t.disk.path
             \/ t.disk.path \in {"checking", "rejected"} /\ u.disk.path = "rf_fallback"
      BY <2>1 DEF State, Disk, Path
    <2> HIDE DEF u
    <2>5. Good(u, server, torn)
      BY <2>1, <2>2, <2>3, <2>4 DEF Good, Told
    <2>6. u.disk.path = "delivered" <=> s.disk.path = "delivered"
      BY <2>1, <2>4
    <2>7. Drained(s) \in {t, u, ByRadio(u)}
      BY <1>2 DEF Drained, t, u
    <2>8. Good(ByRadio(u), server, torn) /\ Stage(u, ByRadio(u))
      BY <2>5, ByRadioGood
    <2>9. QED  BY <2>1, <2>3, <2>4, <2>5, <2>6, <2>7, <2>8 DEF Stage
  <1>3. QED  BY <1>1, <1>2

LEMMA ReceiptsGood ==
    ASSUME NEW s, Good(s, server, torn)
    PROVE  /\ Good(Receipts(s), server, torn)
           /\ Stage(s, Receipts(s))
  <1> DEFINE u == [s EXCEPT !.disk.receipt = TRUE, !.run.queue = TRUE,
                            !.disk.mail = "sent", !.disk.due = FALSE,
                            !.run.session = FALSE]
  <1>0. s \in State
    BY DEF Good
  <1>1. /\ u \in State /\ u.disk.path = s.disk.path /\ u.gaveUp = s.gaveUp
        /\ u.disk.mail = "sent" /\ u.run.at = s.run.at /\ u.run.over = s.run.over
        /\ (u.run.active <=> s.run.active) /\ ~u.run.session
    BY <1>0 DEF State, Run, Disk, Path, Held
  <1>2. Receipts(s) \in {s, u}
    BY DEF Receipts
  <1> HIDE DEF u
  <1>3. Good(u, server, torn)
    BY <1>1 DEF Good
  <1>4. QED  BY <1>1, <1>2, <1>3 DEF Stage

LEMMA FellBackGood ==
    ASSUME NEW s, Good(s, server, torn)
    PROVE  /\ Good(FellBack(s), server, torn)
           /\ Stage(s, FellBack(s))
  <1> DEFINE u == [s EXCEPT !.disk.path = "rf_fallback", !.gaveUp = TRUE]
  <1>0. s \in State
    BY DEF Good
  <1>1. /\ u \in State /\ u.disk.path = "rf_fallback" /\ u.gaveUp
        /\ u.disk.mail = s.disk.mail /\ u.run = s.run
    BY <1>0 DEF State, Disk, Path
  <1>2. \/ FellBack(s) = s
        \/ ~s.run.active /\ FellBack(s) = u
    BY DEF FellBack
  <1> HIDE DEF u
  <1>3. ~s.run.active => Good(u, server, torn)
    BY <1>1 DEF Good
  <1>4. QED  BY <1>1, <1>2, <1>3 DEF Stage

LEMMA ResentGood ==
    ASSUME NEW s, Good(s, server, torn)
    PROVE  Good(Resent(s), server, torn) /\ Stage(s, Resent(s))
  <1> DEFINE u == [s EXCEPT !.rested = FALSE]
  <1>1. u \in State /\ u.disk = s.disk /\ u.run = s.run /\ u.gaveUp = s.gaveUp
    BY DEF Good, State
  <1>2. Resent(s) \in {s, ByRadio(u)}
    BY DEF Resent
  <1> HIDE DEF u
  <1>3. Good(u, server, torn)
    BY <1>1 DEF Good
  <1>4. /\ Good(ByRadio(u), server, torn) /\ Stage(u, ByRadio(u))
    BY <1>3, ByRadioGood
  <1>5. QED  BY <1>1, <1>2, <1>4 DEF Stage

\* The server is asked, or mail is offered to it: no radio in any case.
LEMMA ConnectedGood ==
    ASSUME NEW s, Good(s, server, torn), NEW u \in Connected(s)
    PROVE  Good(u, server, torn) /\ Stage(s, u)
  <1> DEFINE polling == [s EXCEPT !.run.active = TRUE, !.run.job = "poll",
                                  !.run.at = "ask"]
             waiting == [s EXCEPT !.rested = FALSE]
  <1>0. s \in State
    BY DEF Good
  <1>1. /\ polling \in State /\ polling.disk = s.disk /\ polling.gaveUp = s.gaveUp
        /\ (polling.run.session <=> s.run.session) /\ polling.run.at = "ask"
        /\ polling.run.active /\ polling.run.over = s.run.over
    BY <1>0 DEF State, Run
  <1>2. ASSUME ~s.run.active
        PROVE  Good(polling, server, torn) /\ Stage(s, polling)
    <2>1. s.run.over = "none" /\ s.run.at = "none"
      BY <1>2 DEF Good, State, Run
    <2> HIDE DEF polling
    <2>2. QED  BY <1>1, <2>1 DEF Good, Stage
  <1>3. Good(waiting, server, torn) /\ waiting.disk = s.disk
        /\ waiting.gaveUp = s.gaveUp
        /\ (waiting.run.session <=> s.run.session)
    BY DEF Good, State
  <1>4. /\ Good(Send(waiting, FALSE), server, torn)
        /\ Stage(s, Send(waiting, FALSE))
    <2>1. /\ Good(Send(waiting, FALSE), server, torn)
          /\ Stage(waiting, Send(waiting, FALSE))
      BY <1>3, SendGood
    <2> HIDE DEF waiting
    <2>2. QED  BY <1>3, <2>1 DEF Stage
  <1>5. /\ Verdict(s, FALSE) = "server" =>
             Good(ToServer(s, FALSE), server, torn) /\ Stage(s, ToServer(s, FALSE))
    <2>1. /\ Good(Send(s, FALSE), server, torn)
          /\ Stage(s, Send(s, FALSE))
      BY SendGood
    <2>2. QED  BY <2>1 DEF Send
  <1> HIDE DEF polling, waiting
  <1>6. \/ u = s
        \/ Verdict(s, FALSE) = "server" /\ u = ToServer(s, FALSE)
        \/ ~s.run.active /\ u = polling
        \/ u = Send(waiting, FALSE)
    BY DEF Connected, polling, waiting
  <1>7. QED  BY <1>2, <1>4, <1>5, <1>6 DEF Stage

----------------------------------------------------------------------------
(* The steps                                                               *)

\* A step opens the second way rightly, or not at all.
Rightly == run'.session /\ ~run.session
             => ~HasIt(server) \/ gaveUp' \/ torn \/ disk.path = "delivered"

LEMMA AssignedRightly ==
    ASSUME PathInv, NEW s, Good(s, server, torn), Stage(Now, s), Becomes(s),
           UNCHANGED <<server, torn>>
    PROVE  PathInv' /\ Rightly
  <1>1. PathInv' /\ run' = s.run /\ gaveUp' = s.gaveUp
    BY BecomesIs
  <1>2. Now.run = run /\ Now.disk = disk
    BY DEF Now
  <1>3. QED  BY <1>1, <1>2 DEF Stage, Rightly

LEMMA TickRightly ==
    ASSUME PathInv, Tick PROVE PathInv' /\ Rightly
  <1>1. PICK drained \in {Drained(Now)} : \E paid \in {Receipts(drained)} :
          \E late \in {FellBack(paid)} : \E resent \in {Resent(late)} :
          \E s \in Connected(resent) : Becomes([s EXCEPT !.run.ticked = TRUE])
    BY DEF Tick
  <1>2. PICK paid \in {Receipts(drained)} :
          \E late \in {FellBack(paid)} : \E resent \in {Resent(late)} :
          \E s \in Connected(resent) : Becomes([s EXCEPT !.run.ticked = TRUE])
    BY <1>1
  <1>3. PICK late \in {FellBack(paid)} : \E resent \in {Resent(late)} :
          \E s \in Connected(resent) : Becomes([s EXCEPT !.run.ticked = TRUE])
    BY <1>2
  <1>4. PICK resent \in {Resent(late)} :
          \E s \in Connected(resent) : Becomes([s EXCEPT !.run.ticked = TRUE])
    BY <1>3
  <1>5. PICK s \in Connected(resent) : Becomes([s EXCEPT !.run.ticked = TRUE])
    BY <1>4
  <1>6. Good(Now, server, torn)
    BY NowIsGood
  <1>7. Good(drained, server, torn) /\ Stage(Now, drained)
    BY <1>6, DrainedGood
  <1>8. Good(paid, server, torn) /\ Stage(drained, paid)
    BY <1>7, ReceiptsGood
  <1>9. Good(late, server, torn) /\ Stage(paid, late)
    BY <1>8, FellBackGood
  <1>10. Good(resent, server, torn) /\ Stage(late, resent)
    BY <1>9, ResentGood
  <1>11. Good(s, server, torn) /\ Stage(resent, s)
    BY <1>5, <1>10, ConnectedGood
  <1>12. Stage(Now, s)
    BY <1>7, <1>8, <1>9, <1>10, <1>11, StagesCompose
  <1> DEFINE u == [s EXCEPT !.run.ticked = TRUE]
  <1>13. Good(u, server, torn) /\ Stage(Now, u)
    <2>1. s \in State
      BY <1>11 DEF Good
    <2>2. /\ u \in State /\ u.disk = s.disk /\ u.gaveUp = s.gaveUp
          /\ u.run.at = s.run.at /\ u.run.over = s.run.over
          /\ (u.run.active <=> s.run.active) /\ (u.run.session <=> s.run.session)
      BY <2>1 DEF State, Run
    <2> HIDE DEF u
    <2>3. QED  BY <1>11, <1>12, <2>2 DEF Good, Stage
  <1>14. QED  BY <1>5, <1>13, AssignedRightly DEF Tick

LEMMA SendsRightly ==
    ASSUME PathInv, SendQueued \/ Leave PROVE PathInv' /\ Rightly
  <1>1. Good(Now, server, torn)
    BY NowIsGood
  <1>2. Good(ByRadio(Now), server, torn) /\ Stage(Now, ByRadio(Now))
    BY <1>1, ByRadioGood
  <1>3. \A leave \in BOOLEAN :
          Good(Send(Now, leave), server, torn) /\ Stage(Now, Send(Now, leave))
    BY <1>1, SendGood
  <1>4. UNCHANGED <<server, torn>>
    BY DEF SendQueued, Leave
  <1>5. CASE SendQueued
    <2>1. \/ Becomes(ByRadio(Now))
          \/ Becomes(Send(Now, FALSE))
      BY <1>5 DEF SendQueued
    <2>2. QED  BY <1>2, <1>3, <1>4, <2>1, AssignedRightly
  <1>6. CASE Leave
    <2>1. Becomes(Send(Now, TRUE))
      BY <1>6 DEF Leave
    <2>2. QED  BY <1>3, <1>4, <2>1, AssignedRightly
  <1>7. QED  BY <1>5, <1>6

LEMMA AgainRightly ==
    ASSUME PathInv, Again PROVE PathInv' /\ Rightly
  <1>1. Good(Now, server, torn) /\ Now.disk = disk
    BY NowIsGood
  <1>2. UNCHANGED <<server, torn>>
    BY DEF Again
  <1>3. CASE disk.path = "delivered"
    <2>1. disk' = [disk EXCEPT !.due = TRUE]
          /\ UNCHANGED <<run, overdue, rested, tried, gaveUp>>
      BY <1>3 DEF Again
    <2>2. disk' \in Disk /\ disk'.path = disk.path /\ disk'.mail = disk.mail
      BY <2>1 DEF PathInv, Disk
    <2>3. QED  BY <1>2, <2>1, <2>2 DEF PathInv, Rightly
  <1>4. CASE disk.path # "delivered"
    <2> DEFINE fresh == [Now EXCEPT !.disk.path = "checking", !.overdue = FALSE]
    <2>1. \/ disk.path \in Held /\ Becomes(Send(Now, FALSE))
          \/ disk.path \notin Held /\ Becomes(Send(fresh, FALSE))
      BY <1>1, <1>4 DEF Again
    <2>2. CASE Becomes(Send(Now, FALSE))
      BY <1>1, <1>2, <2>2, SendGood, AssignedRightly
    <2>3. CASE disk.path \notin Held /\ Becomes(Send(fresh, FALSE))
      <3>1. Now \in State /\ "checking" \in Path
        BY <1>1 DEF Good, Path, Held
      <3>2. /\ fresh \in State /\ fresh.disk.path = "checking" /\ fresh.run = Now.run
            /\ fresh.gaveUp = Now.gaveUp
        BY <3>1 DEF State, Disk
      <3> HIDE DEF fresh
      <3>3. HasIt(server) => Now.gaveUp \/ torn
        BY <1>1, <1>4, <2>3 DEF Good, Held, Told
      <3>4. Now.run.at # "put"
        BY <1>1, <2>3 DEF Good, Held
      <3>5. Good(fresh, server, torn) /\ Stage(Now, fresh)
        BY <1>1, <3>2, <3>3, <3>4 DEF Good, Stage
      <3>6. Good(Send(fresh, FALSE), server, torn) /\ Stage(fresh, Send(fresh, FALSE))
        BY <3>5, SendGood
      <3>7. Stage(Now, Send(fresh, FALSE))
        BY <3>5, <3>6, StagesCompose
      <3>8. QED  BY <1>2, <2>3, <3>6, <3>7, AssignedRightly
    <2>4. QED  BY <2>1, <2>2, <2>3
  <1>5. QED  BY <1>3, <1>4

\* The worker goes from place to place and leaves the radio alone.
LEMMA WorkerGoes ==
    ASSUME PathInv,
           NEW place \in {"put", "answer", "publish", "status"}, At(place),
           run.at # "none"
    PROVE  /\ run' \in Run /\ run'.at = place /\ run'.over = "none" /\ run'.active
           /\ (run'.session <=> run.session)
  <1>1. run \in Run
    BY DEF PathInv
  <1>2. /\ run' \in Run /\ run'.at = place /\ run'.over = run.over
        /\ (run'.active <=> run.active) /\ (run'.session <=> run.session)
    BY <1>1 DEF At, Run
  <1>3. QED  BY <1>2 DEF PathInv

LEMMA WorkerEnds ==
    ASSUME PathInv, NEW result \in {"ok", "error"}, Ends(result), run.at # "none"
    PROVE  /\ run' \in Run /\ run'.at = "none" /\ run'.active
           /\ (run'.session <=> run.session)
  <1>1. run \in Run
    BY DEF PathInv
  <1>2. /\ run' \in Run /\ run'.at = "none"
        /\ (run'.active <=> run.active) /\ (run'.session <=> run.session)
    BY <1>1 DEF Ends, Run
  <1>3. QED  BY <1>2 DEF PathInv

LEMMA WorkerRightly ==
    ASSUME PathInv, Worker PROVE PathInv' /\ Rightly
  <1>1. disk \in Disk /\ disk.path \in Path /\ disk.mail \in {"waiting", "sent", "failed"}
    BY DEF PathInv, Disk
  <1>2. CASE Refused
    <2>1. /\ run' \in Run /\ run'.at = "none" /\ run'.active
          /\ (run'.session <=> run.session) /\ run.at = "offer"
      BY <1>2, WorkerEnds DEF Refused
    <2>2. UNCHANGED <<disk, server, gaveUp, torn, overdue, rested, tried>>
      BY <1>2 DEF Refused, world
    <2>3. QED  BY <2>1, <2>2 DEF PathInv, Rightly
  <1>3. CASE Upload
    <2>1. /\ run' \in Run /\ run'.at = "put" /\ run'.active /\ run'.over = "none"
          /\ (run'.session <=> run.session)
      BY <1>3, WorkerGoes DEF Upload
    <2>2. disk' \in Disk /\ disk'.path = "uploading"
      BY <1>1, <1>3 DEF Upload, Disk, Path, Held
    <2>3. UNCHANGED <<server, gaveUp, torn, rested, tried>> /\ overdue' = FALSE
      BY <1>3 DEF Upload, world
    <2>4. QED  BY <2>1, <2>2, <2>3 DEF PathInv, Rightly, Told
  <1>4. CASE Put
    <2>1. /\ disk.path = "uploading" /\ run.at # "none"
          /\ UNCHANGED <<overdue, rested, tried, gaveUp, torn>>
      BY <1>4 DEF Put, PathInv
    <2>2. server' = server \/ (server = "none" /\ server' = "accepted")
      BY <1>4 DEF Put, Taken
    <2>3. \/ At("publish") /\ disk' = disk
          \/ server' = "none" /\ Ends("error") /\ disk' = [disk EXCEPT !.path = "rejected"]
          \/ Ends("error") /\ disk' = [disk EXCEPT !.path = "unknown"]
      BY <1>4 DEF Put
    <2>4. CASE At("publish") /\ disk' = disk
      <3>1. /\ run' \in Run /\ run'.at = "publish" /\ run'.active /\ run'.over = "none"
            /\ (run'.session <=> run.session)
        BY <2>1, <2>4, WorkerGoes
      <3>2. QED  BY <2>1, <2>2, <2>4, <3>1 DEF PathInv, Rightly, Told, Final
    <2>5. ASSUME NEW path \in {"rejected", "unknown"}, Ends("error"),
                 disk' = [disk EXCEPT !.path = path], path = "rejected" => server' = "none"
          PROVE  PathInv' /\ Rightly
      <3>1. /\ run' \in Run /\ run'.at = "none" /\ run'.active
            /\ (run'.session <=> run.session)
        BY <2>1, <2>5, WorkerEnds
      <3>2. disk' \in Disk /\ disk'.path = path
        BY <1>1, <2>5 DEF Disk, Path, Held
      <3>3. QED  BY <2>1, <2>2, <2>5, <3>1, <3>2 DEF PathInv, Rightly, Told, Final, HasIt
    <2>6. QED  BY <2>3, <2>4, <2>5
  <1>5. CASE Ask
    <2>1. UNCHANGED <<disk, server, gaveUp, torn, overdue, rested, tried>>
          /\ run.at = "ask" /\ (At("answer") \/ Ends("ok"))
      BY <1>5 DEF Ask, world
    <2>2. /\ run' \in Run /\ run'.at \in {"answer", "none"} /\ run'.active
          /\ (run'.at = "answer" => run'.over = "none")
          /\ (run'.session <=> run.session)
      BY <2>1, WorkerGoes, WorkerEnds
    <2>3. QED  BY <2>1, <2>2 DEF PathInv, Rightly
  <1>6. CASE Answer
    <2>1. UNCHANGED <<server, gaveUp, torn, overdue, rested, tried>> /\ run.at = "answer"
      BY <1>6 DEF Answer, world
    <2>2. \/ server = "none" /\ Ends("ok") /\ disk' = [disk EXCEPT !.path = Unknown(disk)]
          \/ At("publish") /\ disk' = disk
          \/ Ends("error") /\ disk' = disk
      BY <1>6 DEF Answer
    <2>3. /\ run' \in Run /\ run'.at \in {"publish", "none"} /\ run'.active
          /\ (run'.at = "publish" => run'.over = "none")
          /\ (run'.session <=> run.session)
      BY <2>1, <2>2, WorkerGoes, WorkerEnds
    <2>4. CASE disk' = disk
      BY <2>1, <2>3, <2>4 DEF PathInv, Rightly
    <2>5. CASE server = "none" /\ disk' = [disk EXCEPT !.path = Unknown(disk)]
      <3>1. /\ disk' \in Disk /\ disk'.path \in {"rf_fallback", "not_accepted"}
        BY <1>1, <2>5 DEF Disk, Path, Unknown
      <3>2. QED  BY <2>1, <2>3, <2>5, <3>1 DEF PathInv, Rightly, HasIt
    <2>6. QED  BY <2>2, <2>4, <2>5
  <1>7. CASE Publish
    <2>1. UNCHANGED <<server, gaveUp, torn, overdue, rested, tried>> /\ run.at = "publish"
          /\ At("status")
      BY <1>7 DEF Publish, world
    <2>2. /\ run' \in Run /\ run'.at = "status" /\ run'.active /\ run'.over = "none"
          /\ (run'.session <=> run.session)
      BY <2>1, WorkerGoes
    <2>3. disk' \in Disk /\ disk'.path = server
      <3>1. server \in Path
        BY DEF PathInv, Path, Final, Held
      <3>2. (disk.due \/ OwesReceipt(server)) \in BOOLEAN
        OBVIOUS
      <3>3. disk' = [disk EXCEPT !.path = server, !.due = disk.due \/ OwesReceipt(server)]
        BY <1>7 DEF Publish
      <3>4. QED  BY <1>1, <3>1, <3>2, <3>3 DEF Disk
    <2>4. QED  BY <2>1, <2>2, <2>3 DEF PathInv, Rightly, Told, HasIt
  <1>8. CASE File
    <2>1. /\ UNCHANGED <<server, gaveUp, overdue, rested, tried>> /\ run.at = "status"
          /\ Ends("ok") \/ Ends("error")
      BY <1>8 DEF File
    <2>2. /\ run' \in Run /\ run'.at = "none" /\ run'.active
          /\ (run'.session <=> run.session)
      BY <2>1, WorkerEnds
    <2>3. CASE disk' = [disk EXCEPT !.mail = IF @ = "sent" THEN @ ELSE Filed(disk.path)]
               /\ torn' = torn
      <3>1. Filed(disk.path) \in {"waiting", "sent", "failed"}
            /\ (disk.path = "delivered" => Filed(disk.path) = "sent")
        BY <1>1 DEF Filed
      <3>2. /\ disk' \in Disk /\ disk'.path = disk.path
            /\ disk.path = "delivered" => disk'.mail = "sent"
        BY <1>1, <2>3, <3>1 DEF Disk
      <3>3. QED  BY <2>1, <2>2, <2>3, <3>2 DEF PathInv, Rightly
    <2>4. CASE torn' /\ disk' = disk
      BY <2>1, <2>2, <2>4 DEF PathInv, Rightly
    <2>5. QED  BY <1>8, <2>3, <2>4 DEF File
  <1>9. QED  BY <1>2, <1>3, <1>4, <1>5, <1>6, <1>7, <1>8 DEF Worker

\* The receipts, the clock, the radio, the server, the operator and crashes.
LEMMA WorldRightly ==
    ASSUME PathInv, Flush \/ Time \/ RadioEnds \/ ServerMoves \/ Toggle \/ Crash
    PROVE  PathInv' /\ Rightly
  <1>1. disk \in Disk /\ run \in Run
    BY DEF PathInv
  <1>2. CASE Flush
    <2>1. /\ disk' \in Disk /\ disk'.path = disk.path /\ disk'.mail = disk.mail
          /\ run' \in Run /\ run'.at = run.at /\ run'.over = run.over
          /\ (run'.active <=> run.active) /\ (run'.session <=> run.session)
      BY <1>1, <1>2 DEF Flush, Disk, Run
    <2>2. UNCHANGED <<server, gaveUp, torn, overdue, rested, tried>>
      BY <1>2 DEF Flush, world
    <2>3. QED  BY <2>1, <2>2 DEF PathInv, Rightly
  <1>3. CASE Time
    <2>1. UNCHANGED <<disk, run, server, gaveUp, torn, tried>> /\ overdue' /\ rested'
          /\ overdue' \in BOOLEAN /\ rested' \in BOOLEAN
      BY <1>3 DEF Time, world
    <2>2. QED  BY <2>1 DEF PathInv, Rightly
  <1>4. CASE RadioEnds
    <2>1. UNCHANGED <<server, gaveUp, torn, overdue, rested, tried>>
          /\ run' = [run EXCEPT !.session = FALSE]
      BY <1>4 DEF RadioEnds, world
    <2>2. /\ run' \in Run /\ run'.at = run.at /\ run'.over = run.over
          /\ (run'.active <=> run.active) /\ ~run'.session
      BY <1>1, <2>1 DEF Run
    <2>3. PICK mail \in {"waiting", "failed", "sent"} :
            disk' = [disk EXCEPT !.mail = IF @ = "sent" THEN @ ELSE mail]
      BY <1>4 DEF RadioEnds
    <2>4. /\ disk' \in Disk /\ disk'.path = disk.path
          /\ disk.mail = "sent" => disk'.mail = "sent"
      BY <1>1, <2>3 DEF Disk
    <2>5. QED  BY <2>1, <2>2, <2>4 DEF PathInv, Rightly
  <1>5. CASE ServerMoves
    <2>1. UNCHANGED <<disk, run, gaveUp, torn, overdue, rested, tried>>
          /\ server = "accepted" /\ server' \in Final
      BY <1>5 DEF ServerMoves
    <2>2. QED  BY <2>1 DEF PathInv, Rightly, HasIt, Final
  <1>6. CASE Toggle
    <2>1. UNCHANGED <<disk, server, gaveUp, torn, overdue, rested, tried>>
          /\ run' = [run EXCEPT !.enabled = ~run.enabled]
      BY <1>6 DEF Toggle
    <2>2. /\ run' \in Run /\ run'.at = run.at /\ run'.over = run.over
          /\ (run'.active <=> run.active) /\ (run'.session <=> run.session)
      BY <1>1, <2>1 DEF Run
    <2>3. QED  BY <2>1, <2>2 DEF PathInv, Rightly
  <1>7. CASE Crash
    <2>1. UNCHANGED <<server, gaveUp, overdue, tried>> /\ rested' = TRUE
          /\ (torn' <=> torn \/ run.at = "status")
      BY <1>7 DEF Crash
    <2>2. /\ disk' \in Disk /\ disk'.path = disk.path /\ disk'.mail = disk.mail
      BY <1>1, <1>7 DEF Crash, Disk
    <2>3. run' = [Idle EXCEPT !.enabled = run.enabled, !.queue = disk'.receipt]
      BY <1>7 DEF Crash, Reloaded
    <2>4. run.enabled \in BOOLEAN /\ disk'.receipt \in BOOLEAN
      BY <1>1, <2>2 DEF Run, Disk
    <2>5. Idle \in Run /\ Idle.at = "none" /\ Idle.over = "none" /\ ~Idle.session
      BY DEF Idle, Run
    <2> HIDE DEF Idle
    <2>6. run' \in Run /\ run'.at = "none" /\ run'.over = "none" /\ ~run'.session
      BY <2>3, <2>4, <2>5 DEF Run
    <2>7. QED  BY <2>1, <2>2, <2>6 DEF PathInv, Rightly
  <1>8. QED  BY <1>2, <1>3, <1>4, <1>5, <1>6, <1>7

LEMMA InitIsKnown ==
    ASSUME Init PROVE PathInv
  <1>1. /\ disk \in Disk /\ disk.path = "none"
    BY DEF Init, Disk, Path
  <1>2. Idle \in Run /\ Idle.at = "none" /\ Idle.over = "none"
    BY DEF Idle, Run
  <1>3. QED  BY <1>1, <1>2 DEF Init, PathInv, HasIt

LEMMA NextRightly ==
    ASSUME PathInv, Next PROVE PathInv' /\ Rightly
  BY SendsRightly, AgainRightly, WorkerRightly, TickRightly, WorldRightly DEF Next

\* What the mailbox says of the server is never less than what the server has
\* (ardos_cz/service.py, whatever it does and wherever the program dies).
THEOREM ServerIsNotForgotten == Spec => []PathInv
  <1>1. Init => PathInv
    BY InitIsKnown
  <1>2. PathInv /\ [Next]_vars => PathInv'
    <2>1. CASE PathInv /\ UNCHANGED vars
      BY <2>1 DEF vars, PathInv
    <2>2. QED  BY <2>1, NextRightly
  <1>3. QED  BY <1>1, <1>2, PTL DEF Spec

\* The radio takes a message only if the server does not have it, or did not
\* say for 90 seconds whether it has (ardos_cz/service.py, send and tick).
THEOREM OneWayOnly == Spec => OneWayAtATime
  <1>1. PathInv /\ [Next]_vars =>
          [run'.session /\ ~run.session
             => server \notin {"accepted", "delivered"} \/ gaveUp'
                \/ torn \/ disk.path = "delivered"]_vars
    BY NextRightly DEF Rightly, HasIt
  <1>2. Spec => []PathInv
    BY ServerIsNotForgotten
  <1>3. QED  BY <1>1, <1>2, PTL DEF Spec, OneWayAtATime
=============================================================================
