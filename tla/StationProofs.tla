--------------------------- MODULE StationProofs ---------------------------
(***************************************************************************)
(* Proofs about the parts of a station that Services puts together, each   *)
(* for every value of its constants: the transmit queue (AudioControl),    *)
(* the Auto Tune of two stations (StationLab) and the alerts of a net      *)
(* (AlertFlood) are proved here; of the link, the server path and the game *)
(* the proof modules of their own are instantiated at the end.             *)
(***************************************************************************)
EXTENDS Services, TLAPS

----------------------------------------------------------------------------
(* The transmit queue: where a frame is says who has to tell its caller.    *)

InQueue == {"held", "dropped"}
InHand == {"taken", "worker", "air", "done"}
Places == {"caller", "over"} \cup InQueue \cup InHand

AudioTypes ==
    /\ place \in [Item -> Places] /\ answers \in [Item -> Seq(BOOLEAN)]
    /\ filed \subseteq Item /\ carried \subseteq Item /\ aired \subseteq Item
    /\ suspended \in BOOLEAN /\ shut \in BOOLEAN
    /\ payload \in {"away", "draining", "owns", "resuming"}

\* The callback of a frame is filed while the frame is held, and passed along
\* while a thread has it.
CallbackIsKept(f) ==
    /\ f \in filed => place[f] \in InQueue
    /\ f \in carried => place[f] \in InHand
    /\ f \in filed \cup carried => Audio!HasCallback(f)
    /\ Audio!HasCallback(f) /\ place[f] = "held" => f \in filed
    /\ Audio!HasCallback(f) /\ place[f] \in InHand => f \in carried
    /\ f \in aired => place[f] \in {"done", "over"}
ToldOnce(f) ==
    Audio!HasCallback(f) =>
      answers[f] = IF place[f] # "over" THEN <<>>
                   ELSE IF f \in aired THEN <<TRUE>> ELSE <<FALSE>>
CallersInv == AudioTypes /\ \A f \in Item : CallbackIsKept(f) /\ ToldOnce(f)

\* From the moment a payload asks for the card nothing new is admitted.
CardInv ==
    /\ payload \in {"draining", "owns"} => suspended \/ shut
    /\ payload = "owns" => Audio!Pending = {}

\* Frames that are moved are still in some place.
LEMMA MoveType ==
    ASSUME AudioTypes, NEW fs \in SUBSET Item, NEW p \in Places, Audio!Move(fs, p)
    PROVE  place' \in [Item -> Places]
  BY DEF AudioTypes, Audio!Move

\* An answer is appended for the frames it is given for, and no others.
LEMMA AnswerType ==
    ASSUME AudioTypes, NEW fs \in SUBSET Item, NEW b \in BOOLEAN, Audio!Answer(fs, b)
    PROVE  /\ answers' \in [Item -> Seq(BOOLEAN)]
           /\ \A f \in Item :
                /\ f \notin fs => answers'[f] = answers[f]
                /\ f \in fs /\ answers[f] = <<>> => answers'[f] = <<b>>
  <1>1. \A f \in Item : answers[f] \in Seq(BOOLEAN)
                         /\ Append(answers[f], b) \in Seq(BOOLEAN)
    BY DEF AudioTypes
  <1>2. Append(<<>>, b) = <<b>>
    OBVIOUS
  <1>3. QED  BY <1>1, <1>2 DEF AudioTypes, Audio!Answer

\* A frame that is taken up is refused, held back or given to a worker, and its
\* callback with it.
LEMMA TakeKeeps ==
    ASSUME CallersInv, NEW f \in Item, NEW callback \in SUBSET Item,
           place[f] \in {"caller", "taken"}, Audio!HasCallback(f) <=> f \in callback,
           Audio!Take(f, callback), UNCHANGED payload
    PROVE  CallersInv'
  <1>1. AudioTypes
    BY DEF CallersInv
  <1>2. /\ UNCHANGED <<suspended, shut, aired, payload>>
        /\ \/ Audio!Refuse(f, callback) \/ Audio!Hold(f, callback)
           \/ Audio!Admit(f, callback)
    BY DEF Audio!Take
  <1>3. f \notin filed /\ f \notin aired
    BY DEF CallersInv, CallbackIsKept, InQueue
  <1>4. Audio!HasCallback(f) => answers[f] = <<>>
    BY DEF CallersInv, ToldOnce
  <1>5. CASE Audio!Refuse(f, callback)
    <2>1. Audio!Move({f}, "over") /\ Audio!Answer({f} \cap callback, FALSE)
          /\ carried' = carried \ {f} /\ UNCHANGED filed
      BY <1>5 DEF Audio!Refuse
    <2>2. place' \in [Item -> Places]
      BY <1>1, <2>1, MoveType DEF Places
    <2>3. /\ answers' \in [Item -> Seq(BOOLEAN)]
          /\ \A g \in Item \ {f} : answers'[g] = answers[g]
          /\ f \in callback => answers'[f] = <<FALSE>>
      <3>1. {f} \cap callback \in SUBSET Item
        OBVIOUS
      <3>2. QED  BY <1>1, <1>4, <2>1, <3>1, AnswerType
    <2>4. \A g \in Item : place'[g] = IF g = f THEN "over" ELSE place[g]
      BY <2>1 DEF Audio!Move
    <2>5. AudioTypes'
      BY <1>1, <1>2, <2>1, <2>2, <2>3 DEF AudioTypes
    <2>6. ASSUME NEW g \in Item PROVE CallbackIsKept(g)' /\ ToldOnce(g)'
      BY <1>1, <1>2, <1>3, <2>1, <2>3, <2>4, <2>6
         DEF CallersInv, CallbackIsKept, ToldOnce, InQueue, InHand, Audio!HasCallback
    <2>7. QED  BY <2>5, <2>6 DEF CallersInv
  <1>6. CASE Audio!Hold(f, callback)
    <2>1. PICK p \in {"held", "dropped"} : Audio!Move({f}, p)
      BY <1>6 DEF Audio!Hold
    <2>2. filed' = filed \cup ({f} \cap callback) /\ carried' = carried \ {f}
          /\ UNCHANGED answers
      BY <1>6 DEF Audio!Hold
    <2>3. place' \in [Item -> Places]
      BY <1>1, <2>1, MoveType DEF Places, InQueue
    <2>4. \A g \in Item : place'[g] = IF g = f THEN p ELSE place[g]
      BY <2>1 DEF Audio!Move
    <2>5. AudioTypes'
      BY <1>1, <1>2, <2>2, <2>3 DEF AudioTypes
    <2>6. ASSUME NEW g \in Item PROVE CallbackIsKept(g)' /\ ToldOnce(g)'
      BY <1>1, <1>2, <1>3, <1>4, <2>2, <2>4, <2>6
         DEF CallersInv, CallbackIsKept, ToldOnce, InQueue, InHand, Audio!HasCallback
    <2>7. QED  BY <2>5, <2>6 DEF CallersInv
  <1>7. CASE Audio!Admit(f, callback)
    <2>1. Audio!Move({f}, "worker") /\ carried' = carried \cup ({f} \cap callback)
          /\ UNCHANGED <<filed, answers>>
      BY <1>7 DEF Audio!Admit
    <2>2. place' \in [Item -> Places]
      BY <1>1, <2>1, MoveType DEF Places, InHand
    <2>3. \A g \in Item : place'[g] = IF g = f THEN "worker" ELSE place[g]
      BY <2>1 DEF Audio!Move
    <2>4. AudioTypes'
      BY <1>1, <1>2, <2>1, <2>2 DEF AudioTypes
    <2>5. ASSUME NEW g \in Item PROVE CallbackIsKept(g)' /\ ToldOnce(g)'
      BY <1>1, <1>2, <1>3, <1>4, <2>1, <2>3, <2>5
         DEF CallersInv, CallbackIsKept, ToldOnce, InQueue, InHand, Audio!HasCallback
    <2>6. QED  BY <2>4, <2>5 DEF CallersInv
  <1>8. QED  BY <1>2, <1>5, <1>6, <1>7

\* What becomes of the callbacks in a step of a thread that has frame f, which
\* goes to p and is perhaps heard.
LEMMA HandKeeps ==
    ASSUME CallersInv, NEW f \in Item, NEW p \in {"air", "done", "over"},
           NEW sounded \in SUBSET {f},
           place[f] \in {"worker", "air"}, p = "over" => ~Audio!HasCallback(f),
           p = "air" => sounded = {},
           Audio!Move({f}, p), aired' = aired \cup sounded,
           UNCHANGED <<filed, carried, suspended, shut, payload, answers>>
    PROVE  CallersInv'
  <1>1. AudioTypes
    BY DEF CallersInv
  <1>2. place' \in [Item -> Places]
    BY <1>1, MoveType DEF Places, InHand
  <1>3. \A g \in Item : place'[g] = IF g = f THEN p ELSE place[g]
    BY DEF Audio!Move
  <1>4. AudioTypes'
    BY <1>1, <1>2 DEF AudioTypes
  <1>5. ASSUME NEW g \in Item PROVE CallbackIsKept(g)' /\ ToldOnce(g)'
    BY <1>1, <1>3, <1>5 DEF CallersInv, CallbackIsKept, ToldOnce, InQueue, InHand,
                            Audio!HasCallback
  <1>6. QED  BY <1>4, <1>5 DEF CallersInv

\* The callback of a frame that is done is called, with the truth.
LEMMA CompleteKeeps ==
    ASSUME CallersInv, NEW f \in Item, Audio!Complete(f) PROVE CallersInv'
  <1>1. AudioTypes
    BY DEF CallersInv
  <1>0. PICK b \in BOOLEAN : b = (f \in aired)
    <2>1. (f \in aired) \in BOOLEAN
      OBVIOUS
    <2>2. QED  BY <2>1, Zenon
  <1>2. /\ place[f] = "done" /\ Audio!Move({f}, "over")
        /\ Audio!Answer({f} \cap carried, b) /\ carried' = carried \ {f}
        /\ UNCHANGED <<filed, aired, suspended, shut, payload>>
    BY <1>0 DEF Audio!Complete, Audio!control
  <1>3. place' \in [Item -> Places]
    BY <1>1, <1>2, MoveType DEF Places
  <1>4. /\ answers' \in [Item -> Seq(BOOLEAN)]
        /\ \A g \in Item \ {f} : answers'[g] = answers[g]
        /\ f \in carried /\ answers[f] = <<>> => answers'[f] = <<b>>
    <2>1. {f} \cap carried \in SUBSET Item
      OBVIOUS
    <2>2. QED  BY <1>1, <1>2, <2>1, AnswerType
  <1>5. \A g \in Item : place'[g] = IF g = f THEN "over" ELSE place[g]
    BY <1>2 DEF Audio!Move
  <1>6. AudioTypes'
    BY <1>1, <1>2, <1>3, <1>4 DEF AudioTypes
  <1>7. ASSUME NEW g \in Item PROVE CallbackIsKept(g)' /\ ToldOnce(g)'
    BY <1>0, <1>1, <1>2, <1>4, <1>5, <1>7
       DEF CallersInv, CallbackIsKept, ToldOnce, InQueue, InHand, Audio!HasCallback
  <1>8. QED  BY <1>6, <1>7 DEF CallersInv

\* Frames that leave the queue unsent, and those whose callers are told so.
LEMMA LeaveKeeps ==
    ASSUME CallersInv, NEW gone \in SUBSET Item, NEW owed \in SUBSET Item,
           \A f \in gone : place[f] \in InQueue, owed = gone \cap filed,
           \A f \in gone : place[f] = "dropped" => f \in filed,
           Audio!Move(gone, "over"), Audio!Answer(owed, FALSE), filed' = filed \ gone,
           suspended' \in BOOLEAN, shut' \in BOOLEAN,
           UNCHANGED <<carried, payload, aired>>
    PROVE  CallersInv'
  <1>1. AudioTypes
    BY DEF CallersInv
  <1>2. place' \in [Item -> Places]
    BY <1>1, MoveType DEF Places
  <1>3. /\ answers' \in [Item -> Seq(BOOLEAN)]
        /\ \A g \in Item \ owed : answers'[g] = answers[g]
        /\ \A g \in owed : answers[g] = <<>> => answers'[g] = <<FALSE>>
    BY <1>1, AnswerType
  <1>4. \A g \in Item : place'[g] = IF g \in gone THEN "over" ELSE place[g]
    BY DEF Audio!Move
  <1>5. AudioTypes'
    BY <1>1, <1>2, <1>3 DEF AudioTypes
  <1>6. ASSUME NEW g \in Item PROVE CallbackIsKept(g)' /\ ToldOnce(g)'
    BY <1>1, <1>3, <1>4, <1>6
       DEF CallersInv, CallbackIsKept, ToldOnce, InQueue, InHand, Audio!HasCallback
  <1>7. QED  BY <1>5, <1>6 DEF CallersInv

\* Frames that were held back are taken up with their callbacks.
LEMMA ResumeQueuedKeeps ==
    ASSUME CallersInv, Audio!ResumeQueued PROVE CallersInv'
  <1>1. AudioTypes
    BY DEF CallersInv
  <1>2. /\ payload' = "resuming" /\ suspended' = FALSE
        /\ Audio!Move(Audio!At("held"), "taken")
        /\ carried' = carried \cup (filed \cap Audio!At("held")) /\ filed' = {}
        /\ UNCHANGED <<shut, answers, aired>>
    BY DEF Audio!ResumeQueued
  <1>3. place' \in [Item -> Places]
    BY <1>1, <1>2, MoveType DEF Places, InHand, Audio!At
  <1>4. \A g \in Item : place'[g] = IF place[g] = "held" THEN "taken" ELSE place[g]
    BY <1>2 DEF Audio!Move, Audio!At
  <1>5. AudioTypes'
    BY <1>1, <1>2, <1>3 DEF AudioTypes
  <1>6. \A g \in Item : g \in carried' <=> g \in carried \/ (g \in filed /\ place[g] = "held")
    BY <1>2 DEF Audio!At
  <1>7. ASSUME NEW g \in Item PROVE CallbackIsKept(g)' /\ ToldOnce(g)'
    BY <1>1, <1>2, <1>4, <1>6, <1>7
       DEF CallersInv, CallbackIsKept, ToldOnce, InQueue, InHand, Audio!HasCallback
  <1>8. QED  BY <1>5, <1>7 DEF CallersInv

\* Every step keeps each callback where its frame is.
LEMMA CallersKept == CallersInv /\ [Audio!Next]_Audio!vars => CallersInv'
  <1> SUFFICES ASSUME CallersInv, [Audio!Next]_Audio!vars PROVE CallersInv'
    OBVIOUS
  <1> USE DEF Audio!control
  <1>0. AudioTypes
    BY DEF CallersInv
  <1>1. ASSUME NEW f \in Item, Audio!Send(f) PROVE CallersInv'
    <2>1. Audio!HasCallback(f) <=> f \in {g \in Item : Audio!HasCallback(g)}
      OBVIOUS
    <2>2. QED  BY <1>1, <2>1, TakeKeeps DEF Audio!Send
  <1>2. ASSUME NEW f \in Item, Audio!Key(f) PROVE CallersInv'
    <2>1. /\ place[f] = "worker" /\ Audio!Move({f}, "air") /\ aired' = aired \cup {}
          /\ UNCHANGED <<filed, carried, suspended, shut, payload, answers>>
      BY <1>2 DEF Audio!Key, Audio!MayKey
    <2>2. QED  BY <2>1, HandKeeps
  <1>3. ASSUME NEW f \in Item, Audio!GiveUp(f) PROVE CallersInv'
    <2>1. PICK p \in {"done", "over"} : p = Audio!Ends(f)
      BY DEF Audio!Ends
    <2>2. /\ place[f] = "worker" /\ Audio!Move({f}, p) /\ aired' = aired \cup {}
          /\ UNCHANGED <<filed, carried, suspended, shut, payload, answers>>
      BY <1>3, <2>1 DEF Audio!GiveUp, Audio!MayKey
    <2>3. p = "over" => ~Audio!HasCallback(f)
      BY <2>1 DEF Audio!Ends
    <2>4. QED  BY <2>2, <2>3, HandKeeps
  <1>4. ASSUME NEW f \in Item, Audio!EndAir(f) PROVE CallersInv'
    <2>1. PICK p \in {"done", "over"} : p = Audio!Ends(f)
      BY DEF Audio!Ends
    <2>2. PICK sounded \in SUBSET {f} : aired' = aired \cup sounded
      <3>1. aired' = aired \cup {f} \/ aired' = aired \cup {}
        BY <1>4 DEF Audio!EndAir
      <3>2. {f} \in SUBSET {f} /\ {} \in SUBSET {f}
        OBVIOUS
      <3>3. QED  BY <3>1, <3>2
    <2>3. /\ place[f] = "air" /\ Audio!Move({f}, p)
          /\ UNCHANGED <<filed, carried, suspended, shut, payload, answers>>
      BY <1>4, <2>1 DEF Audio!EndAir
    <2>4. p = "over" => ~Audio!HasCallback(f)
      BY <2>1 DEF Audio!Ends
    <2>5. QED  BY <2>2, <2>3, <2>4, HandKeeps
  <1>5. ASSUME NEW f \in Item, Audio!SendAgain(f) PROVE CallersInv'
    <2>1. Audio!HasCallback(f) <=> f \in carried
      BY <1>5 DEF Audio!SendAgain, CallersInv, CallbackIsKept, InHand
    <2>2. QED  BY <1>0, <1>5, <2>1, TakeKeeps DEF Audio!SendAgain, AudioTypes
  <1>6. CASE Audio!Discard
    <2> DEFINE gone == {f \in Audio!At("held") : Audio!Withdrawable(f)}
    <2>1. /\ Audio!Move(gone, "over") /\ Audio!Answer(gone \cap filed, FALSE)
          /\ filed' = filed \ gone
          /\ UNCHANGED <<carried, payload, aired, suspended, shut>>
      BY <1>6 DEF Audio!Discard
    <2>2. gone \in SUBSET Item /\ \A f \in gone : place[f] = "held"
      BY DEF Audio!At
    <2> HIDE DEF gone
    <2>3. QED  BY <1>0, <2>1, <2>2, LeaveKeeps DEF AudioTypes, InQueue
  <1>7. CASE Audio!Stop
    <2> DEFINE gone == Audio!At("held") \cup filed
    <2>1. /\ Audio!Move(gone, "over") /\ Audio!Answer(gone \cap filed, FALSE)
          /\ filed' = filed \ gone /\ suspended' \in BOOLEAN /\ shut' \in BOOLEAN
          /\ UNCHANGED <<carried, payload, aired>>
      <3>1. gone \cap filed = filed /\ filed \ gone = {}
        OBVIOUS
      <3>2. QED  BY <1>7, <3>1 DEF Audio!Stop, Audio!ToldOfStop
    <2>2. gone \in SUBSET Item
      BY <1>0 DEF Audio!At, AudioTypes
    <2>3. \A f \in gone : place[f] \in InQueue /\ (place[f] = "dropped" => f \in filed)
      BY <2>2 DEF Audio!At, CallersInv, CallbackIsKept, InQueue
    <2> HIDE DEF gone
    <2>4. QED  BY <2>1, <2>2, <2>3, LeaveKeeps
  <1>8. CASE Audio!Suspend \/ Audio!Drained \/ Audio!Resumed
    <2>1. /\ payload' \in {"away", "draining", "owns"} /\ suspended' \in BOOLEAN
          /\ UNCHANGED <<place, filed, carried, shut, answers, aired>>
      BY <1>0, <1>8 DEF Audio!Suspend, Audio!Drained, Audio!Resumed, AudioTypes
    <2>2. QED  BY <2>1 DEF CallersInv, AudioTypes, CallbackIsKept, ToldOnce,
                           Audio!HasCallback
  <1>9. CASE Audio!NotDrained
    BY <1>9, ResumeQueuedKeeps DEF Audio!NotDrained
  <1>10. CASE Audio!Resume
    <2>1. CASE Audio!ResumeQueued
      BY <2>1, ResumeQueuedKeeps
    <2>2. CASE ~Audio!ResumeQueued
      <3>1. /\ payload' = "away"
            /\ UNCHANGED <<place, filed, carried, suspended, shut, answers, aired>>
        BY <1>10, <2>2 DEF Audio!Resume
      <3>2. QED  BY <3>1 DEF CallersInv, AudioTypes, CallbackIsKept, ToldOnce,
                             Audio!HasCallback
    <2>3. QED  BY <2>1, <2>2
  <1>11. CASE UNCHANGED Audio!vars
    BY <1>11 DEF Audio!vars, CallersInv, AudioTypes, CallbackIsKept, ToldOnce,
                 Audio!HasCallback
  <1>12. ASSUME Audio!Next,
                \A f \in Item : ~(\/ Audio!Send(f) \/ Audio!Key(f) \/ Audio!GiveUp(f)
                                   \/ Audio!EndAir(f) \/ Audio!Complete(f)
                                   \/ Audio!SendAgain(f))
         PROVE  CallersInv'
    BY <1>6, <1>7, <1>8, <1>9, <1>10, <1>12 DEF Audio!Next
  <1>13. QED
    BY <1>1, <1>2, <1>3, <1>4, <1>5, <1>11, <1>12, CompleteKeeps

\* A caller is told once, and the truth, whichever thread had its frame when it
\* was transmitted, withdrawn, refused or stopped.
THEOREM CallersAreTold == Audio!Spec => []EveryCallerIsTold
  <1>1. Audio!Init => CallersInv
    <2>1. SUFFICES ASSUME Audio!Init PROVE CallersInv
      OBVIOUS
    <2>2. \A f \in Item : place[f] = "caller" /\ answers[f] = <<>>
      BY <2>1 DEF Audio!Init
    <2>3. AudioTypes
      <3>1. <<>> \in Seq(BOOLEAN) /\ "caller" \in Places
        BY DEF Places
      <3>2. QED  BY <2>1, <3>1 DEF Audio!Init, AudioTypes
    <2>4. \A f \in Item : CallbackIsKept(f) /\ ToldOnce(f)
      BY <2>1, <2>2 DEF Audio!Init, CallbackIsKept, ToldOnce, InHand
    <2>5. QED  BY <2>3, <2>4 DEF CallersInv
  <1>2. CallersInv => EveryCallerIsTold
    <2>1. SUFFICES ASSUME CallersInv, NEW f \in Item, Audio!HasCallback(f)
                   PROVE  answers[f] = IF place[f] = "over" THEN <<f \in aired>> ELSE <<>>
      BY DEF EveryCallerIsTold, Audio!EveryCallerIsTold
    <2>2. ToldOnce(f)
      BY <2>1 DEF CallersInv
    <2>3. CASE f \in aired
      <3>1. (f \in aired) = TRUE
        BY <2>3
      <3>2. QED  BY <2>1, <2>2, <3>1 DEF ToldOnce
    <2>4. CASE f \notin aired
      <3>1. (f \in aired) = FALSE
        BY <2>4
      <3>2. QED  BY <2>1, <2>2, <3>1 DEF ToldOnce
    <2>5. QED  BY <2>3, <2>4
  <1>3. QED  BY <1>1, <1>2, CallersKept, PTL DEF Audio!Spec

\* Nothing that is admitted can be pending once the payload has drained the card.
LEMMA CardKept == CardInv /\ [Audio!Next]_Audio!vars => CardInv'
  <1> SUFFICES ASSUME CardInv, [Audio!Next]_Audio!vars PROVE CardInv'
    OBVIOUS
  <1> USE DEF Audio!control
  <1>1. ASSUME NEW f \in Item, Audio!Send(f) \/ Audio!SendAgain(f) PROVE CardInv'
    <2>1. PICK callback : Audio!Take(f, callback)
      BY <1>1 DEF Audio!Send, Audio!SendAgain
    <2>2. UNCHANGED <<payload, suspended, shut>>
      BY <1>1, <2>1 DEF Audio!Take, Audio!Send, Audio!SendAgain
    <2>3. CASE payload = "owns"
      <3>1. Audio!Refuse(f, callback) \/ Audio!Hold(f, callback)
        BY <2>1, <2>3 DEF Audio!Take, CardInv
      <3>2. PICK p \in {"over", "held", "dropped"} : Audio!Move({f}, p)
        BY <3>1 DEF Audio!Refuse, Audio!Hold
      <3>3. Audio!Pending' = {}
        BY <2>3, <3>2 DEF CardInv, Audio!Pending, Audio!At, Audio!Move
      <3>4. QED  BY <2>2, <3>3 DEF CardInv
    <2>4. QED  BY <2>2, <2>3 DEF CardInv
  <1>2. ASSUME NEW f \in Item,
               Audio!Key(f) \/ Audio!GiveUp(f) \/ Audio!EndAir(f) \/ Audio!Complete(f)
        PROVE  CardInv'
    <2>1. UNCHANGED <<payload, suspended, shut>>
      BY <1>2 DEF Audio!Key, Audio!GiveUp, Audio!EndAir, Audio!Complete
    <2>2. place[f] \in {"worker", "air", "done"}
      BY <1>2 DEF Audio!Key, Audio!GiveUp, Audio!EndAir, Audio!Complete, Audio!MayKey
    <2>3. CASE payload = "owns"
      <3>1. place[f] = "done" /\ Audio!Complete(f)
        BY <1>2, <2>2, <2>3 DEF CardInv, Audio!Pending, Audio!At, Audio!Key, Audio!GiveUp,
                                Audio!EndAir, Audio!MayKey
      <3>2. Audio!Pending' = {}
        BY <2>3, <3>1 DEF CardInv, Audio!Pending, Audio!At, Audio!Move, Audio!Complete
      <3>3. QED  BY <2>1, <3>2 DEF CardInv
    <2>4. QED  BY <2>1, <2>3 DEF CardInv
  <1>3. CASE Audio!Discard
    <2>1. UNCHANGED <<payload, suspended, shut>>
      BY <1>3 DEF Audio!Discard
    <2>2. PICK gone : Audio!Move(gone, "over")
      BY <1>3 DEF Audio!Discard
    <2>3. Audio!Pending = {} => Audio!Pending' = {}
      BY <2>2 DEF Audio!Pending, Audio!At, Audio!Move
    <2>4. QED  BY <2>1, <2>3 DEF CardInv
  <1>4. CASE Audio!Stop
    <2>1. shut' /\ UNCHANGED payload
      BY <1>4 DEF Audio!Stop
    <2>2. PICK gone : Audio!Move(gone, "over")
      BY <1>4 DEF Audio!Stop
    <2>3. Audio!Pending = {} => Audio!Pending' = {}
      BY <2>2 DEF Audio!Pending, Audio!At, Audio!Move
    <2>4. QED  BY <2>1, <2>3 DEF CardInv
  <1>5. CASE Audio!Suspend
    BY <1>5 DEF CardInv, Audio!Suspend
  <1>6. CASE Audio!Drained
    BY <1>6 DEF CardInv, Audio!Drained, Audio!Idle, Audio!Pending, Audio!At
  <1>7. CASE Audio!NotDrained \/ Audio!Resume \/ Audio!Resumed
    BY <1>7 DEF CardInv, Audio!NotDrained, Audio!Resume, Audio!ResumeQueued, Audio!Resumed
  <1>8. CASE UNCHANGED Audio!vars
    BY <1>8 DEF CardInv, Audio!vars, Audio!Pending, Audio!At
  <1>9. QED
    BY <1>1, <1>2, <1>3, <1>4, <1>5, <1>6, <1>7, <1>8 DEF Audio!Next

\* While a payload has the sound card, nothing of the control channel is on the
\* air.
THEOREM CardIsThePayloads == Audio!Spec => []PayloadHasTheCard
  <1>1. Audio!Init => CardInv
    BY DEF Audio!Init, CardInv
  <1>2. CardInv => PayloadHasTheCard
    BY DEF CardInv, PayloadHasTheCard, Audio!PayloadHasTheCard, Audio!Pending
  <1>3. QED  BY <1>1, <1>2, CardKept, PTL DEF Audio!Spec

----------------------------------------------------------------------------
(* Auto Tune: a calibration is complete at both ends, or at neither.       *)

Status == [st : Lab!Resting \cup {"OFFERING", "APPROVAL", "PREPARING", "MEASURING", "REPORT"},
           id : Nat, initiator : BOOLEAN, pending : BOOLEAN, offers : Nat,
           cancel : BOOLEAN, turn : BOOLEAN, turns : Nat, done : BOOLEAN, dones : Nat,
           reverse : BOOLEAN, rxDone : BOOLEAN]
Job == [at : {"none", "probe", "flush", "sweep", "wait"}, id : Nat, tries : Nat,
        ready : BOOLEAN]
Token == [of : {"OFFER", "ACCEPT", "BUSY", "CANCEL", "PROBE", "REPORT", "TURN", "DONE",
                "COMPLETE"}, id : Nat]
LabTypes ==
    /\ lab \in [Station -> Status] /\ tx \in [Station -> Job]
    /\ rx \in [Station -> {"none", "starting", "listening"}]
    /\ air \in [Station -> Seq(Token)] /\ offered \in Nat
    /\ reported \in SUBSET (Station \X Nat) /\ agreed \in SUBSET Nat

\* What has happened: who offered a calibration, who began to sweep in it, who
\* began to listen, whose sweep was reported, and which are agreed on.
Past == [own : [Nat -> Station], began : SUBSET (Station \X Nat),
         met : SUBSET (Station \X Nat), reported : SUBSET (Station \X Nat),
         agreed : SUBSET Nat, offered : Nat]
Known(h) == h.reported = reported /\ h.agreed = agreed /\ h.offered = offered

BothDone(i, h) == \A t \in Station : <<t, i>> \in h.reported
\* A sweep is reported once the other has listened, which it does once the sweep
\* has begun; whoever answers begins when the other's sweep was reported.
PastOk(h) ==
    /\ h \in Past
    /\ \A s \in Station, i \in Nat :
         /\ <<s, i>> \in h.began => i \in 1..h.offered
         /\ <<s, i>> \in h.reported => <<Lab!Peer(s), i>> \in h.met
         /\ <<Lab!Peer(s), i>> \in h.met => <<s, i>> \in h.began
         /\ <<s, i>> \in h.began /\ h.own[i] # s => <<h.own[i], i>> \in h.reported
    /\ \A i \in h.agreed : BothDone(i, h)

\* A frame on its way to r says what is so, and what will not change.
TokenOk(r, f, h) ==
    /\ f.id \in 0..h.offered
    /\ f.of = "OFFER" => /\ f.id >= 1 /\ h.own[f.id] # r
                         /\ <<r, f.id>> \notin h.began /\ <<r, f.id>> \notin h.met
    /\ f.of = "PROBE" => <<Lab!Peer(r), f.id>> \in h.began
    /\ f.of = "REPORT" => <<Lab!Peer(r), f.id>> \in h.met
    /\ f.of = "TURN" => <<Lab!Peer(r), f.id>> \in h.reported
    /\ f.of = "DONE" => f.id = 0 \/ BothDone(f.id, h)
    /\ f.of = "COMPLETE" => f.id \in h.agreed
In(q) == {q[k] : k \in 1..Len(q)}
\* No offer follows what can only come after it.
InOrder(q) == \A j, k \in 1..Len(q) :
    j < k /\ q[k].of = "OFFER" /\ q[j].of \in {"PROBE", "TURN"} => q[j].id # q[k].id

StatusOk(s, l, h) ==
    /\ l.id \in 0..h.offered
    /\ l.id = 0 => ~l.initiator
    /\ l.id # 0 => (l.initiator <=> h.own[l.id] = s)
    /\ l.turn => l.initiator /\ <<s, l.id>> \in h.reported
    /\ l.done => ~l.initiator /\ (l.id = 0 \/ BothDone(l.id, h))
    /\ l.st = "OFFERING" => l.initiator /\ <<s, l.id>> \notin h.began
    /\ ~l.initiator /\ ~l.reverse => <<s, l.id>> \notin h.began
    /\ l.pending => /\ ~l.initiator /\ ~l.reverse /\ ~l.done /\ ~l.turn /\ l.id # 0
                    /\ l.st \in {"APPROVAL", "CANCELLED", "FAILED"}
                    /\ <<s, l.id>> \notin h.met
    /\ l.rxDone => <<s, l.id>> \in h.met
    /\ l.st = "COMPLETE" => IF l.initiator THEN BothDone(l.id, h) ELSE l.id \in h.agreed
\* A worker's calibration is its station's, or an older one.
JobsOk(s, l, t, r, h) ==
    /\ t.at # "none" => <<s, t.id>> \in h.began
    /\ t.at # "none" /\ <<s, l.id>> \in h.began => t.id = l.id
    /\ t.ready => t.at = "wait" /\ l.id \in {t.id, 0} /\ <<Lab!Peer(s), t.id>> \in h.met
    /\ r # "none" => <<s, l.id>> \in h.met
\* Nobody has measured a sweep that is still to come.
ToSweep(t) == t.at \in {"probe", "flush", "sweep"}
StillToCome(t, l, q) == ToSweep(t) =>
    /\ ~(l.rxDone /\ l.id = t.id)
    /\ \A f \in In(q) : f.of = "REPORT" => f.id # t.id

StationOk(s, h) ==
    /\ StatusOk(s, lab[s], h) /\ JobsOk(s, lab[s], tx[s], rx[s], h)
    /\ \A f \in In(air[s]) : TokenOk(s, f, h)
    /\ InOrder(air[s]) /\ StillToCome(tx[s], lab[Lab!Peer(s)], air[s])
Consistent(h) == PastOk(h) /\ \A s \in Station : StationOk(s, h)
LabInv == LabTypes /\ \E h \in Past : Known(h) /\ Consistent(h)

\* The other one of two.
LEMMA PeerIsOther ==
    ASSUME Lab!LabAssumption, NEW s \in Station
    PROVE  /\ Lab!Peer(s) \in Station /\ Lab!Peer(s) # s /\ Lab!Peer(Lab!Peer(s)) = s
           /\ \A t \in Station : t = s \/ t = Lab!Peer(s)
  <1>1. PICK a, b \in Station : a # b /\ Station = {a, b}
    BY DEF Lab!LabAssumption
  <1>2. \E p \in Station : p # s
    BY <1>1
  <1>3. Lab!Peer(s) \in Station /\ Lab!Peer(s) # s
    BY <1>2 DEF Lab!Peer
  <1>4. \E p \in Station : p # Lab!Peer(s)
    BY <1>3
  <1>5. Lab!Peer(Lab!Peer(s)) \in Station /\ Lab!Peer(Lab!Peer(s)) # Lab!Peer(s)
    BY <1>4 DEF Lab!Peer
  <1> QED
    BY <1>1, <1>3, <1>5

\* A frame is put behind the others.
LEMMA AppendKeeps ==
    ASSUME NEW q \in Seq(Token), NEW f \in Token
    PROVE  /\ Append(q, f) \in Seq(Token) /\ In(Append(q, f)) = In(q) \cup {f}
           /\ InOrder(q) /\ (f.of = "OFFER" =>
                \A g \in In(q) : g.of \in {"PROBE", "TURN"} => g.id # f.id)
              => InOrder(Append(q, f))
  <1>1. /\ Append(q, f) \in Seq(Token) /\ Len(Append(q, f)) = Len(q) + 1 /\ Len(q) \in Nat
        /\ Append(q, f)[Len(q) + 1] = f
        /\ \A k \in 1..Len(q) : Append(q, f)[k] = q[k]
    OBVIOUS
  <1>2. In(Append(q, f)) = In(q) \cup {f}
    <2>1. \A g \in In(Append(q, f)) : g \in In(q) \cup {f}
      BY <1>1 DEF In
    <2>2. \A g \in In(q) \cup {f} : g \in In(Append(q, f))
      BY <1>1 DEF In
    <2> QED
      BY <2>1, <2>2
  <1>3. ASSUME InOrder(q),
               f.of = "OFFER" => \A g \in In(q) : g.of \in {"PROBE", "TURN"} => g.id # f.id
        PROVE  InOrder(Append(q, f))
    <2> SUFFICES ASSUME NEW j \in 1..(Len(q) + 1), NEW k \in 1..(Len(q) + 1), j < k,
                        Append(q, f)[k].of = "OFFER",
                        Append(q, f)[j].of \in {"PROBE", "TURN"}
                 PROVE  Append(q, f)[j].id # Append(q, f)[k].id
      BY <1>1 DEF InOrder
    <2>1. j \in 1..Len(q) /\ q[j] \in In(q) /\ Append(q, f)[j] = q[j]
      BY <1>1 DEF In
    <2>2. CASE k \in 1..Len(q)
      BY <1>1, <1>3, <2>1, <2>2 DEF InOrder
    <2>3. CASE k = Len(q) + 1
      BY <1>1, <1>3, <2>1, <2>3
    <2> QED
      BY <1>1, <2>2, <2>3
  <1> QED
    BY <1>1, <1>2, <1>3

\* The first frame is taken away, and no offer of what it says is behind it.
LEMMA TailKeeps ==
    ASSUME NEW q \in Seq(Token), q # <<>>
    PROVE  /\ Tail(q) \in Seq(Token) /\ In(Tail(q)) \subseteq In(q)
           /\ Head(q) \in In(q) /\ Head(q) \in Token
           /\ InOrder(q) =>
                /\ InOrder(Tail(q))
                /\ Head(q).of \in {"PROBE", "TURN"} =>
                     \A g \in In(Tail(q)) : g.of = "OFFER" => g.id # Head(q).id
  <1>1. /\ Tail(q) \in Seq(Token) /\ Len(q) \in Nat /\ Len(q) >= 1
        /\ Len(Tail(q)) = Len(q) - 1 /\ Head(q) = q[1]
        /\ \A k \in 1..Len(Tail(q)) : Tail(q)[k] = q[k + 1]
    OBVIOUS
  <1>2. \A k \in 1..Len(Tail(q)) : k + 1 \in 1..Len(q) /\ k \in Nat
    BY <1>1
  <1>3. In(Tail(q)) \subseteq In(q)
    BY <1>1, <1>2 DEF In
  <1>4. 1 \in 1..Len(q)
    BY <1>1
  <1>5. Head(q) \in In(q)
    BY <1>1, <1>4 DEF In
  <1>6. Head(q) \in Token
    BY <1>1, <1>4
  <1>7. ASSUME InOrder(q) PROVE InOrder(Tail(q))
    <2> SUFFICES ASSUME NEW j \in 1..Len(Tail(q)), NEW k \in 1..Len(Tail(q)), j < k,
                        Tail(q)[k].of = "OFFER", Tail(q)[j].of \in {"PROBE", "TURN"}
                 PROVE  Tail(q)[j].id # Tail(q)[k].id
      BY DEF InOrder
    <2>1. j + 1 \in 1..Len(q) /\ k + 1 \in 1..Len(q) /\ j + 1 < k + 1
      BY <1>2
    <2> QED
      BY <1>1, <1>7, <2>1 DEF InOrder
  <1>8. ASSUME InOrder(q), Head(q).of \in {"PROBE", "TURN"},
               NEW g \in In(Tail(q)), g.of = "OFFER"
        PROVE  g.id # Head(q).id
    <2>1. PICK k \in 1..Len(Tail(q)) : g = Tail(q)[k]
      BY DEF In
    <2>2. k + 1 \in 1..Len(q) /\ 1 < k + 1 /\ g = q[k + 1]
      BY <1>1, <1>2, <2>1
    <2> QED
      BY <1>1, <1>4, <1>8, <2>2 DEF InOrder
  <1> QED
    BY <1>1, <1>3, <1>5, <1>6, <1>7, <1>8

\* More has happened, and all of it to s.
Grows(s, h, g) ==
    /\ g \in Past /\ h.offered <= g.offered
    /\ \A i \in 0..h.offered : g.own[i] = h.own[i]
    /\ h.began \subseteq g.began /\ h.met \subseteq g.met
    /\ h.reported \subseteq g.reported /\ h.agreed \subseteq g.agreed
    /\ \A i \in Nat : /\ <<Lab!Peer(s), i>> \in g.began => <<Lab!Peer(s), i>> \in h.began
                      /\ <<Lab!Peer(s), i>> \in g.met => <<Lab!Peer(s), i>> \in h.met

LEMMA NothingGrows ==
    ASSUME NEW s \in Station, NEW h \in Past
    PROVE  Grows(s, h, h)
  BY DEF Grows, Past

\* What a frame says stays true; an offer, while its receiver has not begun.
LEMMA TokenStays ==
    ASSUME NEW s, NEW r, NEW h \in Past, NEW g, Grows(s, h, g), NEW f \in Token, TokenOk(r, f, h),
           f.of = "OFFER" => <<r, f.id>> \notin g.began /\ <<r, f.id>> \notin g.met
    PROVE  TokenOk(r, f, g)
  <1>1. /\ f.id \in Nat /\ h.offered \in Nat /\ g.offered \in Nat
        /\ h.offered <= g.offered /\ h.began \subseteq g.began /\ h.met \subseteq g.met
        /\ h.reported \subseteq g.reported /\ h.agreed \subseteq g.agreed
        /\ \A i \in 0..h.offered : g.own[i] = h.own[i]
    BY DEF Grows, Past, Token
  <1>2. BothDone(f.id, h) => BothDone(f.id, g)
    BY <1>1 DEF BothDone
  <1>3. f.id \in 0..h.offered /\ f.id \in 0..g.offered
    BY <1>1 DEF TokenOk
  <1> QED
    BY <1>1, <1>2, <1>3 DEF TokenOk

\* So does what the other station is in.
LEMMA PeerStays ==
    ASSUME Lab!LabAssumption, NEW s \in Station, NEW h \in Past, NEW g, Grows(s, h, g),
           NEW p, p = Lab!Peer(s), NEW l \in Status, NEW t \in Job, NEW r
    PROVE  /\ StatusOk(p, l, h) => StatusOk(p, l, g)
           /\ JobsOk(p, l, t, r, h) => JobsOk(p, l, t, r, g)
  <1>1. /\ l.id \in Nat /\ t.id \in Nat /\ h.offered \in Nat /\ g.offered \in Nat
        /\ h.offered <= g.offered /\ h.began \subseteq g.began /\ h.met \subseteq g.met
        /\ h.reported \subseteq g.reported /\ h.agreed \subseteq g.agreed
        /\ \A i \in 0..h.offered : g.own[i] = h.own[i]
        /\ \A i \in Nat : /\ <<p, i>> \in g.began => <<p, i>> \in h.began
                          /\ <<p, i>> \in g.met => <<p, i>> \in h.met
    BY DEF Grows, Past, Status, Job
  <1>2. BothDone(l.id, h) => BothDone(l.id, g)
    BY <1>1 DEF BothDone
  <1>3. ASSUME StatusOk(p, l, h) PROVE StatusOk(p, l, g)
    <2>1. l.id \in 0..h.offered /\ l.id \in 0..g.offered
      BY <1>1, <1>3 DEF StatusOk
    <2>2. <<p, l.id>> \in g.began => <<p, l.id>> \in h.began
      BY <1>1
    <2>3. <<p, l.id>> \in g.met => <<p, l.id>> \in h.met
      BY <1>1
    <2> QED
      BY <1>1, <1>2, <1>3, <2>1, <2>2, <2>3 DEF StatusOk
  <1>4. ASSUME JobsOk(p, l, t, r, h) PROVE JobsOk(p, l, t, r, g)
    BY <1>1, <1>4 DEF JobsOk
  <1> QED
    BY <1>3, <1>4

\* One station s takes a step, and its peer p is sent a frame, or nothing.
LEMMA OneMoves ==
    ASSUME Lab!LabAssumption, LabTypes, LabTypes', NEW s \in Station, NEW p, p = Lab!Peer(s),
           NEW h \in Past, Consistent(h), NEW g, Grows(s, h, g), PastOk(g), Known(g)',
           lab'[p] = lab[p], tx'[p] = tx[p], rx'[p] = rx[p],
           StatusOk(s, lab'[s], g), JobsOk(s, lab'[s], tx'[s], rx'[s], g),
           \A f \in In(air'[p]) : f \in In(air[p]) \/ TokenOk(p, f, g),
           \A f \in In(air'[s]) : TokenOk(s, f, g),
           InOrder(air'[s]), InOrder(air'[p]),
           StillToCome(tx'[s], lab[p], air'[s]), StillToCome(tx[p], lab'[s], air'[p])
    PROVE  LabInv'
  <1>1. /\ p \in Station /\ p # s /\ Lab!Peer(p) = s
        /\ \A t \in Station : t = s \/ t = p
    BY PeerIsOther
  <1>2. lab[p] \in Status /\ tx[p] \in Job /\ StationOk(p, h)
    BY <1>1 DEF LabTypes, Consistent
  <1>3. StatusOk(p, lab[p], g) /\ JobsOk(p, lab[p], tx[p], rx[p], g)
    BY <1>2, PeerStays DEF StationOk
  <1>4. ASSUME NEW f \in In(air[p]) PROVE TokenOk(p, f, g)
    <2>1. f \in Token
      <3>1. air[p] \in Seq(Token)
        BY <1>1 DEF LabTypes
      <3> QED
        BY <3>1 DEF In
    <2>2. TokenOk(p, f, h)
      BY <1>2 DEF StationOk
    <2>3. f.id \in Nat
      BY <2>1 DEF Token
    <2>4. f.of = "OFFER" => <<p, f.id>> \notin g.began /\ <<p, f.id>> \notin g.met
      BY <2>2, <2>3 DEF TokenOk, Grows
    <2> QED
      BY <2>1, <2>2, <2>4, TokenStays
  <1>5. StationOk(p, g)'
    BY <1>1, <1>3, <1>4 DEF StationOk
  <1>6. StationOk(s, g)'
    BY <1>1 DEF StationOk
  <1>7. g \in Past
    BY DEF Grows
  <1>8. Consistent(g)'
    BY <1>1, <1>5, <1>6 DEF Consistent
  <1> QED
    BY <1>7, <1>8 DEF LabInv

LEMMA LabTypesKept == ASSUME Lab!LabAssumption, LabTypes, Lab!Next PROVE LabTypes'
  <1>1. PICK s \in Station :
          \/ Lab!Start(s) \/ Lab!Accept(s) \/ Lab!Reject(s) \/ Lab!Cancel(s) \/ Lab!Tick(s)
          \/ Lab!Hear(s) \/ Lab!Miss(s) \/ Lab!Work(s) \/ Lab!Listen(s) \/ Lab!Measure(s)
    BY DEF Lab!Next
  <1> DEFINE p == Lab!Peer(s)
  <1>2. p \in Station
    BY PeerIsOther
  <1>3. /\ lab[s] \in Status /\ tx[s] \in Job /\ air[s] \in Seq(Token) /\ air[p] \in Seq(Token)
        /\ lab[s].id \in Nat /\ tx[s].id \in Nat /\ offered \in Nat
    BY <1>2 DEF LabTypes, Status, Job
  <1>4. \A i \in Nat : \A name \in {"OFFER", "ACCEPT", "BUSY", "CANCEL", "PROBE", "REPORT",
                                  "TURN", "DONE", "COMPLETE"} :
          Lab!Frame(name, i) \in Token
    BY DEF Lab!Frame, Token
  <1>5. \A f \in Token : Lab!Sent(s, f) \in [Station -> Seq(Token)]
    BY <1>2, <1>3, AppendKeeps DEF LabTypes, Lab!Sent
  <1>6. air[s] # <<>> => /\ Lab!Taken(s) \in [Station -> Seq(Token)]
                         /\ Head(air[s]) \in Token
                         /\ \A f \in Token : Lab!Answered(s, f) \in [Station -> Seq(Token)]
    BY <1>2, <1>3, AppendKeeps, TailKeeps, PeerIsOther DEF LabTypes, Lab!Taken, Lab!Answered
  <1>7. \A l \in Status : Lab!Put(s, l) => lab' \in [Station -> Status]
    BY DEF LabTypes, Lab!Put
  <1>8. \A i \in Nat, st \in {"OFFERING", "APPROVAL"}, b \in BOOLEAN :
          Lab!Fresh(i, st, b) \in Status
    BY DEF Lab!Fresh, Status
  <1>9. \A l \in Status, st \in {"FAILED", "CANCELLED"} : Lab!Cancelled(l, st) \in Status
    BY DEF Lab!Cancelled, Status, Lab!Resting
  <1>10. CASE Lab!Start(s)
    <2>1. [Lab!Fresh(offered + 1, "OFFERING", TRUE) EXCEPT !.offers = 1] \in Status
      <3>1. offered + 1 \in Nat
        BY <1>3
      <3>2. Lab!Fresh(offered + 1, "OFFERING", TRUE) \in Status
        BY <1>8, <3>1
      <3> QED
        BY <3>2 DEF Status
    <2>2. offered + 1 \in Nat
      BY <1>3
    <2>3. lab' \in [Station -> Status]
      BY <1>7, <1>10, <2>1 DEF Lab!Start
    <2>4. air' \in [Station -> Seq(Token)]
      BY <1>4, <1>5, <1>10, <2>2 DEF Lab!Start
    <2>5. offered' \in Nat /\ UNCHANGED <<tx, rx, reported, agreed>>
      BY <1>10, <2>2 DEF Lab!Start, Lab!jobs
    <2> QED
      BY <2>3, <2>4, <2>5 DEF LabTypes
  <1>11. CASE Lab!Accept(s)
    <2>1. [lab[s] EXCEPT !.pending = FALSE, !.st = "PREPARING"] \in Status
      BY <1>3 DEF Status
    <2> QED
      BY <1>3, <1>4, <1>5, <1>7, <1>11, <2>1 DEF Lab!Accept, LabTypes, Lab!jobs, Lab!bounds
  <1>12. CASE Lab!Reject(s)
    <2>1. [lab[s] EXCEPT !.pending = FALSE, !.st = "IDLE", !.id = 0] \in Status
      BY <1>3 DEF Status, Lab!Resting
    <2> QED
      BY <1>3, <1>4, <1>5, <1>7, <1>12, <2>1 DEF Lab!Reject, LabTypes, Lab!jobs, Lab!bounds
  <1>13. CASE Lab!Cancel(s)
    BY <1>3, <1>4, <1>5, <1>7, <1>9, <1>13 DEF Lab!Cancel, LabTypes, Lab!jobs
  <1>14. CASE Lab!Tick(s)
    <2>1. /\ [lab[s] EXCEPT !.turns = @ + 1] \in Status
          /\ [lab[s] EXCEPT !.dones = @ + 1] \in Status
          /\ [lab[s] EXCEPT !.offers = @ + 1] \in Status
      <3>1. /\ lab[s].turns + 1 \in Nat /\ lab[s].dones + 1 \in Nat
            /\ lab[s].offers + 1 \in Nat
        BY <1>3 DEF Status
      <3>2. [lab[s] EXCEPT !.turns = @ + 1] \in Status
        BY <1>3, <3>1 DEF Status
      <3>3. [lab[s] EXCEPT !.dones = @ + 1] \in Status
        BY <1>3, <3>1 DEF Status
      <3>4. [lab[s] EXCEPT !.offers = @ + 1] \in Status
        BY <1>3, <3>1 DEF Status
      <3> QED
        BY <3>2, <3>3, <3>4
    <2>2. /\ [[lab[s] EXCEPT !.turn = FALSE] EXCEPT !.st = "FAILED"] \in Status
          /\ [[lab[s] EXCEPT !.done = FALSE] EXCEPT !.st = "FAILED"] \in Status
          /\ [lab[s] EXCEPT !.st = "FAILED"] \in Status
      BY <1>3 DEF Status, Lab!Resting
    <2>3. \A l \in Status : l.id \in Nat
      BY DEF Status
    <2>4. /\ \A l \in Status, name \in {"OFFER", "TURN", "DONE"} :
               Lab!Repeat(s, l, name) => lab' \in [Station -> Status]
                                       /\ air' \in [Station -> Seq(Token)]
          /\ \A l : [l EXCEPT !.st = "FAILED"] \in Status /\ l.id \in Nat /\ Lab!GiveUp(s, l)
               => lab' \in [Station -> Status] /\ air' \in [Station -> Seq(Token)]
      BY <1>4, <1>5, <1>7, <2>3 DEF Lab!Repeat, Lab!GiveUp
    <2>5. /\ [lab[s] EXCEPT !.turn = FALSE].id \in Nat
          /\ [lab[s] EXCEPT !.done = FALSE].id \in Nat
      BY <1>3 DEF Status
    <2>6. lab' \in [Station -> Status] /\ air' \in [Station -> Seq(Token)]
      BY <1>3, <1>14, <2>1, <2>2, <2>4, <2>5 DEF Lab!Tick
    <2> QED
      BY <1>14, <2>6 DEF Lab!Tick, LabTypes, Lab!jobs, Lab!bounds
  <1>15. CASE Lab!Hear(s)
    <2> DEFINE f == Head(air[s])
               l == lab[s]
    <2>1. f \in Token /\ f.id \in Nat /\ Lab!Taken(s) \in [Station -> Seq(Token)]
      BY <1>6, <1>15 DEF Lab!Hear, Token
    <2>2. \A g \in Token : Lab!Answered(s, g) \in [Station -> Seq(Token)]
      BY <1>6, <1>15 DEF Lab!Hear
    <2>3. Lab!Run(s) => tx' \in [Station -> Job]
      <3>1. [Lab!NoJob EXCEPT !.at = "probe", !.id = lab[s].id] \in Job
        BY <1>3 DEF Lab!NoJob, Job
      <3> QED
        BY <3>1 DEF Lab!Run, LabTypes
    <2>4. CASE f.of = "OFFER" /\ Lab!HearOffer(s, f)
      <3>1. [Lab!Fresh(f.id, "APPROVAL", FALSE) EXCEPT !.pending = FALSE, !.st = "PREPARING"]
              \in Status
        BY <2>1 DEF Lab!Fresh, Status
      <3> QED
        BY <1>4, <1>7, <1>8, <1>15, <2>1, <2>2, <2>4, <3>1
        DEF Lab!HearOffer, Lab!Hear, LabTypes, Lab!bounds
    <2>5. CASE f.id # l.id /\ air' = Lab!Taken(s) /\ UNCHANGED <<lab, tx, rx, agreed>>
      BY <1>15, <2>1, <2>5 DEF Lab!Hear, LabTypes, Lab!bounds
    <2>6. CASE Lab!HearAccept(s)
      <3>1. /\ [l EXCEPT !.st = "PREPARING", !.offers = 0] \in Status
            /\ [l EXCEPT !.st = "FAILED", !.offers = 0] \in Status
        BY <1>3 DEF Status, Lab!Resting
      <3> QED
        BY <1>7, <1>15, <2>1, <2>3, <2>6, <3>1
        DEF Lab!HearAccept, Lab!Hear, LabTypes, Lab!bounds
    <2>7. CASE Lab!HearProbe(s)
      <3> DEFINE m == [l EXCEPT !.turn = @ /\ ~l.initiator]
      <3>1. m \in Status /\ [m EXCEPT !.st = "MEASURING"] \in Status /\ m.id \in Nat
        BY <1>3 DEF Status
      <3>2. lab' \in [Station -> Status] /\ air' \in [Station -> Seq(Token)]
            /\ rx' \in [Station -> {"none", "starting", "listening"}]
        BY <1>4, <1>7, <2>1, <2>2, <2>7, <3>1 DEF Lab!HearProbe, LabTypes
      <3> QED
        BY <1>15, <2>7, <3>2 DEF Lab!HearProbe, Lab!Hear, LabTypes, Lab!bounds
    <2>8. CASE Lab!HearReport(s)
      <3>1. tx' \in [Station -> Job]
        BY <1>3, <2>8 DEF Lab!HearReport, LabTypes, Job
      <3> QED
        BY <1>15, <2>1, <2>8, <3>1 DEF Lab!HearReport, Lab!Hear, LabTypes, Lab!bounds
    <2>9. CASE Lab!HearEnd(s, "FAILED") \/ Lab!HearEnd(s, "CANCELLED")
      BY <1>3, <1>7, <1>9, <1>15, <2>1, <2>9 DEF Lab!HearEnd, Lab!Hear, LabTypes, Lab!bounds
    <2>10. CASE Lab!HearMarker(s, f)
      <3>1. /\ [l EXCEPT !.reverse = TRUE, !.st = "PREPARING"] \in Status
            /\ [l EXCEPT !.turn = FALSE, !.st = "COMPLETE"] \in Status
            /\ [l EXCEPT !.done = FALSE, !.st = "COMPLETE"] \in Status
            /\ [l EXCEPT !.turn = FALSE, !.done = FALSE, !.st = "FAILED"] \in Status
        BY <1>3 DEF Status, Lab!Resting
      <3>2. lab' \in [Station -> Status] /\ air' \in [Station -> Seq(Token)]
            /\ tx' \in [Station -> Job] /\ agreed' \in SUBSET Nat
        BY <1>3, <1>4, <1>7, <2>1, <2>2, <2>3, <2>10, <3>1 DEF Lab!HearMarker, LabTypes
      <3>3. rx' = rx
        BY <2>10 DEF Lab!HearMarker
      <3> QED
        BY <1>15, <3>2, <3>3 DEF Lab!Hear, LabTypes, Lab!bounds
    <2> QED
      BY <1>15, <2>4, <2>5, <2>6, <2>7, <2>8, <2>9, <2>10 DEF Lab!Hear
  <1>16. CASE Lab!Miss(s)
    BY <1>6, <1>16 DEF Lab!Miss, LabTypes, Lab!jobs
  <1>17. CASE Lab!Work(s)
    <2>1. /\ \A st \in {"MEASURING", "REPORT"} : Lab!Of(s, lab[s], st) \in Status
          /\ [lab[s] EXCEPT !.st = "FAILED"] \in Status
      <3>1. \A l \in Status, st \in {"MEASURING", "REPORT", "FAILED"} :
              [l EXCEPT !.st = st] \in Status
        BY DEF Status, Lab!Resting
      <3> QED
        BY <1>3, <3>1 DEF Lab!Of
    <2>2. \A at \in {"flush", "sweep", "wait"} : Lab!Step(s, at) => tx' \in [Station -> Job]
      <3>1. \A at \in {"flush", "sweep", "wait"} : [tx[s] EXCEPT !.at = at] \in Job
        BY <1>3 DEF Job
      <3> QED
        BY <3>1 DEF Lab!Step, LabTypes
    <2>3. Lab!Leaves(s) => tx' \in [Station -> Job]
      BY DEF Lab!Leaves, Lab!NoJob, LabTypes, Job
    <2>4. CASE Lab!Probe(s)
      BY <1>3, <1>4, <1>5, <1>7, <2>1, <2>2, <2>4 DEF Lab!Probe, LabTypes, Lab!bounds
    <2>5. CASE Lab!Sweep(s)
      <3>1. CASE Lab!Step(s, "sweep") /\ UNCHANGED <<lab, air>>
        BY <2>2, <2>5, <3>1 DEF Lab!Sweep, LabTypes, Lab!bounds
      <3>2. CASE Lab!NoReport(s)
        <4>1. lab' \in [Station -> Status] /\ air' \in [Station -> Seq(Token)]
          BY <1>3, <1>4, <1>5, <1>7, <2>1, <3>2 DEF Lab!NoReport, LabTypes
        <4>2. tx' \in [Station -> Job]
          BY <2>3, <3>2 DEF Lab!NoReport
        <4> QED
          BY <2>5, <4>1, <4>2 DEF Lab!Sweep, LabTypes, Lab!bounds
      <3> QED
        BY <2>5, <3>1, <3>2 DEF Lab!Sweep
    <2>6. CASE Lab!Swept(s)
      BY <1>3, <1>4, <1>5, <1>7, <2>1, <2>2, <2>3, <2>6
      DEF Lab!Swept, Lab!NoReport, LabTypes
    <2>7. CASE Lab!Reported(s)
      <3> DEFINE m == IF lab[s].initiator THEN [lab[s] EXCEPT !.turn = TRUE, !.turns = 1]
                      ELSE [lab[s] EXCEPT !.done = TRUE, !.dones = 1]
      <3>1. m \in Status
        BY <1>3 DEF Status
      <3>2. Lab!Outcome(m) \in {"CANCELLED", "PREPARING", "COMPLETE"}
        BY DEF Lab!Outcome
      <3>3. [m EXCEPT !.st = Lab!Outcome(m)] \in Status
            /\ [m EXCEPT !.st = Lab!Outcome(m)].id \in Nat
        <4>1. \A w \in Status, st \in {"CANCELLED", "PREPARING", "COMPLETE"} :
                [w EXCEPT !.st = st] \in Status /\ [w EXCEPT !.st = st].id \in Nat
          BY DEF Status, Lab!Resting
        <4> HIDE DEF m
        <4> QED
          BY <3>1, <3>2, <4>1
      <3>4. Lab!Repeat(s, [m EXCEPT !.st = Lab!Outcome(m)],
                       IF m.initiator THEN "TURN" ELSE "DONE")
        BY <2>7 DEF Lab!Reported
      <3>5. lab' \in [Station -> Status] /\ air' \in [Station -> Seq(Token)]
        BY <1>4, <1>5, <1>7, <3>3, <3>4 DEF Lab!Repeat
      <3>6. reported' \in SUBSET (Station \X Nat)
        BY <1>3, <2>7 DEF Lab!Reported, LabTypes
      <3>7. tx' \in [Station -> Job] /\ UNCHANGED <<rx, offered, agreed>>
        BY <2>3, <2>7 DEF Lab!Reported, Lab!bounds
      <3> QED
        BY <3>5, <3>6, <3>7 DEF LabTypes
    <2>8. CASE Lab!Unreported(s)
      <3>1. [tx EXCEPT ![s].tries = @ + 1] \in [Station -> Job]
        <4>1. tx[s].tries + 1 \in Nat
          BY <1>3 DEF Job
        <4>2. [tx[s] EXCEPT !.tries = @ + 1] \in Job
          BY <1>3, <4>1 DEF Job
        <4> QED
          BY <4>2 DEF LabTypes
      <3> QED
        BY <1>3, <1>4, <1>5, <1>7, <2>1, <2>3, <2>8, <3>1
        DEF Lab!Unreported, Lab!NoReport, LabTypes, Lab!bounds
    <2> QED
      BY <1>17, <2>4, <2>5, <2>6, <2>7, <2>8 DEF Lab!Work
  <1>18. CASE Lab!Listen(s)
    BY <1>18 DEF Lab!Listen, LabTypes, Lab!bounds
  <1>19. CASE Lab!Measure(s)
    <2>1. \A b \in BOOLEAN :
            [lab[s] EXCEPT !.st = "PREPARING", !.rxDone = @ \/ b] \in Status
      BY <1>3 DEF Status
    <2> QED
      BY <1>3, <1>4, <1>5, <1>7, <1>19, <2>1 DEF Lab!Measure, LabTypes
  <1> QED
    BY <1>1, <1>10, <1>11, <1>12, <1>13, <1>14, <1>15, <1>16, <1>17, <1>18, <1>19

\* What a step of s starts from.
Before(s, p, h) ==
    /\ Lab!LabAssumption /\ LabTypes /\ LabTypes' /\ s \in Station /\ p = Lab!Peer(s)
    /\ h \in Past /\ Known(h) /\ Consistent(h)

LEMMA BeforeFacts ==
    ASSUME NEW s, NEW p, NEW h, Before(s, p, h)
    PROVE  /\ p \in Station /\ p # s /\ Lab!Peer(p) = s /\ Lab!Peer(s) = p
           /\ \A t \in Station : t = s \/ t = p
           /\ lab[s] \in Status /\ lab[p] \in Status /\ tx[s] \in Job /\ tx[p] \in Job
           /\ air[s] \in Seq(Token) /\ air[p] \in Seq(Token)
           /\ In(air[s]) \subseteq Token /\ In(air[p]) \subseteq Token
           /\ PastOk(h) /\ Grows(s, h, h) /\ offered = h.offered /\ offered \in Nat
           /\ StatusOk(s, lab[s], h) /\ StatusOk(p, lab[p], h)
           /\ JobsOk(s, lab[s], tx[s], rx[s], h) /\ JobsOk(p, lab[p], tx[p], rx[p], h)
           /\ \A f \in In(air[s]) : TokenOk(s, f, h)
           /\ \A f \in In(air[p]) : TokenOk(p, f, h)
           /\ InOrder(air[s]) /\ InOrder(air[p])
           /\ StillToCome(tx[s], lab[p], air[s]) /\ StillToCome(tx[p], lab[s], air[p])
  <1>1. /\ p \in Station /\ p # s /\ Lab!Peer(p) = s /\ Lab!Peer(s) = p /\ s \in Station
        /\ \A t \in Station : t = s \/ t = p
    BY PeerIsOther DEF Before
  <1>2. /\ lab[s] \in Status /\ lab[p] \in Status /\ tx[s] \in Job /\ tx[p] \in Job
        /\ air[s] \in Seq(Token) /\ air[p] \in Seq(Token) /\ offered \in Nat
    BY <1>1 DEF Before, LabTypes
  <1>3. In(air[s]) \subseteq Token /\ In(air[p]) \subseteq Token
    BY <1>2 DEF In
  <1>4. StationOk(s, h) /\ StationOk(p, h) /\ PastOk(h) /\ offered = h.offered
    BY <1>1 DEF Before, Consistent, Known
  <1>5. Grows(s, h, h)
    BY <1>1, NothingGrows DEF Before
  <1> QED
    BY <1>1, <1>2, <1>3, <1>4, <1>5 DEF StationOk

\* A step after which nothing more has happened.
LEMMA StepKeeps ==
    ASSUME NEW s, NEW p, NEW h, Before(s, p, h),
           lab'[p] = lab[p], tx'[p] = tx[p], rx'[p] = rx[p],
           UNCHANGED <<offered, reported, agreed>>,
           StatusOk(s, lab'[s], h), JobsOk(s, lab'[s], tx'[s], rx'[s], h),
           \A f \in In(air'[p]) : f \in In(air[p]) \/ TokenOk(p, f, h),
           \A f \in In(air'[s]) : TokenOk(s, f, h),
           InOrder(air'[s]), InOrder(air'[p]),
           StillToCome(tx'[s], lab[p], air'[s]), StillToCome(tx[p], lab'[s], air'[p])
    PROVE  LabInv'
  <1>1. Known(h)'
    BY DEF Before, Known
  <1> QED
    BY <1>1, BeforeFacts, OneMoves DEF Before

\* What becomes of the frames of s and p.
LEMMA SentFacts ==
    ASSUME NEW s, NEW p, NEW h, Before(s, p, h), NEW f \in Token, air' = Lab!Sent(s, f)
    PROVE  /\ air'[s] = air[s] /\ In(air'[p]) = In(air[p]) \cup {f}
           /\ (f.of = "OFFER" =>
                \A g \in In(air[p]) : g.of \in {"PROBE", "TURN"} => g.id # f.id)
              => InOrder(air'[p])
  <1>1. air'[s] = air[s] /\ air'[p] = Append(air[p], f)
    BY BeforeFacts DEF Before, LabTypes, Lab!Sent
  <1> QED
    BY <1>1, BeforeFacts, AppendKeeps

LEMMA TakenFacts ==
    ASSUME NEW s, NEW p, NEW h, Before(s, p, h), air[s] # <<>>, air' = Lab!Taken(s)
    PROVE  /\ air'[p] = air[p] /\ In(air'[s]) \subseteq In(air[s])
           /\ InOrder(air'[s]) /\ InOrder(air'[p])
           /\ Head(air[s]).of \in {"PROBE", "TURN"} =>
                \A g \in In(air'[s]) : g.of = "OFFER" => g.id # Head(air[s]).id
  <1>1. air'[p] = air[p] /\ air'[s] = Tail(air[s])
    BY BeforeFacts DEF Before, LabTypes, Lab!Taken
  <1> QED
    BY <1>1, BeforeFacts, TailKeeps

LEMMA AnsweredFacts ==
    ASSUME NEW s, NEW p, NEW h, Before(s, p, h), air[s] # <<>>, NEW f \in Token,
           f.of # "OFFER", air' = Lab!Answered(s, f)
    PROVE  /\ In(air'[p]) = In(air[p]) \cup {f} /\ In(air'[s]) \subseteq In(air[s])
           /\ InOrder(air'[s]) /\ InOrder(air'[p])
  <1>1. air'[p] = Append(air[p], f) /\ air'[s] = Tail(air[s])
    BY BeforeFacts DEF Before, LabTypes, Lab!Answered
  <1> QED
    BY <1>1, BeforeFacts, AppendKeeps, TailKeeps

\* Frames that say nothing of what has happened.
LEMMA PlainToken ==
    ASSUME NEW r, NEW h, NEW i \in 0..h.offered, NEW name \in {"ACCEPT", "BUSY", "CANCEL"}
    PROVE  TokenOk(r, Lab!Frame(name, i), h)
  BY DEF TokenOk, Lab!Frame

LEMMA FrameIsToken ==
    \A i \in Nat : \A name \in {"OFFER", "ACCEPT", "BUSY", "CANCEL", "PROBE", "REPORT",
                              "TURN", "DONE", "COMPLETE"} :
      /\ Lab!Frame(name, i) \in Token /\ Lab!Frame(name, i).of = name
      /\ Lab!Frame(name, i).id = i
  BY DEF Lab!Frame, Token

LEMMA IdsBegin ==
    ASSUME NEW s, NEW p, NEW h, Before(s, p, h)
    PROVE  /\ <<s, 0>> \notin h.began /\ <<s, 0>> \notin h.met
           /\ tx[p].at # "none" => tx[p].id # 0
           /\ lab[s].id \in 0..h.offered /\ lab[s].id \in Nat /\ 0 \in 0..h.offered
           /\ tx[s].id \in Nat
  <1>1. /\ s \in Station /\ p \in Station /\ Lab!Peer(s) = p /\ Lab!Peer(p) = s
        /\ h.offered \in Nat /\ PastOk(h)
    BY BeforeFacts DEF Before
  <1>2. \A i \in Nat, t \in Station :
          /\ <<t, i>> \in h.began => i \in 1..h.offered
          /\ <<Lab!Peer(t), i>> \in h.met => <<t, i>> \in h.began
    BY <1>1 DEF PastOk
  <1>3. <<s, 0>> \notin h.began /\ <<p, 0>> \notin h.began
    BY <1>1, <1>2
  <1>4. <<s, 0>> \notin h.met
    BY <1>1, <1>2, <1>3
  <1>5. tx[p].at # "none" => <<p, tx[p].id>> \in h.began
    BY BeforeFacts DEF JobsOk
  <1>6. lab[s].id \in 0..h.offered /\ 0 \in 0..h.offered
    <2>1. StatusOk(s, lab[s], h)
      BY BeforeFacts
    <2> QED
      BY <1>1, <2>1 DEF StatusOk
  <1>7. lab[s].id \in Nat /\ tx[s].id \in Nat
    BY BeforeFacts DEF Status, Job
  <1> QED
    BY <1>3, <1>4, <1>5, <1>6, <1>7

\* What the peer has still to play is not measured by an older status.
LEMMA NotMeasuredYet ==
    ASSUME NEW s, NEW p, NEW h, Before(s, p, h), NEW l,
           l.rxDone => lab[s].rxDone, l.id = lab[s].id \/ l.id = 0
    PROVE  ToSweep(tx[p]) /\ l.rxDone => l.id # tx[p].id
  <1>1. ToSweep(tx[p]) => tx[p].id # 0
    BY IdsBegin DEF ToSweep
  <1> QED
    BY <1>1, BeforeFacts DEF StillToCome

\* The station s changes its own state, and sends a frame.
Alters(s, p, h) ==
    /\ lab'[p] = lab[p] /\ tx'[p] = tx[p] /\ rx'[p] = rx[p]
    /\ StatusOk(s, lab'[s], h) /\ JobsOk(s, lab'[s], tx'[s], rx'[s], h)
    /\ ToSweep(tx'[s]) => ToSweep(tx[s]) /\ tx'[s].id = tx[s].id
    /\ ToSweep(tx[p]) /\ lab'[s].rxDone => lab'[s].id # tx[p].id
MaySay(p, f, h) ==
    /\ f \in Token /\ TokenOk(p, f, h)
    /\ f.of = "REPORT" /\ ToSweep(tx[p]) => f.id # tx[p].id

LEMMA SendKeeps ==
    ASSUME NEW s, NEW p, NEW h, Before(s, p, h), Alters(s, p, h),
           UNCHANGED <<offered, reported, agreed>>, NEW f, MaySay(p, f, h),
           f.of = "OFFER" => \A g \in In(air[p]) : g.of \in {"PROBE", "TURN"} => g.id # f.id,
           air' = Lab!Sent(s, f)
    PROVE  LabInv'
  <1>1. /\ air'[s] = air[s] /\ In(air'[p]) = In(air[p]) \cup {f} /\ InOrder(air'[p])
    BY SentFacts DEF MaySay
  <1>2. StillToCome(tx'[s], lab[p], air'[s]) /\ StillToCome(tx[p], lab'[s], air'[p])
    BY <1>1, BeforeFacts DEF StillToCome, Alters, MaySay
  <1>3. \A g \in In(air'[p]) : g \in In(air[p]) \/ TokenOk(p, g, h)
    BY <1>1 DEF MaySay
  <1> QED
    BY <1>1, <1>2, <1>3, BeforeFacts, StepKeeps DEF Alters

LEMMA TakenKeeps ==
    ASSUME NEW s, NEW p, NEW h, Before(s, p, h), Alters(s, p, h),
           UNCHANGED <<offered, reported, agreed>>, air[s] # <<>>,
           air' = Lab!Taken(s)
    PROVE  LabInv'
  <1>1. /\ air'[p] = air[p] /\ In(air'[s]) \subseteq In(air[s])
        /\ InOrder(air'[s]) /\ InOrder(air'[p])
    BY TakenFacts
  <1>2. StillToCome(tx'[s], lab[p], air'[s]) /\ StillToCome(tx[p], lab'[s], air'[p])
    BY <1>1, BeforeFacts DEF StillToCome, Alters
  <1> QED
    BY <1>1, <1>2, BeforeFacts, StepKeeps DEF Alters

LEMMA AnswerKeeps ==
    ASSUME NEW s, NEW p, NEW h, Before(s, p, h), Alters(s, p, h),
           UNCHANGED <<offered, reported, agreed>>, air[s] # <<>>,
           NEW f, MaySay(p, f, h), f.of # "OFFER", air' = Lab!Answered(s, f)
    PROVE  LabInv'
  <1>1. /\ In(air'[p]) = In(air[p]) \cup {f} /\ In(air'[s]) \subseteq In(air[s])
        /\ InOrder(air'[s]) /\ InOrder(air'[p])
    BY AnsweredFacts DEF MaySay
  <1>2. StillToCome(tx'[s], lab[p], air'[s]) /\ StillToCome(tx[p], lab'[s], air'[p])
    BY <1>1, BeforeFacts DEF StillToCome, Alters, MaySay
  <1>3. \A g \in In(air'[p]) : g \in In(air[p]) \/ TokenOk(p, g, h)
    BY <1>1 DEF MaySay
  <1> QED
    BY <1>1, <1>2, <1>3, BeforeFacts, StepKeeps DEF Alters

\* Frames that say nothing of what has happened.
LEMMA PlainIsSaid ==
    ASSUME NEW s, NEW p, NEW h, Before(s, p, h), NEW i \in 0..h.offered,
           NEW name \in {"ACCEPT", "BUSY", "CANCEL"}
    PROVE  MaySay(p, Lab!Frame(name, i), h) /\ Lab!Frame(name, i).of # "OFFER"
  <1>1. i \in Nat
    BY BeforeFacts
  <1> QED
    BY <1>1, FrameIsToken, PlainToken DEF MaySay

\* A status is put in the place of the old one.
LEMMA PutAlters ==
    ASSUME NEW s, NEW p, NEW h, Before(s, p, h), NEW l, Lab!Put(s, l),
           UNCHANGED <<tx, rx>>, StatusOk(s, l, h), JobsOk(s, l, tx[s], rx[s], h),
           l.rxDone => lab[s].rxDone, l.id = lab[s].id \/ l.id = 0
    PROVE  Alters(s, p, h)
  <1>1. lab'[s] = l /\ lab'[p] = lab[p]
    BY BeforeFacts DEF Before, LabTypes, Lab!Put
  <1> QED
    BY <1>1, NotMeasuredYet DEF Alters

\* The same calibration, less open than before.
LEMMA CancelledIsOk ==
    ASSUME NEW s, NEW p, NEW h, Before(s, p, h),
           NEW st \in {"CANCELLED", "FAILED"}, NEW l \in Status,
           l.id = lab[s].id, l.initiator = lab[s].initiator, l.pending = lab[s].pending,
           l.reverse = lab[s].reverse, l.rxDone = lab[s].rxDone, l.st = st,
           l.turn => lab[s].turn, l.done => lab[s].done
    PROVE  StatusOk(s, l, h) /\ JobsOk(s, l, tx[s], rx[s], h)
  <1>1. StatusOk(s, lab[s], h) /\ JobsOk(s, lab[s], tx[s], rx[s], h)
    BY BeforeFacts
  <1>2. StatusOk(s, l, h)
    BY <1>1 DEF StatusOk
  <1>3. JobsOk(s, l, tx[s], rx[s], h)
    BY <1>1 DEF JobsOk
  <1> QED
    BY <1>2, <1>3

LEMMA AcceptKeeps ==
    ASSUME NEW s, NEW p, NEW h, Before(s, p, h), Lab!Accept(s)
    PROVE  LabInv'
  <1> DEFINE l == [lab[s] EXCEPT !.pending = FALSE, !.st = "PREPARING"]
  <1>1. /\ lab[s].pending /\ Lab!Put(s, l)
        /\ air' = Lab!Sent(s, Lab!Frame("ACCEPT", lab[s].id))
        /\ UNCHANGED <<tx, rx, offered, reported, agreed>>
    BY DEF Lab!Accept, Lab!jobs, Lab!bounds
  <1>2. /\ lab[s] \in Status /\ StatusOk(s, lab[s], h)
        /\ JobsOk(s, lab[s], tx[s], rx[s], h)
    BY BeforeFacts
  <1>3. StatusOk(s, l, h)
    BY <1>1, <1>2 DEF StatusOk, Status
  <1>4. JobsOk(s, l, tx[s], rx[s], h) /\ l.id = lab[s].id /\ l.rxDone = lab[s].rxDone
    BY <1>2 DEF JobsOk, Status
  <1> HIDE DEF l
  <1>5. Alters(s, p, h)
    BY <1>1, <1>3, <1>4, PutAlters
  <1> QED
    BY <1>1, <1>5, IdsBegin, PlainIsSaid, SendKeeps

LEMMA RejectKeeps ==
    ASSUME NEW s, NEW p, NEW h, Before(s, p, h), Lab!Reject(s)
    PROVE  LabInv'
  <1> DEFINE l == [lab[s] EXCEPT !.pending = FALSE, !.st = "IDLE", !.id = 0]
  <1>1. /\ lab[s].pending /\ Lab!Put(s, l)
        /\ air' = Lab!Sent(s, Lab!Frame("BUSY", lab[s].id))
        /\ UNCHANGED <<tx, rx, offered, reported, agreed>>
    BY DEF Lab!Reject, Lab!jobs, Lab!bounds
  <1>2. /\ lab[s] \in Status /\ StatusOk(s, lab[s], h)
        /\ JobsOk(s, lab[s], tx[s], rx[s], h)
    BY BeforeFacts
  <1>3. /\ l.id = 0 /\ l.initiator = lab[s].initiator /\ l.turn = lab[s].turn
        /\ l.done = lab[s].done /\ l.st = "IDLE" /\ ~l.pending
        /\ l.rxDone = lab[s].rxDone
    BY <1>2 DEF Status
  <1>4. ~lab[s].rxDone /\ ~lab[s].initiator /\ ~lab[s].turn /\ ~lab[s].done
    BY <1>1, <1>2 DEF StatusOk
  <1> HIDE DEF l
  <1>5. StatusOk(s, l, h)
    BY <1>3, <1>4, IdsBegin DEF StatusOk
  <1>6. rx[s] = "none"
    BY <1>1, <1>2 DEF JobsOk, StatusOk
  <1>7. JobsOk(s, l, tx[s], rx[s], h)
    BY <1>2, <1>3, <1>6, IdsBegin DEF JobsOk
  <1>8. Alters(s, p, h)
    BY <1>1, <1>3, <1>5, <1>7, PutAlters
  <1> QED
    BY <1>1, <1>8, IdsBegin, PlainIsSaid, SendKeeps

LEMMA CancelKeeps ==
    ASSUME NEW s, NEW p, NEW h, Before(s, p, h), Lab!Cancel(s)
    PROVE  LabInv'
  <1> DEFINE l == Lab!Cancelled(lab[s], "CANCELLED")
  <1>1. /\ Lab!Put(s, l) /\ air' = Lab!Sent(s, Lab!Frame("CANCEL", lab[s].id))
        /\ UNCHANGED <<tx, rx, offered, reported, agreed>>
    BY DEF Lab!Cancel, Lab!jobs
  <1>2. /\ l \in Status /\ l.id = lab[s].id /\ l.initiator = lab[s].initiator
        /\ l.pending = lab[s].pending /\ l.reverse = lab[s].reverse
        /\ l.rxDone = lab[s].rxDone /\ l.st = "CANCELLED" /\ ~l.turn /\ ~l.done
    <2>1. lab[s] \in Status
      BY BeforeFacts
    <2> QED
      BY <2>1 DEF Lab!Cancelled, Status, Lab!Resting
  <1> HIDE DEF l
  <1>3. StatusOk(s, l, h) /\ JobsOk(s, l, tx[s], rx[s], h)
    BY <1>2, CancelledIsOk
  <1>4. Alters(s, p, h)
    BY <1>1, <1>2, <1>3, PutAlters
  <1> QED
    BY <1>1, <1>4, IdsBegin, PlainIsSaid, SendKeeps

LEMMA NothingAlters ==
    ASSUME NEW s, NEW p, NEW h, Before(s, p, h), UNCHANGED <<lab, tx, rx>>
    PROVE  Alters(s, p, h)
  <1>1. lab[s].id = lab[s].id
    OBVIOUS
  <1> QED
    BY BeforeFacts, NotMeasuredYet DEF Alters

\* No frame moves.
LEMMA StandKeeps ==
    ASSUME NEW s, NEW p, NEW h, Before(s, p, h), Alters(s, p, h),
           UNCHANGED <<offered, reported, agreed, air>>
    PROVE  LabInv'
  <1>1. StillToCome(tx'[s], lab[p], air'[s]) /\ StillToCome(tx[p], lab'[s], air'[p])
    BY BeforeFacts DEF StillToCome, Alters
  <1> QED
    BY <1>1, BeforeFacts, StepKeeps DEF Alters

LEMMA TickKeeps ==
    ASSUME NEW s, NEW p, NEW h, Before(s, p, h), Lab!Tick(s)
    PROVE  LabInv'
  <1> DEFINE l == lab[s]
  <1>1. UNCHANGED <<tx, rx, offered, reported, agreed>>
    BY DEF Lab!Tick, Lab!jobs, Lab!bounds
  <1>2. /\ l \in Status /\ StatusOk(s, l, h) /\ JobsOk(s, l, tx[s], rx[s], h)
        /\ l.id \in 0..h.offered /\ l.id \in Nat
    BY BeforeFacts, IdsBegin
  <1>3. ASSUME NEW m \in Status, m.id = l.id, Lab!GiveUp(s, m), m.initiator = l.initiator,
               m.pending = l.pending, m.reverse = l.reverse, m.rxDone = l.rxDone,
               m.turn => l.turn, m.done => l.done
        PROVE  LabInv'
    <2> DEFINE n == [m EXCEPT !.st = "FAILED"]
    <2>1. Lab!Put(s, n) /\ air' = Lab!Sent(s, Lab!Frame("CANCEL", l.id))
      BY <1>3 DEF Lab!GiveUp
    <2>2. /\ n \in Status /\ n.id = l.id /\ n.initiator = l.initiator
          /\ n.pending = l.pending /\ n.reverse = l.reverse /\ n.rxDone = l.rxDone
          /\ n.st = "FAILED" /\ n.turn = m.turn /\ n.done = m.done
      BY <1>3 DEF Status, Lab!Resting
    <2> HIDE DEF n
    <2>3. StatusOk(s, n, h) /\ JobsOk(s, n, tx[s], rx[s], h)
      BY <1>3, <2>2, CancelledIsOk
    <2>4. Alters(s, p, h)
      BY <1>1, <2>1, <2>2, <2>3, PutAlters
    <2> QED
      BY <1>1, <1>2, <2>1, <2>4, PlainIsSaid, SendKeeps
  <1>4. ASSUME NEW m, NEW name \in {"TURN", "DONE", "OFFER"}, Lab!Repeat(s, m, name),
               m.id = l.id, m.rxDone = l.rxDone, StatusOk(s, m, h),
               TokenOk(p, Lab!Frame(name, l.id), h),
               name = "OFFER" => \A g \in In(air[p]) :
                                 g.of \in {"PROBE", "TURN"} => g.id # l.id
        PROVE  LabInv'
    <2>1. Lab!Put(s, m) /\ air' = Lab!Sent(s, Lab!Frame(name, l.id))
      BY <1>4 DEF Lab!Repeat
    <2>2. JobsOk(s, m, tx[s], rx[s], h)
      BY <1>2, <1>4 DEF JobsOk
    <2>3. Alters(s, p, h)
      BY <1>1, <1>4, <2>1, <2>2, PutAlters
    <2>4. /\ Lab!Frame(name, l.id) \in Token /\ Lab!Frame(name, l.id).of = name
          /\ Lab!Frame(name, l.id).id = l.id
      BY <1>2, FrameIsToken
    <2>5. MaySay(p, Lab!Frame(name, l.id), h)
      BY <1>4, <2>4 DEF MaySay
    <2> QED
      BY <1>1, <1>4, <2>1, <2>3, <2>4, <2>5, SendKeeps
  <1>5. CASE /\ l.turn
             /\ IF l.turns < Requests THEN Lab!Repeat(s, [l EXCEPT !.turns = @ + 1], "TURN")
                ELSE Lab!GiveUp(s, [l EXCEPT !.turn = FALSE])
    <2>1. [l EXCEPT !.turn = FALSE] \in Status
      BY <1>2 DEF Status
    <2>2. TokenOk(p, Lab!Frame("TURN", l.id), h)
      BY <1>2, <1>5, BeforeFacts DEF StatusOk, TokenOk, Lab!Frame
    <2>3. /\ StatusOk(s, [l EXCEPT !.turns = @ + 1], h)
          /\ [l EXCEPT !.turns = @ + 1].id = l.id
          /\ [l EXCEPT !.turns = @ + 1].rxDone = l.rxDone
      BY <1>2 DEF StatusOk, Status
    <2>4. CASE Lab!Repeat(s, [l EXCEPT !.turns = @ + 1], "TURN")
      BY <1>4, <2>2, <2>3, <2>4
    <2>5. CASE Lab!GiveUp(s, [l EXCEPT !.turn = FALSE])
      <3> DEFINE m == [l EXCEPT !.turn = FALSE]
      <3>1. /\ m.id = l.id /\ m.initiator = l.initiator /\ m.pending = l.pending
            /\ m.reverse = l.reverse /\ m.rxDone = l.rxDone
            /\ (m.turn => l.turn) /\ (m.done => l.done)
        BY <1>2 DEF Status
      <3> HIDE DEF m
      <3> QED
        BY <1>3, <2>1, <2>5, <3>1 DEF m
    <2> QED
      BY <1>5, <2>4, <2>5
  <1>6. CASE /\ ~l.turn /\ l.done
             /\ IF l.dones < Requests THEN Lab!Repeat(s, [l EXCEPT !.dones = @ + 1], "DONE")
                ELSE Lab!GiveUp(s, [l EXCEPT !.done = FALSE])
    <2>1. [l EXCEPT !.done = FALSE] \in Status
      BY <1>2 DEF Status
    <2>2. TokenOk(p, Lab!Frame("DONE", l.id), h)
      BY <1>2, <1>6 DEF StatusOk, TokenOk, Lab!Frame
    <2>3. /\ StatusOk(s, [l EXCEPT !.dones = @ + 1], h)
          /\ [l EXCEPT !.dones = @ + 1].id = l.id
          /\ [l EXCEPT !.dones = @ + 1].rxDone = l.rxDone
      BY <1>2 DEF StatusOk, Status
    <2>4. CASE Lab!Repeat(s, [l EXCEPT !.dones = @ + 1], "DONE")
      BY <1>4, <2>2, <2>3, <2>4
    <2>5. CASE Lab!GiveUp(s, [l EXCEPT !.done = FALSE])
      <3> DEFINE m == [l EXCEPT !.done = FALSE]
      <3>1. /\ m.id = l.id /\ m.initiator = l.initiator /\ m.pending = l.pending
            /\ m.reverse = l.reverse /\ m.rxDone = l.rxDone
            /\ (m.turn => l.turn) /\ (m.done => l.done)
        BY <1>2 DEF Status
      <3> HIDE DEF m
      <3> QED
        BY <1>3, <2>1, <2>5, <3>1 DEF m
    <2> QED
      BY <1>6, <2>4, <2>5
  <1>7. CASE /\ ~l.turn /\ ~l.done /\ l.st = "OFFERING"
             /\ IF l.offers < Requests THEN Lab!Repeat(s, [l EXCEPT !.offers = @ + 1], "OFFER")
                ELSE Lab!GiveUp(s, l)
    <2>1. l.initiator /\ <<s, l.id>> \notin h.began /\ l.id # 0 /\ h.own[l.id] = s
      BY <1>2, <1>7 DEF StatusOk
    <2>2. s \in Station /\ p \in Station /\ p # s /\ Lab!Peer(s) = p /\ Lab!Peer(p) = s /\ PastOk(h)
      BY BeforeFacts DEF Before
    <2>3. <<p, l.id>> \notin h.met /\ <<s, l.id>> \notin h.reported
      BY <1>2, <2>1, <2>2 DEF PastOk
    <2>4. <<p, l.id>> \notin h.began
      BY <1>2, <2>1, <2>2, <2>3 DEF PastOk
    <2>5. TokenOk(p, Lab!Frame("OFFER", l.id), h)
      BY <1>2, <2>1, <2>2, <2>3, <2>4 DEF TokenOk, Lab!Frame
    <2>6. \A g \in In(air[p]) : g.of \in {"PROBE", "TURN"} => g.id # l.id
      BY <2>1, <2>2, <2>3, BeforeFacts DEF TokenOk
    <2>7. /\ StatusOk(s, [l EXCEPT !.offers = @ + 1], h)
          /\ [l EXCEPT !.offers = @ + 1].id = l.id
          /\ [l EXCEPT !.offers = @ + 1].rxDone = l.rxDone
      BY <1>2 DEF StatusOk, Status
    <2>8. CASE Lab!Repeat(s, [l EXCEPT !.offers = @ + 1], "OFFER")
      BY <1>4, <2>5, <2>6, <2>7, <2>8
    <2>9. CASE Lab!GiveUp(s, l)
      BY <1>2, <1>3, <2>9
    <2> QED
      BY <1>7, <2>8, <2>9
  <1> QED
    BY <1>5, <1>6, <1>7 DEF Lab!Tick, Lab!TurnIsDue

LEMMA MissKeeps ==
    ASSUME NEW s, NEW p, NEW h, Before(s, p, h), Lab!Miss(s)
    PROVE  LabInv'
  <1>1. /\ air[s] # <<>> /\ air' = Lab!Taken(s)
        /\ UNCHANGED <<lab, tx, rx, offered, reported, agreed>>
    BY DEF Lab!Miss, Lab!jobs
  <1> QED
    BY <1>1, NothingAlters, TakenKeeps

LEMMA ListenKeeps ==
    ASSUME NEW s, NEW p, NEW h, Before(s, p, h), Lab!Listen(s)
    PROVE  LabInv'
  <1>1. /\ rx[s] = "starting" /\ rx' = [rx EXCEPT ![s] = "listening"]
        /\ UNCHANGED <<lab, tx, air, offered, reported, agreed>>
    BY DEF Lab!Listen, Lab!bounds
  <1>2. rx'[p] = rx[p]
    BY <1>1, BeforeFacts DEF Before, LabTypes
  <1>3. JobsOk(s, lab[s], tx[s], rx'[s], h)
    BY <1>1, BeforeFacts DEF JobsOk
  <1>4. ToSweep(tx[p]) /\ lab[s].rxDone => lab[s].id # tx[p].id
    BY NotMeasuredYet
  <1>5. Alters(s, p, h)
    BY <1>1, <1>2, <1>3, <1>4, BeforeFacts DEF Alters
  <1> QED
    BY <1>1, <1>5, StandKeeps

LEMMA MeasureKeeps ==
    ASSUME NEW s, NEW p, NEW h, Before(s, p, h), Lab!Measure(s)
    PROVE  LabInv'
  <1>1. /\ rx[s] = "listening" /\ ~ToSweep(tx[p]) /\ rx' = [rx EXCEPT ![s] = "none"]
        /\ UNCHANGED <<tx, offered, reported, agreed>>
    BY BeforeFacts DEF Lab!Measure, ToSweep
  <1>2. rx'[p] = rx[p] /\ rx'[s] = "none"
    BY <1>1, BeforeFacts DEF Before, LabTypes
  <1>3. /\ lab[s] \in Status /\ StatusOk(s, lab[s], h)
        /\ JobsOk(s, lab[s], tx[s], rx[s], h) /\ Lab!Peer(p) = s
    BY BeforeFacts
  <1>4. <<s, lab[s].id>> \in h.met /\ ~lab[s].pending
    BY <1>1, <1>3 DEF JobsOk, StatusOk
  <1>5. CASE UNCHANGED <<lab, air>>
    <2>1. JobsOk(s, lab[s], tx[s], "none", h)
      BY <1>3 DEF JobsOk
    <2>2. Alters(s, p, h)
      BY <1>1, <1>2, <1>3, <1>5, <2>1 DEF Alters
    <2> QED
      BY <1>1, <1>5, <2>2, StandKeeps
  <1>6. CASE \E measured \in BOOLEAN :
               /\ Lab!Put(s, [lab[s] EXCEPT !.st = "PREPARING", !.rxDone = @ \/ measured])
               /\ air' = Lab!Sent(s, Lab!Frame("REPORT", lab[s].id))
    <2>1. PICK measured \in BOOLEAN :
            /\ Lab!Put(s, [lab[s] EXCEPT !.st = "PREPARING", !.rxDone = @ \/ measured])
            /\ air' = Lab!Sent(s, Lab!Frame("REPORT", lab[s].id))
      BY <1>6
    <2> DEFINE l == [lab[s] EXCEPT !.st = "PREPARING", !.rxDone = @ \/ measured]
    <2>2. lab'[s] = l /\ lab'[p] = lab[p]
      BY <2>1, BeforeFacts DEF Before, LabTypes, Lab!Put
    <2>3. /\ l.id = lab[s].id /\ l.initiator = lab[s].initiator /\ l.turn = lab[s].turn
          /\ l.done = lab[s].done /\ l.st = "PREPARING" /\ l.pending = lab[s].pending
          /\ l.reverse = lab[s].reverse
      BY <1>3 DEF Status
    <2> HIDE DEF l
    <2>4. StatusOk(s, l, h)
      BY <1>3, <1>4, <2>3 DEF StatusOk
    <2>5. JobsOk(s, l, tx[s], "none", h)
      BY <1>3, <2>3 DEF JobsOk
    <2>6. Alters(s, p, h)
      BY <1>1, <1>2, <2>2, <2>4, <2>5 DEF Alters
    <2>7. /\ Lab!Frame("REPORT", lab[s].id) \in Token
          /\ Lab!Frame("REPORT", lab[s].id).of = "REPORT"
          /\ Lab!Frame("REPORT", lab[s].id).id = lab[s].id
      BY FrameIsToken, IdsBegin
    <2>8. TokenOk(p, Lab!Frame("REPORT", lab[s].id), h)
      BY <1>3, <1>4, <2>7, IdsBegin DEF TokenOk
    <2>9. MaySay(p, Lab!Frame("REPORT", lab[s].id), h)
      BY <1>1, <2>7, <2>8 DEF MaySay
    <2> QED
      BY <1>1, <2>1, <2>6, <2>7, <2>9, SendKeeps
  <1> QED
    BY <1>5, <1>6 DEF Lab!Measure

\* The worker that plays a sweep.
LEMMA WorkKeeps ==
    ASSUME NEW s, NEW p, NEW h, Before(s, p, h),
           Lab!Probe(s) \/ Lab!Sweep(s) \/ Lab!Swept(s) \/ Lab!Unreported(s)
    PROVE  LabInv'
  <1> DEFINE l == lab[s]
             t == tx[s]
             asking == Lab!Frame("PROBE", t.id)
             undone == [lab[s] EXCEPT !.st = "FAILED"]
  <1>1. UNCHANGED <<rx, offered, reported, agreed>> /\ t.at # "none"
    BY DEF Lab!Probe, Lab!Sweep, Lab!Swept, Lab!Unreported, Lab!bounds
  <1>2. /\ l \in Status /\ t \in Job /\ StatusOk(s, l, h) /\ JobsOk(s, l, t, rx[s], h)
        /\ l.id \in Nat /\ t.id \in Nat /\ PastOk(h) /\ s \in Station /\ p \in Station
        /\ p # s /\ Lab!Peer(p) = s /\ h.offered \in Nat
    BY BeforeFacts, IdsBegin DEF Before
  <1>3. <<s, t.id>> \in h.began
    BY <1>1, <1>2 DEF JobsOk
  <1>4. t.id \in 0..h.offered
    <2>1. \A i \in Nat : <<s, i>> \in h.began => i \in 1..h.offered
      BY <1>2 DEF PastOk
    <2> QED
      BY <1>2, <1>3, <2>1
  <1>5. t.id = l.id => ~l.pending
    BY <1>2, <1>3 DEF StatusOk
  <1>6. asking \in Token /\ asking.of = "PROBE" /\ asking.id = t.id
    BY <1>2, FrameIsToken
  <1>7. MaySay(p, asking, h)
    BY <1>2, <1>3, <1>4, <1>6 DEF MaySay, TokenOk
  <1>8. ToSweep(tx[p]) /\ l.rxDone => l.id # tx[p].id
    BY NotMeasuredYet
  \* The status it writes to, if it is still its own.
  <1>9. ASSUME NEW st \in {"MEASURING", "REPORT"}, NEW r, Lab!Put(s, Lab!Of(s, l, st)),
               tx' = [tx EXCEPT ![s] = r], r.id = t.id, r.ready => t.ready /\ r.at = "wait",
               ToSweep(r) => ToSweep(t)
        PROVE  Alters(s, p, h)
    <2> DEFINE m == Lab!Of(s, l, st)
    <2>1. /\ lab'[s] = m /\ lab'[p] = lab[p] /\ tx'[s] = r /\ tx'[p] = tx[p]
      BY <1>9, BeforeFacts DEF Before, LabTypes, Lab!Put
    <2>2. /\ m.id = l.id /\ m.initiator = l.initiator /\ m.turn = l.turn /\ m.done = l.done
          /\ m.pending = l.pending /\ m.reverse = l.reverse /\ m.rxDone = l.rxDone
          /\ m.st = IF l.id = t.id THEN st ELSE l.st
      BY <1>2 DEF Status, Lab!Of
    <2> HIDE DEF m
    <2>3. StatusOk(s, m, h)
      BY <1>2, <1>5, <2>2 DEF StatusOk
    <2>4. JobsOk(s, m, r, rx[s], h)
      BY <1>1, <1>2, <1>9, <2>2 DEF JobsOk
    <2>5. ToSweep(tx[p]) /\ m.rxDone => m.id # tx[p].id
      BY <1>8, <2>2
    <2> QED
      BY <1>1, <1>9, <2>1, <2>3, <2>4, <2>5 DEF Alters
  \* It ends, and writes to the status there is.
  <1>10. ASSUME Lab!Leaves(s), Lab!Put(s, undone)
         PROVE  Alters(s, p, h)
    <2>1. /\ lab'[s] = undone /\ lab'[p] = lab[p] /\ tx'[s] = Lab!NoJob /\ tx'[p] = tx[p]
      BY <1>10, BeforeFacts DEF Before, LabTypes, Lab!Put, Lab!Leaves
    <2>2. /\ undone \in Status /\ undone.id = l.id /\ undone.initiator = l.initiator
          /\ undone.turn = l.turn /\ undone.done = l.done /\ undone.st = "FAILED"
          /\ undone.pending = l.pending /\ undone.reverse = l.reverse
          /\ undone.rxDone = l.rxDone
      BY <1>2 DEF Status, Lab!Resting
    <2> HIDE DEF undone
    <2>3. StatusOk(s, undone, h)
      BY <2>2, CancelledIsOk
    <2>4. JobsOk(s, undone, Lab!NoJob, rx[s], h)
      BY <1>2, <2>2 DEF JobsOk, Lab!NoJob
    <2>5. ToSweep(tx[p]) /\ undone.rxDone => undone.id # tx[p].id
      BY <1>8, <2>2
    <2>6. ~ToSweep(Lab!NoJob)
      BY DEF ToSweep, Lab!NoJob
    <2> QED
      BY <1>1, <2>1, <2>3, <2>4, <2>5, <2>6 DEF Alters
  <1>11. ASSUME Lab!NoReport(s) PROVE LabInv'
    <2>1. Lab!Leaves(s) /\ Lab!Put(s, undone) /\ air' = Lab!Sent(s, Lab!Frame("CANCEL", t.id))
      BY <1>11 DEF Lab!NoReport
    <2>2. Alters(s, p, h)
      BY <1>10, <2>1
    <2> QED
      BY <1>1, <1>4, <2>1, <2>2, PlainIsSaid, SendKeeps
  <1>12. CASE Lab!Probe(s)
    <2> DEFINE r == [t EXCEPT !.at = "flush"]
    <2>1. /\ t.at = "probe" /\ tx' = [tx EXCEPT ![s] = r] /\ air' = Lab!Sent(s, asking)
          /\ Lab!Put(s, Lab!Of(s, l, "MEASURING"))
      BY <1>12, <1>2, BeforeFacts DEF Lab!Probe, Lab!Step, LabTypes
    <2>2. r.id = t.id /\ r.ready = t.ready /\ r.at = "flush" /\ ~t.ready
      BY <1>2, <2>1 DEF Job, JobsOk
    <2>3. Alters(s, p, h)
      BY <1>9, <2>1, <2>2 DEF ToSweep
    <2> QED
      BY <1>1, <1>6, <1>7, <2>1, <2>3, SendKeeps
  <1>13. CASE Lab!Sweep(s)
    <2>1. CASE Lab!Step(s, "sweep") /\ UNCHANGED <<lab, air>>
      <3> DEFINE r == [t EXCEPT !.at = "sweep"]
      <3>1. t.at = "flush" /\ tx' = [tx EXCEPT ![s] = r] /\ UNCHANGED <<lab, air>>
        BY <1>13, <2>1 DEF Lab!Sweep, Lab!Step
      <3>2. r.id = t.id /\ r.ready = t.ready /\ r.at = "sweep" /\ ~t.ready
        BY <1>2, <3>1 DEF Job, JobsOk
      <3>3. tx'[s] = r /\ tx'[p] = tx[p]
        BY <3>1, BeforeFacts DEF Before, LabTypes
      <3> HIDE DEF r
      <3>4. JobsOk(s, l, r, rx[s], h)
        BY <1>2, <3>1, <3>2 DEF JobsOk
      <3>5. Alters(s, p, h)
        BY <1>1, <1>2, <1>8, <3>1, <3>2, <3>3, <3>4 DEF Alters, ToSweep
      <3> QED
        BY <1>1, <3>1, <3>5, StandKeeps
    <2>2. CASE Lab!NoReport(s)
      BY <1>11, <2>2
    <2> QED
      BY <1>13, <2>1, <2>2 DEF Lab!Sweep
  <1>14. CASE Lab!Swept(s)
    <2>1. CASE Lab!Step(s, "wait") /\ Lab!Put(s, Lab!Of(s, l, "REPORT")) /\ air' = air
      <3> DEFINE r == [t EXCEPT !.at = "wait"]
      <3>1. tx' = [tx EXCEPT ![s] = r]
        BY <2>1 DEF Lab!Step
      <3>2. r.id = t.id /\ r.ready = t.ready /\ r.at = "wait"
        BY <1>2 DEF Job
      <3>3. Alters(s, p, h)
        BY <1>9, <2>1, <3>1, <3>2 DEF ToSweep
      <3> QED
        BY <1>1, <2>1, <3>3, StandKeeps
    <2>2. CASE Lab!NoReport(s)
      BY <1>11, <2>2
    <2>3. CASE Lab!Leaves(s) /\ Lab!Put(s, undone) /\ air' = air
      BY <1>1, <1>10, <2>3, StandKeeps
    <2> QED
      BY <1>14, <2>1, <2>2, <2>3 DEF Lab!Swept
  <1>15. CASE Lab!Unreported(s)
    <2>1. CASE Lab!NoReport(s)
      BY <1>11, <2>1
    <2>2. CASE ~Lab!NoReport(s)
      <3> DEFINE r == [t EXCEPT !.tries = @ + 1]
      <3>1. tx' = [tx EXCEPT ![s] = r] /\ lab' = lab /\ air' = Lab!Sent(s, asking)
            /\ t.at = "wait"
        BY <1>15, <2>2 DEF Lab!Unreported
      <3>2. r.id = t.id /\ r.ready = t.ready /\ r.at = "wait"
        BY <1>2, <3>1 DEF Job
      <3>3. tx'[s] = r /\ tx'[p] = tx[p]
        BY <3>1, BeforeFacts DEF Before, LabTypes
      <3> HIDE DEF r
      <3>4. JobsOk(s, l, r, rx[s], h)
        BY <1>2, <3>1, <3>2 DEF JobsOk
      <3>5. Alters(s, p, h)
        BY <1>1, <1>2, <1>8, <3>1, <3>2, <3>3, <3>4 DEF Alters, ToSweep
      <3> QED
        BY <1>1, <1>6, <1>7, <3>1, <3>5, SendKeeps
    <2> QED
      BY <2>1, <2>2
  <1> QED
    BY <1>12, <1>13, <1>14, <1>15

\* A report ends the wait: what was played has been heard.
LEMMA ReportedKeeps ==
    ASSUME NEW s, NEW p, NEW h, Before(s, p, h), Lab!Reported(s)
    PROVE  LabInv'
  <1> DEFINE l == lab[s]
             t == tx[s]
             m == IF l.initiator THEN [l EXCEPT !.turn = TRUE, !.turns = 1]
                  ELSE [l EXCEPT !.done = TRUE, !.dones = 1]
             n == [m EXCEPT !.st = Lab!Outcome(m)]
             name == IF m.initiator THEN "TURN" ELSE "DONE"
  <1>1. /\ t.at = "wait" /\ t.ready /\ tx' = [tx EXCEPT ![s] = Lab!NoJob]
        /\ reported' = reported \cup {<<s, t.id>>} /\ Lab!Put(s, n)
        /\ air' = Lab!Sent(s, Lab!Frame(name, n.id))
        /\ UNCHANGED <<rx, offered, agreed>>
    BY DEF Lab!Reported, Lab!Repeat, Lab!Leaves, Lab!bounds
  <1>2. /\ l \in Status /\ t \in Job /\ StatusOk(s, l, h) /\ JobsOk(s, l, t, rx[s], h)
        /\ l.id \in Nat /\ t.id \in Nat /\ PastOk(h) /\ s \in Station /\ p \in Station
        /\ p # s /\ Lab!Peer(p) = s /\ Lab!Peer(s) = p /\ h \in Past
        /\ (\A q \in Station : q = s \/ q = p) /\ l.id \in 0..h.offered
    BY BeforeFacts, IdsBegin DEF Before
  <1>3. /\ <<s, t.id>> \in h.began /\ <<p, t.id>> \in h.met /\ l.id \in {t.id, 0}
        /\ ~l.pending
    BY <1>1, <1>2 DEF JobsOk, StatusOk
  <1>0. PICK g : g = [h EXCEPT !.reported = @ \cup {<<s, t.id>>}]
    OBVIOUS
  <1>4. /\ g \in Past /\ g.own = h.own /\ g.began = h.began /\ g.met = h.met
        /\ g.agreed = h.agreed /\ g.offered = h.offered
        /\ g.reported = h.reported \cup {<<s, t.id>>}
    BY <1>0, <1>2 DEF Past
  <1>5. Grows(s, h, g)
    BY <1>2, <1>4, NothingGrows DEF Grows
  <1>6. \A i : BothDone(i, h) => BothDone(i, g)
    BY <1>4 DEF BothDone
  <1>7. PastOk(g)
    BY <1>2, <1>3, <1>4, <1>6 DEF PastOk
  <1>8. l.id # 0 /\ ~l.initiator => BothDone(l.id, g)
    <2>1. HAVE l.id # 0 /\ ~l.initiator
    <2>2. l.id = t.id /\ h.own[l.id] # s /\ h.own[l.id] \in Station
      BY <1>2, <1>3, <2>1 DEF StatusOk, Past
    <2>3. <<p, l.id>> \in h.reported
      BY <1>2, <1>3, <2>2 DEF PastOk
    <2> QED
      BY <1>2, <1>4, <2>2, <2>3 DEF BothDone
  <1>9. l.initiator => <<s, l.id>> \in g.reported
    BY <1>2, <1>3, <1>4 DEF StatusOk
  <1>10. /\ n.id = l.id /\ n.initiator = l.initiator /\ n.pending = l.pending
         /\ n.reverse = l.reverse /\ n.rxDone = l.rxDone
         /\ n.turn = (IF l.initiator THEN TRUE ELSE l.turn)
         /\ n.done = (IF l.initiator THEN l.done ELSE TRUE)
         /\ n.st \in {"CANCELLED", "PREPARING"} /\ name = IF l.initiator THEN "TURN" ELSE "DONE"
    <2>1. CASE l.initiator
      BY <1>2, <2>1 DEF Status, Lab!Outcome
    <2>2. CASE ~l.initiator
      BY <1>2, <2>2 DEF Status, Lab!Outcome
    <2> QED
      BY <2>1, <2>2
  <1>11. lab'[s] = n /\ lab'[p] = lab[p] /\ tx'[s] = Lab!NoJob /\ tx'[p] = tx[p]
    BY <1>1, BeforeFacts DEF Before, LabTypes, Lab!Put
  <1> HIDE DEF n, m, name
  <1>12. StatusOk(s, n, g)
    <2>1. CASE l.initiator
      BY <1>2, <1>3, <1>4, <1>9, <1>10, <2>1 DEF StatusOk
    <2>2. CASE ~l.initiator
      BY <1>2, <1>3, <1>4, <1>8, <1>10, <2>2 DEF StatusOk
    <2> QED
      BY <2>1, <2>2
  <1>13. JobsOk(s, n, Lab!NoJob, rx[s], g)
    BY <1>2, <1>4, <1>10 DEF JobsOk, Lab!NoJob
  <1>14. /\ Lab!Frame(name, n.id) \in Token /\ Lab!Frame(name, n.id).id = l.id
         /\ Lab!Frame(name, n.id).of = IF l.initiator THEN "TURN" ELSE "DONE"
    BY <1>2, <1>10, FrameIsToken
  <1>15. TokenOk(p, Lab!Frame(name, n.id), g)
    BY <1>2, <1>4, <1>8, <1>9, <1>14 DEF TokenOk
  <1>16. /\ air'[s] = air[s] /\ In(air'[p]) = In(air[p]) \cup {Lab!Frame(name, n.id)}
         /\ InOrder(air'[p])
    BY <1>1, <1>14, SentFacts
  <1>17. ASSUME NEW f \in In(air'[s]) PROVE TokenOk(s, f, g)
    <2>1. f \in Token /\ TokenOk(s, f, h)
      BY <1>16, <1>17, BeforeFacts
    <2>2. f.of = "OFFER" => <<s, f.id>> \notin g.began /\ <<s, f.id>> \notin g.met
      BY <1>4, <2>1 DEF TokenOk
    <2> QED
      BY <1>2, <1>5, <2>1, <2>2, TokenStays
  <1>18. StillToCome(tx'[s], lab[p], air'[s])
    BY <1>11 DEF StillToCome, ToSweep, Lab!NoJob
  <1>19. StillToCome(tx[p], lab'[s], air'[p])
    BY <1>10, <1>11, <1>14, <1>16, BeforeFacts DEF StillToCome
  <1>20. Known(g)'
    BY <1>1, <1>4 DEF Before, Known
  <1> QED
    BY <1>1, <1>5, <1>7, <1>11, <1>12, <1>13, <1>15, <1>16, <1>17, <1>18, <1>19, <1>20,
       BeforeFacts, OneMoves DEF Before

\* A station begins to sweep once it has been told that it may.
LEMMA RunKeeps ==
    ASSUME NEW s, NEW p, NEW h, Before(s, p, h), air[s] # <<>>, air' = Lab!Taken(s),
           NEW l, Lab!Put(s, l), Lab!Run(s), UNCHANGED <<rx, offered, reported, agreed>>,
           StatusOk(s, l, h), l.id = lab[s].id, l.id # 0, l.rxDone = lab[s].rxDone,
           l.initiator \/ l.reverse, l.st # "OFFERING", <<s, l.id>> \notin h.began,
           h.own[l.id] # s => <<h.own[l.id], l.id>> \in h.reported,
           \A f \in In(air'[s]) : f.of = "OFFER" => f.id # l.id
    PROVE  LabInv'
  <1>1. /\ JobsOk(s, lab[s], tx[s], rx[s], h) /\ l.id \in Nat /\ l.id \in 0..h.offered
        /\ PastOk(h) /\ s \in Station /\ p \in Station /\ p # s /\ Lab!Peer(p) = s
        /\ Lab!Peer(s) = p /\ h \in Past /\ h.offered \in Nat
        /\ (\A q \in Station : q = s \/ q = p)
    <2>1. l.id \in Nat /\ l.id \in 0..h.offered
      BY IdsBegin
    <2> QED
      BY <2>1, BeforeFacts DEF Before
  <1>2. l.id \in 1..h.offered
    BY <1>1
  <1>3. PICK r : r = [Lab!NoJob EXCEPT !.at = "probe", !.id = lab[s].id]
    OBVIOUS
  <1>4. r.at = "probe" /\ r.id = l.id /\ ~r.ready
    BY <1>3 DEF Lab!NoJob
  <1>5. lab'[s] = l /\ lab'[p] = lab[p] /\ tx'[s] = r /\ tx'[p] = tx[p]
    BY <1>3, BeforeFacts DEF Before, LabTypes, Lab!Put, Lab!Run
  <1>6. PICK g : g = [h EXCEPT !.began = @ \cup {<<s, l.id>>}]
    OBVIOUS
  <1>7. /\ g \in Past /\ g.own = h.own /\ g.began = h.began \cup {<<s, l.id>>}
        /\ g.met = h.met /\ g.reported = h.reported /\ g.agreed = h.agreed
        /\ g.offered = h.offered
    <2>1. <<s, l.id>> \in Station \X Nat
      BY <1>1
    <2> QED
      BY <1>1, <1>6, <2>1 DEF Past
  <1>8. Grows(s, h, g)
    BY <1>1, <1>7, NothingGrows DEF Grows
  <1>9. \A i : BothDone(i, h) <=> BothDone(i, g)
    BY <1>7 DEF BothDone
  <1>10. PastOk(g)
    BY <1>1, <1>2, <1>7, <1>9 DEF PastOk
  <1>11. StatusOk(s, l, g)
    BY <1>7, <1>9 DEF StatusOk
  <1>12. JobsOk(s, l, r, rx[s], g)
    BY <1>1, <1>4, <1>7 DEF JobsOk
  <1>13. /\ air'[p] = air[p] /\ In(air'[s]) \subseteq In(air[s])
         /\ InOrder(air'[s]) /\ InOrder(air'[p])
    BY TakenFacts
  <1>14. ASSUME NEW f \in In(air'[s]) PROVE TokenOk(s, f, g)
    <2>1. f \in Token /\ TokenOk(s, f, h)
      BY <1>13, <1>14, BeforeFacts
    <2>2. f.of = "OFFER" => <<s, f.id>> \notin g.began /\ <<s, f.id>> \notin g.met
      BY <1>7, <1>14, <2>1 DEF TokenOk
    <2> QED
      BY <1>1, <1>8, <2>1, <2>2, TokenStays
  <1>15. <<p, l.id>> \notin h.met
    BY <1>1 DEF PastOk
  <1>16. StillToCome(tx'[s], lab[p], air'[s])
    <2>1. lab[p].rxDone => <<p, lab[p].id>> \in h.met
      BY BeforeFacts DEF StatusOk
    <2>2. \A f \in In(air'[s]) : f.of = "REPORT" => <<p, f.id>> \in h.met
      <3>1. \A f \in In(air'[s]) : TokenOk(s, f, h)
        BY <1>13, BeforeFacts
      <3> QED
        BY <1>1, <3>1 DEF TokenOk
    <2> QED
      BY <1>4, <1>5, <1>15, <2>1, <2>2 DEF StillToCome
  <1>17. StillToCome(tx[p], lab'[s], air'[p])
    BY <1>5, <1>13, BeforeFacts DEF StillToCome
  <1>18. Known(g)'
    BY <1>7 DEF Before, Known
  <1> QED
    BY <1>5, <1>8, <1>10, <1>11, <1>12, <1>13, <1>14, <1>16, <1>17, <1>18,
       BeforeFacts, OneMoves DEF Before

LEMMA StartKeeps ==
    ASSUME NEW s, NEW p, NEW h, Before(s, p, h), Lab!Start(s)
    PROVE  LabInv'
  <1>1. PICK i : i = offered + 1
    OBVIOUS
  <1>2. PICK l : l = [Lab!Fresh(i, "OFFERING", TRUE) EXCEPT !.offers = 1]
    OBVIOUS
  <1>3. /\ offered' = i /\ Lab!Put(s, l) /\ air' = Lab!Sent(s, Lab!Frame("OFFER", i))
        /\ UNCHANGED <<tx, rx, reported, agreed>> /\ rx[s] = "none"
        /\ ~(tx[s].at = "wait" /\ tx[s].ready)
    BY <1>1, <1>2 DEF Before, Lab!Start, Lab!jobs, Lab!Active, Lab!Prompt, Lab!Goes
  <1>4. /\ JobsOk(s, lab[s], tx[s], rx[s], h) /\ PastOk(h) /\ s \in Station /\ p \in Station
        /\ p # s /\ Lab!Peer(p) = s /\ Lab!Peer(s) = p /\ h \in Past
        /\ h.offered \in Nat /\ i = h.offered + 1 /\ i \in Nat
        /\ (\A q \in Station : q = s \/ q = p)
    <2>1. h.offered \in Nat /\ i = h.offered + 1
      BY <1>1, BeforeFacts
    <2> QED
      <3>1. i \in Nat
        BY <2>1
      <3> QED
        BY <2>1, <3>1, BeforeFacts DEF Before
  <1>5. /\ l.id = i /\ l.initiator /\ l.st = "OFFERING" /\ ~l.pending /\ ~l.turn
        /\ ~l.done /\ ~l.rxDone
    BY <1>2 DEF Lab!Fresh
  <1>6. lab'[s] = l /\ lab'[p] = lab[p]
    BY <1>3, BeforeFacts DEF Before, LabTypes, Lab!Put
  <1>7. PICK g : g = [h EXCEPT !.own = [@ EXCEPT ![i] = s], !.offered = i]
    OBVIOUS
  <1>8. /\ g \in Past /\ g.began = h.began /\ g.met = h.met /\ g.reported = h.reported
        /\ g.agreed = h.agreed /\ g.offered = i /\ g.own[i] = s
        /\ \A k \in Nat : k # i => g.own[k] = h.own[k]
    BY <1>4, <1>7 DEF Past
  <1>9. Grows(s, h, g)
    BY <1>4, <1>8 DEF Grows
  <1>10. /\ \A q \in Station : <<q, i>> \notin h.began /\ <<q, i>> \notin h.met
         /\ \A q \in Station, k \in Nat : <<q, k>> \in h.began => k # i /\ k \in 1..g.offered
    <2>1. \A q \in Station, k \in Nat :
            /\ <<q, k>> \in h.began => k \in 1..h.offered
            /\ <<Lab!Peer(q), k>> \in h.met => <<q, k>> \in h.began
      BY <1>4 DEF PastOk
    <2>2. \A q \in Station, k \in Nat : <<q, k>> \in h.began => k # i /\ k \in 1..g.offered
      <3>1. \A k \in 1..h.offered : k # i /\ k \in 1..g.offered
        BY <1>4, <1>8
      <3> QED
        BY <2>1, <3>1
    <2> QED
      BY <1>4, <2>1, <2>2
  <1>11. \A k : BothDone(k, h) <=> BothDone(k, g)
    BY <1>8 DEF BothDone
  <1>12. PastOk(g)
    <2>1. ASSUME NEW q \in Station, NEW k \in Nat
          PROVE  /\ <<q, k>> \in g.began => k \in 1..g.offered
                 /\ <<q, k>> \in g.reported => <<Lab!Peer(q), k>> \in g.met
                 /\ <<Lab!Peer(q), k>> \in g.met => <<q, k>> \in g.began
                 /\ <<q, k>> \in g.began /\ g.own[k] # q => <<g.own[k], k>> \in g.reported
      <3>1. <<q, k>> \in h.began => g.own[k] = h.own[k]
        BY <1>8, <1>10
      <3> QED
        BY <1>4, <1>8, <1>10, <3>1 DEF PastOk
    <2>2. \A k \in g.agreed : BothDone(k, g)
      BY <1>4, <1>8, <1>11 DEF PastOk
    <2> QED
      BY <1>8, <2>1, <2>2 DEF PastOk
  <1>13. StatusOk(s, l, g)
    BY <1>4, <1>5, <1>8, <1>10 DEF StatusOk
  <1>14. JobsOk(s, l, tx[s], rx[s], g)
    BY <1>3, <1>4, <1>5, <1>8, <1>10 DEF JobsOk
  <1>15. /\ Lab!Frame("OFFER", i) \in Token /\ Lab!Frame("OFFER", i).of = "OFFER"
         /\ Lab!Frame("OFFER", i).id = i
    BY <1>4, FrameIsToken
  <1>16. TokenOk(p, Lab!Frame("OFFER", i), g)
    BY <1>4, <1>8, <1>10, <1>15 DEF TokenOk
  <1>17. \A f \in In(air[p]) : f.id # i
    <2>1. \A f \in In(air[p]) : f.id \in 0..h.offered
      BY BeforeFacts DEF TokenOk
    <2> QED
      BY <1>4, <2>1
  <1>18. /\ air'[s] = air[s] /\ In(air'[p]) = In(air[p]) \cup {Lab!Frame("OFFER", i)}
         /\ InOrder(air'[p])
    BY <1>3, <1>15, <1>17, SentFacts
  <1>19. ASSUME NEW f \in In(air'[s]) PROVE TokenOk(s, f, g)
    <2>1. f \in Token /\ TokenOk(s, f, h)
      BY <1>18, <1>19, BeforeFacts
    <2>2. f.of = "OFFER" => <<s, f.id>> \notin g.began /\ <<s, f.id>> \notin g.met
      BY <1>8, <2>1 DEF TokenOk
    <2> QED
      BY <1>4, <1>9, <2>1, <2>2, TokenStays
  <1>20. StillToCome(tx'[s], lab[p], air'[s]) /\ StillToCome(tx[p], lab'[s], air'[p])
    BY <1>3, <1>5, <1>6, <1>15, <1>18, BeforeFacts DEF StillToCome
  <1>21. Known(g)'
    BY <1>3, <1>8 DEF Before, Known
  <1> QED
    BY <1>3, <1>6, <1>9, <1>12, <1>13, <1>14, <1>16, <1>18, <1>19, <1>20, <1>21,
       BeforeFacts, OneMoves DEF Before

\* An offer comes in.
LEMMA HearOfferKeeps ==
    ASSUME NEW s, NEW p, NEW h, Before(s, p, h), air[s] # <<>>, NEW f, f = Head(air[s]),
           f.of = "OFFER", ~(tx[s].at = "wait" /\ tx[s].ready),
           Lab!HearOffer(s, f), UNCHANGED <<offered, reported>>
    PROVE  LabInv'
  <1> DEFINE l == lab[s]
             new == Lab!Fresh(f.id, "APPROVAL", FALSE)
             trusted == [new EXCEPT !.pending = FALSE, !.st = "PREPARING"]
  <1>1. UNCHANGED <<tx, rx, agreed>>
    BY DEF Lab!HearOffer
  <1>2. /\ l \in Status /\ StatusOk(s, l, h) /\ JobsOk(s, l, tx[s], rx[s], h)
        /\ s \in Station /\ h.offered \in Nat
    <2>1. h.offered \in Nat
      BY BeforeFacts
    <2> QED
      BY <2>1, BeforeFacts DEF Before
  <1>3. f \in In(air[s]) /\ f \in Token
    BY BeforeFacts, TailKeeps
  <1>4. TokenOk(s, f, h)
    BY <1>3, BeforeFacts
  <1>5. /\ f.id \in 0..h.offered /\ f.id # 0 /\ h.own[f.id] # s
        /\ <<s, f.id>> \notin h.began /\ <<s, f.id>> \notin h.met
    BY <1>2, <1>4 DEF TokenOk
  <1>6. ASSUME lab' = lab, NEW name \in {"ACCEPT", "BUSY"},
               air' = Lab!Answered(s, Lab!Frame(name, f.id))
        PROVE  LabInv'
    BY <1>1, <1>5, <1>6, NothingAlters, PlainIsSaid, AnswerKeeps
  <1>7. ASSUME rx[s] = "none", NEW m \in {new, trusted}, Lab!Put(s, m)
        PROVE  Alters(s, p, h)
    <2>1. lab'[s] = m /\ lab'[p] = lab[p]
      BY <1>7, BeforeFacts DEF Before, LabTypes, Lab!Put
    <2>2. /\ m.id = f.id /\ ~m.initiator /\ ~m.turn /\ ~m.done /\ ~m.reverse /\ ~m.rxDone
          /\ \/ m.st = "APPROVAL"
             \/ m.st = "PREPARING" /\ ~m.pending
      <3>1. CASE m = new
        BY <3>1 DEF Lab!Fresh
      <3>2. CASE m = trusted
        BY <3>2 DEF Lab!Fresh
      <3> QED
        BY <1>7, <3>1, <3>2
    <2> HIDE DEF new, trusted
    <2>3. StatusOk(s, m, h)
      BY <1>5, <2>2 DEF StatusOk
    <2>4. ~tx[s].ready
      BY <1>2 DEF JobsOk
    <2>5. JobsOk(s, m, tx[s], rx[s], h)
      BY <1>2, <1>5, <1>7, <2>2, <2>4 DEF JobsOk
    <2> QED
      BY <1>1, <2>1, <2>2, <2>3, <2>5 DEF Alters
  <1>8. CASE air' = Lab!Taken(s) /\ lab' = lab
    BY <1>1, <1>8, NothingAlters, TakenKeeps
  <1>9. CASE /\ lab' = lab
             /\ \/ air' = Lab!Answered(s, Lab!Frame("ACCEPT", f.id))
                \/ air' = Lab!Answered(s, Lab!Frame("BUSY", f.id))
    BY <1>6, <1>9
  <1>10. CASE /\ rx[s] = "none" /\ Lab!Put(s, trusted)
              /\ air' = Lab!Answered(s, Lab!Frame("ACCEPT", f.id))
    BY <1>1, <1>5, <1>7, <1>10, PlainIsSaid, AnswerKeeps
  <1>11. CASE rx[s] = "none" /\ Lab!Put(s, new) /\ air' = Lab!Taken(s)
    BY <1>1, <1>7, <1>11, TakenKeeps
  <1> QED
    BY <1>8, <1>9, <1>10, <1>11 DEF Lab!HearOffer, Lab!Active

LEMMA HearAcceptKeeps ==
    ASSUME NEW s, NEW p, NEW h, Before(s, p, h), air[s] # <<>>, Lab!HearAccept(s),
           UNCHANGED <<offered, reported>>
    PROVE  LabInv'
  <1>1. air' = Lab!Taken(s) /\ UNCHANGED <<rx, agreed>>
    BY DEF Lab!HearAccept
  <1>2. /\ lab[s] \in Status /\ StatusOk(s, lab[s], h)
        /\ JobsOk(s, lab[s], tx[s], rx[s], h)
    BY BeforeFacts
  <1>3. CASE UNCHANGED <<lab, tx>>
    BY <1>1, <1>3, NothingAlters, TakenKeeps
  <1>4. CASE /\ lab[s].st = "OFFERING" /\ Lab!Run(s)
             /\ Lab!Put(s, [lab[s] EXCEPT !.st = "PREPARING", !.offers = 0])
    <2> DEFINE l == [lab[s] EXCEPT !.st = "PREPARING", !.offers = 0]
    <2>1. /\ lab[s].initiator /\ <<s, lab[s].id>> \notin h.began /\ lab[s].id # 0
          /\ h.own[lab[s].id] = s
      BY <1>2, <1>4 DEF StatusOk
    <2>2. /\ StatusOk(s, l, h) /\ l.id = lab[s].id /\ l.rxDone = lab[s].rxDone
          /\ l.initiator /\ l.st = "PREPARING"
      BY <1>2, <2>1 DEF StatusOk, Status
    <2> HIDE DEF l
    <2>3. \A f \in In(air'[s]) : f.of = "OFFER" => f.id # lab[s].id
      <3>1. \A f \in In(air[s]) : f.of = "OFFER" => h.own[f.id] # s
        <4>1. \A f \in In(air[s]) : TokenOk(s, f, h)
          BY BeforeFacts
        <4> QED
          BY <4>1 DEF TokenOk
      <3>2. In(air'[s]) \subseteq In(air[s])
        BY <1>1, TakenFacts
      <3> QED
        BY <2>1, <3>1, <3>2
    <2> QED
      BY <1>1, <1>4, <2>1, <2>2, <2>3, RunKeeps DEF l
  <1>5. CASE /\ tx' = tx
             /\ Lab!Put(s, [lab[s] EXCEPT !.st = "FAILED", !.offers = 0])
    <2> DEFINE l == [lab[s] EXCEPT !.st = "FAILED", !.offers = 0]
    <2>1. /\ l \in Status /\ l.id = lab[s].id /\ l.initiator = lab[s].initiator
          /\ l.pending = lab[s].pending /\ l.reverse = lab[s].reverse
          /\ l.rxDone = lab[s].rxDone /\ l.st = "FAILED" /\ l.turn = lab[s].turn
          /\ l.done = lab[s].done
      BY <1>2 DEF Status, Lab!Resting
    <2>2. Lab!Put(s, l)
      BY <1>5
    <2> HIDE DEF l
    <2>3. StatusOk(s, l, h) /\ JobsOk(s, l, tx[s], rx[s], h)
      BY <2>1, CancelledIsOk
    <2>4. Alters(s, p, h)
      BY <1>1, <1>5, <2>1, <2>2, <2>3, PutAlters
    <2> QED
      BY <1>1, <2>4, TakenKeeps
  <1> QED
    BY <1>3, <1>4, <1>5 DEF Lab!HearAccept

LEMMA HearProbeKeeps ==
    ASSUME NEW s, NEW p, NEW h, Before(s, p, h), air[s] # <<>>,
           Head(air[s]).of = "PROBE", Head(air[s]).id = lab[s].id, Lab!HearProbe(s),
           UNCHANGED <<offered, reported>>
    PROVE  LabInv'
  <1> DEFINE l == [lab[s] EXCEPT !.turn = @ /\ ~lab[s].initiator]
  <1>1. UNCHANGED <<tx, agreed>>
    BY DEF Lab!HearProbe
  <1>2. /\ lab[s] \in Status /\ StatusOk(s, lab[s], h) /\ lab[s].id \in Nat
        /\ JobsOk(s, lab[s], tx[s], rx[s], h) /\ PastOk(h) /\ s \in Station /\ p \in Station
        /\ p # s /\ Lab!Peer(p) = s /\ Lab!Peer(s) = p /\ h \in Past
        /\ (\A q \in Station : q = s \/ q = p)
    BY BeforeFacts, IdsBegin DEF Before
  <1>3. /\ l.id = lab[s].id /\ l.initiator = lab[s].initiator /\ ~l.turn
        /\ l.pending = lab[s].pending /\ l.reverse = lab[s].reverse
        /\ l.rxDone = lab[s].rxDone /\ l.st = lab[s].st /\ l.done = lab[s].done
        /\ l \in Status
    BY <1>2 DEF Status, StatusOk
  <1>4. /\ [l EXCEPT !.st = "MEASURING"].id = l.id
        /\ [l EXCEPT !.st = "MEASURING"].initiator = l.initiator
        /\ [l EXCEPT !.st = "MEASURING"].turn = l.turn
        /\ [l EXCEPT !.st = "MEASURING"].pending = l.pending
        /\ [l EXCEPT !.st = "MEASURING"].reverse = l.reverse
        /\ [l EXCEPT !.st = "MEASURING"].rxDone = l.rxDone
        /\ [l EXCEPT !.st = "MEASURING"].done = l.done
        /\ [l EXCEPT !.st = "MEASURING"].st = "MEASURING"
    <2> HIDE DEF l
    <2> QED
      BY <1>3 DEF Status
  <1>5. CASE air' = Lab!Taken(s) /\ UNCHANGED <<lab, rx>>
    BY <1>1, <1>5, NothingAlters, TakenKeeps
  <1>6. ASSUME Lab!Put(s, l), rx' = rx PROVE Alters(s, p, h)
    <2> HIDE DEF l
    <2>1. StatusOk(s, l, h)
      BY <1>2, <1>3 DEF StatusOk
    <2>2. JobsOk(s, l, tx[s], rx[s], h)
      BY <1>2, <1>3 DEF JobsOk
    <2> QED
      BY <1>1, <1>3, <1>6, <2>1, <2>2, PutAlters
  <1>7. CASE /\ l.rxDone /\ Lab!Put(s, l) /\ rx' = rx
             /\ air' = Lab!Answered(s, Lab!Frame("REPORT", l.id))
    <2> HIDE DEF l
    <2> DEFINE f == Lab!Frame("REPORT", l.id)
    <2>1. f \in Token /\ f.of = "REPORT" /\ f.id = lab[s].id
      BY <1>2, <1>3, FrameIsToken
    <2>2. TokenOk(p, f, h)
      BY <1>2, <1>3, <1>7, <2>1 DEF TokenOk, StatusOk
    <2>3. MaySay(p, f, h)
      BY <1>3, <1>7, <2>1, <2>2, NotMeasuredYet DEF MaySay
    <2>4. Alters(s, p, h)
      BY <1>6, <1>7
    <2> QED
      BY <1>1, <1>7, <2>1, <2>3, <2>4, AnswerKeeps
  <1>8. CASE Lab!Put(s, l) /\ air' = Lab!Taken(s) /\ rx' = rx
    <2>1. Alters(s, p, h)
      BY <1>6, <1>8
    <2> QED
      BY <1>1, <1>8, <2>1, TakenKeeps
  <1>9. CASE /\ l.st \in {"PREPARING", "MEASURING"} /\ ~l.rxDone /\ rx[s] = "none"
             /\ Lab!Put(s, [l EXCEPT !.st = "MEASURING"]) /\ air' = Lab!Taken(s)
             /\ rx' = [rx EXCEPT ![s] = "starting"]
    <2>1. PICK m : m = [l EXCEPT !.st = "MEASURING"]
      OBVIOUS
    <2>2. /\ lab'[s] = m /\ lab'[p] = lab[p] /\ rx'[s] = "starting" /\ rx'[p] = rx[p]
      BY <1>9, <2>1, BeforeFacts DEF Before, LabTypes, Lab!Put
    <2>3. /\ m.id = lab[s].id /\ m.initiator = lab[s].initiator /\ ~m.turn
          /\ m.pending = lab[s].pending /\ m.reverse = lab[s].reverse
          /\ ~m.rxDone /\ m.st = "MEASURING" /\ m.done = lab[s].done
      BY <1>3, <1>4, <1>9, <2>1
    <2>4. ~lab[s].pending
      BY <1>2, <1>3, <1>9 DEF StatusOk
    <2> HIDE DEF l
    <2>5. PICK i : i = lab[s].id
      OBVIOUS
    <2>6. <<p, i>> \in h.began /\ i \in Nat
      BY <1>2, <2>5, BeforeFacts, TailKeeps DEF TokenOk
    <2>7. PICK g : g = [h EXCEPT !.met = @ \cup {<<s, i>>}]
      OBVIOUS
    <2>8. /\ g \in Past /\ g.own = h.own /\ g.began = h.began
          /\ g.met = h.met \cup {<<s, i>>} /\ g.reported = h.reported
          /\ g.agreed = h.agreed /\ g.offered = h.offered
      <3>1. <<s, i>> \in Station \X Nat
        BY <1>2, <2>6
      <3> QED
        BY <1>2, <2>7, <3>1 DEF Past
    <2>9. Grows(s, h, g)
      BY <1>2, <2>8, NothingGrows DEF Grows
    <2>10. \A k : BothDone(k, h) <=> BothDone(k, g)
      BY <2>8 DEF BothDone
    <2>11. PastOk(g)
      BY <1>2, <2>6, <2>8, <2>10 DEF PastOk
    <2>12. StatusOk(s, m, g)
      BY <1>2, <2>3, <2>4, <2>8, <2>10 DEF StatusOk
    <2>13. JobsOk(s, m, tx[s], "starting", g)
      BY <1>2, <2>3, <2>5, <2>8 DEF JobsOk
    <2>14. /\ air'[p] = air[p] /\ In(air'[s]) \subseteq In(air[s])
           /\ InOrder(air'[s]) /\ InOrder(air'[p])
           /\ \A f \in In(air'[s]) : f.of = "OFFER" => f.id # i
      BY <1>9, <2>5, TakenFacts
    <2>15. ASSUME NEW f \in In(air'[s]) PROVE TokenOk(s, f, g)
      <3>1. f \in Token /\ TokenOk(s, f, h)
        BY <2>14, <2>15, BeforeFacts
      <3>2. f.of = "OFFER" => <<s, f.id>> \notin g.began /\ <<s, f.id>> \notin g.met
        BY <2>8, <2>14, <2>15, <3>1 DEF TokenOk
      <3> QED
        BY <1>2, <2>9, <3>1, <3>2, TokenStays
    <2>16. StillToCome(tx'[s], lab[p], air'[s]) /\ StillToCome(tx[p], lab'[s], air'[p])
      BY <1>1, <2>2, <2>3, <2>14, BeforeFacts DEF StillToCome
    <2>17. Known(g)'
      BY <1>1, <2>8 DEF Before, Known
    <2> QED
      BY <1>1, <2>2, <2>9, <2>11, <2>12, <2>13, <2>14, <2>15, <2>16, <2>17,
         BeforeFacts, OneMoves DEF Before
  <1> QED
    BY <1>5, <1>7, <1>8, <1>9 DEF Lab!HearProbe

\* A report comes in: if it is asked for, its sweep is over.
LEMMA HearReportKeeps ==
    ASSUME NEW s, NEW p, NEW h, Before(s, p, h), air[s] # <<>>,
           Head(air[s]).of = "REPORT", Head(air[s]).id = lab[s].id, Lab!HearReport(s),
           UNCHANGED <<offered, reported>>
    PROVE  LabInv'
  <1> DEFINE t == tx[s]
             l == lab[s]
  <1>1. /\ air' = Lab!Taken(s) /\ UNCHANGED <<lab, rx, agreed>>
        /\ tx' = [tx EXCEPT ![s].ready = t.at \notin {"none", "probe"}]
    BY DEF Lab!HearReport
  <1>2. PICK r : r = [t EXCEPT !.ready = t.at \notin {"none", "probe"}]
    OBVIOUS
  <1>3. /\ l \in Status /\ StatusOk(s, l, h) /\ l.id \in Nat /\ t \in Job
        /\ JobsOk(s, l, t, rx[s], h) /\ PastOk(h) /\ s \in Station /\ p \in Station
        /\ p # s /\ Lab!Peer(p) = s /\ Lab!Peer(s) = p
    BY BeforeFacts, IdsBegin DEF Before
  <1>4. Head(air[s]) \in In(air[s])
    BY BeforeFacts, TailKeeps
  <1>5. <<p, l.id>> \in h.met
    BY <1>3, <1>4, BeforeFacts DEF TokenOk
  <1>6. <<s, l.id>> \in h.began
    BY <1>3, <1>5 DEF PastOk
  <1>7. t.at # "none" => t.id = l.id
    BY <1>3, <1>6 DEF JobsOk
  <1>8. ~ToSweep(t)
    BY <1>4, <1>7, BeforeFacts DEF StillToCome, ToSweep
  <1>9. /\ r.at = t.at /\ r.id = t.id /\ (r.ready => t.at \notin {"none", "probe"})
        /\ t.at \in {"none", "probe", "flush", "sweep", "wait"}
    BY <1>2, <1>3 DEF Job
  <1>10. tx'[s] = r /\ tx'[p] = tx[p]
    BY <1>1, <1>2, <1>3, BeforeFacts DEF Before, LabTypes
  <1>11. JobsOk(s, l, r, rx[s], h)
    BY <1>3, <1>5, <1>7, <1>8, <1>9 DEF JobsOk, ToSweep
  <1>12. ToSweep(tx[p]) /\ l.rxDone => l.id # tx[p].id
    BY NotMeasuredYet
  <1>13. Alters(s, p, h)
    BY <1>1, <1>3, <1>8, <1>9, <1>10, <1>11, <1>12 DEF Alters, ToSweep
  <1> QED
    BY <1>1, <1>13, TakenKeeps

LEMMA HearEndKeeps ==
    ASSUME NEW s, NEW p, NEW h, Before(s, p, h), air[s] # <<>>,
           NEW st \in {"CANCELLED", "FAILED"}, Lab!HearEnd(s, st),
           UNCHANGED <<offered, reported>>
    PROVE  LabInv'
  <1> DEFINE l == Lab!Cancelled(lab[s], st)
  <1>1. Lab!Put(s, l) /\ air' = Lab!Taken(s) /\ UNCHANGED <<tx, rx, agreed>>
    BY DEF Lab!HearEnd
  <1>2. lab[s] \in Status
    BY BeforeFacts
  <1>3. /\ l \in Status /\ l.id = lab[s].id /\ l.initiator = lab[s].initiator
        /\ l.pending = lab[s].pending /\ l.reverse = lab[s].reverse
        /\ l.rxDone = lab[s].rxDone /\ l.st = st /\ ~l.turn /\ ~l.done
    BY <1>2 DEF Lab!Cancelled, Status, Lab!Resting
  <1> HIDE DEF l
  <1>4. StatusOk(s, l, h) /\ JobsOk(s, l, tx[s], rx[s], h)
    BY <1>3, CancelledIsOk
  <1>5. Alters(s, p, h)
    BY <1>1, <1>3, <1>4, PutAlters
  <1> QED
    BY <1>1, <1>5, TakenKeeps

\* The other has its report, and the answering station's turn comes.
LEMMA HearTurnKeeps ==
    ASSUME NEW s, NEW p, NEW h, Before(s, p, h), air[s] # <<>>,
           Head(air[s]).of = "TURN", Head(air[s]).id = lab[s].id, ~lab[s].initiator,
           Lab!HearMarker(s, Head(air[s])), UNCHANGED <<offered, reported>>
    PROVE  LabInv'
  <1> DEFINE l == lab[s]
             m == [l EXCEPT !.reverse = TRUE, !.st = "PREPARING"]
  <1>1. UNCHANGED <<rx, agreed>>
    BY DEF Lab!HearMarker
  <1>2. /\ l \in Status /\ StatusOk(s, l, h) /\ l.id \in Nat /\ h \in Past
        /\ JobsOk(s, l, tx[s], rx[s], h) /\ PastOk(h) /\ s \in Station /\ p \in Station
        /\ p # s /\ Lab!Peer(p) = s /\ Lab!Peer(s) = p /\ l.id \in 0..h.offered
        /\ (\A q \in Station : q = s \/ q = p)
    BY BeforeFacts, IdsBegin DEF Before
  <1>3. Head(air[s]) \in In(air[s])
    BY BeforeFacts, TailKeeps
  <1>4. <<p, l.id>> \in h.reported
    BY <1>2, <1>3, BeforeFacts DEF TokenOk
  <1>5. <<s, l.id>> \in h.met /\ <<p, l.id>> \in h.began
    BY <1>2, <1>4 DEF PastOk
  <1>6. ~l.pending
    BY <1>2, <1>5 DEF StatusOk
  <1>7. l.id # 0
    BY <1>2, <1>5, IdsBegin
  <1>8. h.own[l.id] = p
    BY <1>2, <1>7 DEF StatusOk, Past
  <1>9. /\ StatusOk(s, m, h) /\ m.id = l.id /\ m.rxDone = l.rxDone /\ m.reverse
        /\ m.st = "PREPARING"
    <2>1. /\ m.id = l.id /\ m.initiator = l.initiator /\ m.turn = l.turn /\ m.done = l.done
          /\ m.pending = l.pending /\ m.rxDone = l.rxDone /\ m.reverse /\ m.st = "PREPARING"
      BY <1>2 DEF Status
    <2> HIDE DEF m
    <2> QED
      BY <1>2, <1>6, <2>1 DEF StatusOk
  <1>10. CASE l.reverse
    <2>1. UNCHANGED <<lab, tx>>
      BY <1>10 DEF Lab!HearMarker
    <2>2. CASE air' = Lab!Taken(s)
      BY <1>1, <2>1, <2>2, NothingAlters, TakenKeeps
    <2>3. CASE l.st = "COMPLETE" /\ air' = Lab!Answered(s, Lab!Frame("DONE", l.id))
      <3> DEFINE f == Lab!Frame("DONE", l.id)
      <3>1. f \in Token /\ f.of = "DONE" /\ f.id = l.id
        BY <1>2, FrameIsToken
      <3>2. BothDone(l.id, h)
        BY <1>2, <2>3 DEF StatusOk, PastOk
      <3>3. MaySay(p, f, h)
        BY <1>2, <3>1, <3>2 DEF MaySay, TokenOk
      <3> QED
        BY <1>1, <2>1, <2>3, <3>1, <3>3, NothingAlters, AnswerKeeps
    <2> QED
      BY <1>10, <2>2, <2>3 DEF Lab!HearMarker
  <1>11. CASE ~l.reverse
    <2>1. Lab!Put(s, m) /\ air' = Lab!Taken(s) /\ (Lab!Run(s) \/ tx' = tx)
      BY <1>11 DEF Lab!HearMarker
    <2>2. <<s, l.id>> \notin h.began
      BY <1>2, <1>11 DEF StatusOk
    <2>3. \A f \in In(air'[s]) : f.of = "OFFER" => f.id # l.id
      BY <2>1, TakenFacts
    <2> HIDE DEF m
    <2>4. CASE Lab!Run(s)
      BY <1>1, <1>4, <1>7, <1>8, <1>9, <2>1, <2>2, <2>3, <2>4, RunKeeps
    <2>5. CASE tx' = tx
      <3>1. JobsOk(s, m, tx[s], rx[s], h)
        BY <1>2, <1>9 DEF JobsOk
      <3>2. Alters(s, p, h)
        BY <1>1, <1>9, <2>1, <2>5, <3>1, PutAlters
      <3> QED
        BY <1>1, <2>1, <2>5, <3>2, TakenKeeps
    <2> QED
      BY <2>1, <2>4, <2>5
  <1> QED
    BY <1>10, <1>11

\* The offering station sees both sweeps reported, and says so.
LEMMA HearDoneKeeps ==
    ASSUME NEW s, NEW p, NEW h, Before(s, p, h), air[s] # <<>>,
           Head(air[s]).of = "DONE", Head(air[s]).id = lab[s].id, lab[s].initiator,
           Lab!HearMarker(s, Head(air[s])), UNCHANGED <<offered, reported>>
    PROVE  LabInv'
  <1>1. PICK l : l = [lab[s] EXCEPT !.turn = FALSE, !.st = "COMPLETE"]
    OBVIOUS
  <1>2. PICK i : i = lab[s].id
    OBVIOUS
  <1>3. /\ UNCHANGED <<tx, rx>> /\ Lab!Put(s, l) /\ agreed' = agreed \cup {i}
        /\ air' = Lab!Answered(s, Lab!Frame("COMPLETE", i))
    BY <1>1, <1>2 DEF Lab!HearMarker
  <1>4. /\ lab[s] \in Status /\ StatusOk(s, lab[s], h) /\ i \in Nat /\ h \in Past
        /\ JobsOk(s, lab[s], tx[s], rx[s], h) /\ PastOk(h) /\ s \in Station /\ p \in Station
        /\ p # s /\ Lab!Peer(p) = s /\ Lab!Peer(s) = p /\ i \in 0..h.offered
    BY <1>2, BeforeFacts, IdsBegin DEF Before
  <1>5. i # 0 /\ ~lab[s].pending
    BY <1>2, <1>4 DEF StatusOk
  <1>6. BothDone(i, h)
    <2>1. Head(air[s]) \in In(air[s])
      BY BeforeFacts, TailKeeps
    <2>2. TokenOk(s, Head(air[s]), h)
      BY <2>1, BeforeFacts
    <2> QED
      BY <1>2, <1>5, <2>2 DEF TokenOk
  <1>7. /\ l.id = i /\ l.initiator /\ ~l.turn /\ l.done = lab[s].done /\ l.st = "COMPLETE"
        /\ l.pending = lab[s].pending /\ l.reverse = lab[s].reverse
        /\ l.rxDone = lab[s].rxDone
    BY <1>1, <1>2, <1>4 DEF Status
  <1>8. lab'[s] = l /\ lab'[p] = lab[p]
    BY <1>3, BeforeFacts DEF Before, LabTypes, Lab!Put
  <1>9. PICK g : g = [h EXCEPT !.agreed = @ \cup {i}]
    OBVIOUS
  <1>10. /\ g \in Past /\ g.own = h.own /\ g.began = h.began /\ g.met = h.met
         /\ g.reported = h.reported /\ g.agreed = h.agreed \cup {i} /\ g.offered = h.offered
    BY <1>4, <1>9 DEF Past
  <1>11. Grows(s, h, g)
    BY <1>4, <1>10, NothingGrows DEF Grows
  <1>12. \A k : BothDone(k, h) <=> BothDone(k, g)
    BY <1>10 DEF BothDone
  <1>13. PastOk(g)
    BY <1>4, <1>6, <1>10, <1>12 DEF PastOk
  <1>14. StatusOk(s, l, g)
    BY <1>2, <1>4, <1>5, <1>6, <1>7, <1>10, <1>12 DEF StatusOk
  <1>15. JobsOk(s, l, tx[s], rx[s], g)
    BY <1>2, <1>4, <1>7, <1>10 DEF JobsOk
  <1>16. /\ Lab!Frame("COMPLETE", i) \in Token /\ Lab!Frame("COMPLETE", i).of = "COMPLETE"
         /\ Lab!Frame("COMPLETE", i).id = i
    BY <1>4, FrameIsToken
  <1>17. TokenOk(p, Lab!Frame("COMPLETE", i), g)
    BY <1>4, <1>10, <1>16 DEF TokenOk
  <1>18. /\ In(air'[p]) = In(air[p]) \cup {Lab!Frame("COMPLETE", i)}
         /\ In(air'[s]) \subseteq In(air[s]) /\ InOrder(air'[s]) /\ InOrder(air'[p])
    <2>1. PICK f : f = Lab!Frame("COMPLETE", i)
      OBVIOUS
    <2>2. f \in Token /\ f.of # "OFFER" /\ air' = Lab!Answered(s, f)
      BY <1>3, <1>16, <2>1
    <2>3. /\ In(air'[p]) = In(air[p]) \cup {f} /\ In(air'[s]) \subseteq In(air[s])
          /\ InOrder(air'[s]) /\ InOrder(air'[p])
      BY <2>2, AnsweredFacts
    <2> QED
      BY <2>1, <2>3
  <1>19. ASSUME NEW f \in In(air'[s]) PROVE TokenOk(s, f, g)
    <2>1. f \in Token /\ TokenOk(s, f, h)
      BY <1>18, <1>19, BeforeFacts
    <2>2. f.of = "OFFER" => <<s, f.id>> \notin g.began /\ <<s, f.id>> \notin g.met
      BY <1>10, <2>1 DEF TokenOk
    <2> QED
      BY <1>4, <1>11, <2>1, <2>2, TokenStays
  <1>20. StillToCome(tx'[s], lab[p], air'[s])
    BY <1>3, <1>18, BeforeFacts DEF StillToCome
  <1>21. StillToCome(tx[p], lab'[s], air'[p])
    BY <1>2, <1>7, <1>8, <1>16, <1>18, BeforeFacts DEF StillToCome
  <1>22. Known(g)'
    BY <1>3, <1>10 DEF Before, Known
  <1> QED
    BY <1>3, <1>8, <1>11, <1>13, <1>14, <1>15, <1>17, <1>18, <1>19, <1>20, <1>21, <1>22,
       BeforeFacts, OneMoves DEF Before

\* The answering station is told so; or a marker is not meant for this one.
LEMMA HearOtherMarkerKeeps ==
    ASSUME NEW s, NEW p, NEW h, Before(s, p, h), air[s] # <<>>,
           Head(air[s]).id = lab[s].id,
           ~(Head(air[s]).of = "TURN" /\ ~lab[s].initiator),
           ~(Head(air[s]).of = "DONE" /\ lab[s].initiator),
           Lab!HearMarker(s, Head(air[s])), UNCHANGED <<offered, reported>>
    PROVE  LabInv'
  <1> DEFINE f == Head(air[s])
             finished == [lab[s] EXCEPT !.done = FALSE, !.st = "COMPLETE"]
             missed == [lab[s] EXCEPT !.turn = FALSE, !.done = FALSE, !.st = "FAILED"]
  <1>1. UNCHANGED <<tx, rx, agreed>>
    BY DEF Lab!HearMarker
  <1>2. /\ lab[s] \in Status /\ StatusOk(s, lab[s], h)
        /\ JobsOk(s, lab[s], tx[s], rx[s], h)
    BY BeforeFacts
  <1>3. CASE /\ f.of = "COMPLETE" /\ lab[s].done /\ Lab!Put(s, finished)
             /\ air' = Lab!Taken(s)
    <2>1. f \in In(air[s])
      BY BeforeFacts, TailKeeps
    <2>2. lab[s].id \in h.agreed
      <3>1. TokenOk(s, f, h)
        BY <2>1, BeforeFacts
      <3> QED
        BY <1>3, <3>1 DEF TokenOk
    <2>3. ~lab[s].initiator /\ ~lab[s].pending
      BY <1>2, <1>3 DEF StatusOk
    <2>4. /\ finished.id = lab[s].id /\ finished.initiator = lab[s].initiator
          /\ finished.turn = lab[s].turn /\ ~finished.done /\ finished.st = "COMPLETE"
          /\ finished.pending = lab[s].pending /\ finished.reverse = lab[s].reverse
          /\ finished.rxDone = lab[s].rxDone
      BY <1>2 DEF Status
    <2> HIDE DEF finished
    <2>5. StatusOk(s, finished, h)
      BY <1>2, <2>2, <2>3, <2>4 DEF StatusOk
    <2>6. JobsOk(s, finished, tx[s], rx[s], h)
      BY <1>2, <2>4 DEF JobsOk
    <2>7. Alters(s, p, h)
      BY <1>1, <1>3, <2>4, <2>5, <2>6, PutAlters
    <2> QED
      BY <1>1, <1>3, <2>7, TakenKeeps
  <1>4. CASE air' = Lab!Taken(s) /\ lab' = lab
    BY <1>1, <1>4, NothingAlters, TakenKeeps
  <1>5. CASE Lab!Put(s, missed) /\ air' = Lab!Answered(s, Lab!Frame("CANCEL", lab[s].id))
    <2>1. /\ missed \in Status /\ missed.id = lab[s].id /\ missed.initiator = lab[s].initiator
          /\ missed.pending = lab[s].pending /\ missed.reverse = lab[s].reverse
          /\ missed.rxDone = lab[s].rxDone /\ missed.st = "FAILED" /\ ~missed.turn /\ ~missed.done
      BY <1>2 DEF Status, Lab!Resting
    <2> HIDE DEF missed
    <2>2. StatusOk(s, missed, h) /\ JobsOk(s, missed, tx[s], rx[s], h)
      BY <2>1, CancelledIsOk
    <2>3. Alters(s, p, h)
      BY <1>1, <1>5, <2>1, <2>2, PutAlters
    <2> QED
      BY <1>1, <1>5, <2>3, IdsBegin, PlainIsSaid, AnswerKeeps
  <1> QED
    BY <1>3, <1>4, <1>5 DEF Lab!HearMarker

LEMMA HearKeeps ==
    ASSUME NEW s, NEW p, NEW h, Before(s, p, h), Lab!Hear(s)
    PROVE  LabInv'
  <1>1. air[s] # <<>> /\ UNCHANGED <<offered, reported>>
    BY DEF Lab!Hear, Lab!bounds
  <1>2. ~(tx[s].at = "wait" /\ tx[s].ready)
    BY DEF Before, Lab!Hear, Lab!Prompt, Lab!Goes
  <1>3. CASE Head(air[s]).of = "OFFER" /\ Lab!HearOffer(s, Head(air[s]))
    BY <1>1, <1>2, <1>3, HearOfferKeeps
  <1>4. CASE air' = Lab!Taken(s) /\ UNCHANGED <<lab, tx, rx, agreed>>
    BY <1>1, <1>4, NothingAlters, TakenKeeps
  <1>5. CASE Lab!HearAccept(s)
    BY <1>1, <1>5, HearAcceptKeeps
  <1>6. ASSUME Head(air[s]).id = lab[s].id, Head(air[s]).of = "PROBE", Lab!HearProbe(s)
        PROVE  LabInv'
    BY <1>1, <1>6, HearProbeKeeps
  <1>7. ASSUME Head(air[s]).id = lab[s].id, Head(air[s]).of = "REPORT", Lab!HearReport(s)
        PROVE  LabInv'
    BY <1>1, <1>7, HearReportKeeps
  <1>8. CASE Lab!HearEnd(s, "FAILED") \/ Lab!HearEnd(s, "CANCELLED")
    BY <1>1, <1>8, HearEndKeeps
  <1>9. ASSUME Head(air[s]).id = lab[s].id, Lab!HearMarker(s, Head(air[s]))
        PROVE  LabInv'
    BY <1>1, <1>9, HearTurnKeeps, HearDoneKeeps, HearOtherMarkerKeeps
  <1> QED
    BY <1>3, <1>4, <1>5, <1>6, <1>7, <1>8, <1>9 DEF Lab!Hear

LEMMA LabKept ==
    ASSUME Lab!LabAssumption, LabInv, [Lab!Next]_Lab!vars
    PROVE  LabInv'
  <1>1. PICK h \in Past : Known(h) /\ Consistent(h)
    BY DEF LabInv
  <1>2. CASE UNCHANGED Lab!vars
    <2>1. UNCHANGED <<lab, tx, rx, air, offered, reported, agreed>>
      BY <1>2 DEF Lab!vars
    <2>2. LabTypes' /\ Known(h)'
      BY <1>1, <2>1 DEF LabInv, LabTypes, Known
    <2>3. Consistent(h)'
      BY <1>1, <2>1 DEF Consistent, StationOk
    <2> QED
      BY <2>2, <2>3 DEF LabInv
  <1>3. ASSUME NEW s \in Station, Lab!Next,
               \/ Lab!Start(s) \/ Lab!Accept(s) \/ Lab!Reject(s) \/ Lab!Cancel(s) \/ Lab!Tick(s)
               \/ Lab!Hear(s) \/ Lab!Miss(s) \/ Lab!Work(s) \/ Lab!Listen(s) \/ Lab!Measure(s)
        PROVE  LabInv'
    <2>1. Before(s, Lab!Peer(s), h)
      BY <1>1, <1>3, LabTypesKept DEF Before, LabInv
    <2> QED
      BY <1>3, <2>1, StartKeeps, AcceptKeeps, RejectKeeps, CancelKeeps, TickKeeps, HearKeeps,
         MissKeeps, WorkKeeps, ReportedKeeps, ListenKeeps, MeasureKeeps DEF Lab!Work
  <1> QED
    BY <1>2, <1>3 DEF Lab!Next

LEMMA LabBegins == ASSUME Lab!LabAssumption, Lab!Init PROVE LabInv
  <1>1. PICK o : o \in Station
    BY DEF Lab!LabAssumption
  <1>2. PICK h : h = [own |-> [i \in Nat |-> o], began |-> {}, met |-> {}, reported |-> {},
                      agreed |-> {}, offered |-> 0]
    OBVIOUS
  <1>3. /\ h \in Past /\ h.began = {} /\ h.met = {} /\ h.reported = {} /\ h.agreed = {}
        /\ h.offered = 0
    BY <1>1, <1>2 DEF Past
  <1>4. PICK l : l = [Lab!Fresh(0, "IDLE", FALSE) EXCEPT !.pending = FALSE]
    OBVIOUS
  <1>5. /\ l \in Status /\ l.id = 0 /\ ~l.initiator /\ ~l.turn /\ ~l.done /\ ~l.pending
        /\ ~l.rxDone /\ l.st = "IDLE"
    BY <1>4 DEF Lab!Fresh, Status, Lab!Resting
  <1>6. Lab!NoJob \in Job /\ Lab!NoJob.at = "none" /\ ~Lab!NoJob.ready
    BY DEF Lab!NoJob, Job
  <1>7. /\ lab = [s \in Station |-> l] /\ tx = [s \in Station |-> Lab!NoJob]
        /\ rx = [s \in Station |-> "none"] /\ air = [s \in Station |-> <<>>]
        /\ offered = 0 /\ reported = {} /\ agreed = {}
    BY <1>4 DEF Lab!Init
  <1>8. LabTypes
    BY <1>5, <1>6, <1>7 DEF LabTypes
  <1>9. Known(h) /\ PastOk(h)
    BY <1>3, <1>7 DEF Known, PastOk
  <1>10. ASSUME NEW s \in Station PROVE StationOk(s, h)
    <2>1. StatusOk(s, l, h)
      BY <1>3, <1>5 DEF StatusOk
    <2>2. JobsOk(s, l, Lab!NoJob, "none", h)
      BY <1>3, <1>6 DEF JobsOk
    <2>3. In(air[s]) = {} /\ InOrder(air[s])
      BY <1>7 DEF In, InOrder
    <2>4. StillToCome(tx[s], lab[Lab!Peer(s)], air[s])
      BY <1>6, <1>7 DEF StillToCome, ToSweep
    <2> QED
      BY <1>7, <2>1, <2>2, <2>3, <2>4 DEF StationOk
  <1> QED
    BY <1>3, <1>8, <1>9, <1>10 DEF Consistent, LabInv

\* "Both directions completed calibration." (operations.py, _on_calibration_frame)
\* is true at whichever end says so, whatever is lost, repeated or cancelled, for
\* any numbers of attempts, calibrations and mishaps.
THEOREM CompletionsAreMutual ==
    ASSUME Lab!LabAssumption
    PROVE  Lab!Spec => []CompletionIsMutual
  <1>1. Lab!Init => LabInv
    BY LabBegins
  <1>2. LabInv /\ [Lab!Next]_Lab!vars => LabInv'
    BY LabKept
  <1>3. LabInv => CompletionIsMutual
    <2> SUFFICES ASSUME LabInv, NEW s \in Station, lab[s].st = "COMPLETE"
                 PROVE  IF lab[s].initiator
                        THEN \A t \in Station : <<t, lab[s].id>> \in reported
                        ELSE lab[s].id \in agreed
      BY DEF CompletionIsMutual, Lab!CompletionIsMutual
    <2>1. PICK h \in Past : Known(h) /\ Consistent(h)
      BY DEF LabInv
    <2>2. StatusOk(s, lab[s], h)
      BY <2>1 DEF Consistent, StationOk
    <2> QED
      BY <2>1, <2>2 DEF StatusOk, Known, BothDone
  <1> QED
    BY <1>1, <1>2, <1>3, PTL DEF Lab!Spec

----------------------------------------------------------------------------
(* Alerts.  Until a control channel is opened anew an id stands for one     *)
(* alert, because a counter is never behind an id that was made from it:   *)
(* this is the inductive invariant FloodInv, and what is shown follows.    *)

AlertId == Node \X Nat
Alert == [from : Node, no : Nat, id : AlertId, ttl : Nat]

AlertTypes ==
    /\ counter \in [Node -> Nat]
    /\ seen \in [Node -> SUBSET AlertId]
    /\ queue \in [Node -> SUBSET (Alert \X Nat)]
    /\ alerts \in Nat /\ reopens \in Nat
    /\ shown \in [Node -> SUBSET Nat] /\ heard \in [Node -> SUBSET Nat]

\* An id was made from a counter that has not gone back.
Counts(id) == id[2] <= counter[id[1]]
IdsCount ==
    /\ \A s \in Node : \A id \in seen[s] : Counts(id)
    /\ \A s \in Node : \A c \in queue[s] : Counts(c[1].id)
\* An id stands for one alert.
OneAlert == \A s, r \in Node : \A c \in queue[s], d \in queue[r] :
    c[1].id = d[1].id => c[1].no = d[1].no
\* A station that knows the id of an alert on its way has shown it.
SeenIsShown == \A s, r \in Node : \A c \in queue[s] :
    c[1].id \in seen[r] => c[1].no \in shown[r]

Orderly == IdsCount /\ OneAlert /\ SeenIsShown /\ Flood!NewAlertsComeThrough
FloodInv == AlertTypes /\ (reopens = 0 => Orderly)

\* Counters go up, one at a time.
LEMMA CountsUp ==
    ASSUME NEW n \in Nat, Flood!AlertAssumption
    PROVE  /\ Flood!Counted(n) \in Nat /\ n <= Flood!Counted(n)
           /\ n < MaxCounter => n < Flood!Counted(n)
  BY DEF Flood!Counted, Flood!AlertAssumption

\* What a relay passes on is the same alert.
LEMMA OnwardIsSame ==
    ASSUME NEW f \in Alert, NEW c \in Flood!Onward(f)
    PROVE  c \in Alert \X Nat /\ c[1].id = f.id /\ c[1].no = f.no
  <1>1. c = <<[f EXCEPT !.ttl = @ - 1], 1>> /\ f.ttl > 1
    BY DEF Flood!Onward
  <1>2. [f EXCEPT !.ttl = @ - 1] \in Alert
    BY <1>1 DEF Alert
  <1>3. QED  BY <1>1, <1>2 DEF Alert

LEMMA SendAlertKeeps ==
    ASSUME Flood!AlertAssumption, FloodInv, NEW s \in Node, Flood!SendAlert(s) PROVE FloodInv'
  <1>0. PICK id : id = Flood!NextId(s)
    OBVIOUS
  <1> DEFINE frame == [from |-> s, no |-> alerts + 1, id |-> id, ttl |-> Ttl]
             copies == {<<frame, n>> : n \in 1..Copies}
  <1>1. /\ counter[s] \in Nat /\ Flood!Counted(counter[s]) \in Nat
        /\ counter[s] < Flood!Counted(counter[s])
    BY CountsUp DEF FloodInv, AlertTypes, Flood!SendAlert
  <1>2. id \in AlertId /\ id = <<s, Flood!Counted(counter[s])>>
    BY <1>0, <1>1 DEF Flood!NextId, AlertId
  <1>3. frame \in Alert /\ frame.id = id /\ frame.no = alerts + 1
    BY <1>2 DEF Alert, Flood!AlertAssumption, FloodInv, AlertTypes
  <1> HIDE DEF frame
  <1>4. \A c \in copies : c \in Alert \X Nat /\ c[1] = frame
    BY <1>3 DEF Flood!AlertAssumption
  <1> HIDE DEF copies
  <1>5. /\ counter' = [counter EXCEPT ![s] = Flood!Counted(counter[s])]
        /\ seen' = [seen EXCEPT ![s] = @ \cup {id}]
        /\ queue' = [queue EXCEPT ![s] = @ \cup copies]
        /\ shown' = [shown EXCEPT ![s] = @ \cup {alerts + 1}]
        /\ alerts' = alerts + 1 /\ heard' = heard /\ reopens' = reopens
    BY <1>0 DEF Flood!SendAlert, copies, frame
  <1>6. AlertTypes'
    <2>1. alerts + 1 \in Nat
      BY DEF FloodInv, AlertTypes
    <2>2. QED  BY <1>1, <1>2, <1>4, <1>5, <2>1 DEF FloodInv, AlertTypes
  <1>7. ASSUME reopens = 0 PROVE Orderly'
    <2>1. AlertTypes /\ IdsCount /\ OneAlert /\ SeenIsShown /\ Flood!NewAlertsComeThrough
      BY <1>7 DEF FloodInv, Orderly
    <2>2. \A r \in Node : counter[r] <= counter'[r] /\ counter[r] \in Nat
                             /\ counter'[r] \in Nat
      BY <1>1, <1>5, <2>1 DEF AlertTypes
    <2>3. ASSUME NEW i \in AlertId, Counts(i) PROVE Counts(i)' /\ i # id
      <3>1. i[1] \in Node /\ i[2] \in Nat
        BY <2>3 DEF AlertId
      <3>2. Counts(i)'
        BY <2>2, <2>3, <3>1 DEF Counts
      <3>3. i # id
        BY <1>1, <1>2, <2>3, <3>1 DEF Counts
      <3>4. QED  BY <3>2, <3>3
    <2>4. Counts(id)'
      BY <1>1, <1>2, <1>5, <2>1 DEF Counts, AlertTypes
    <2>5. \A r \in Node : \A i \in seen'[r] :
            (i \in seen[r] /\ i \in AlertId) \/ (i = id /\ r = s)
      BY <1>5, <2>1 DEF AlertTypes
    <2>6. \A r \in Node : \A c \in queue'[r] :
            (c \in queue[r] /\ c[1] \in Alert) \/ c[1] = frame
      BY <1>4, <1>5, <2>1 DEF AlertTypes
    <2>7. \A r \in Node : \A c \in queue[r] : c[1].id \in AlertId /\ c[1].id # id
      BY <2>1, <2>3 DEF AlertTypes, Alert, IdsCount
    <2>8. IdsCount'
      BY <1>3, <2>1, <2>3, <2>4, <2>5, <2>6, <2>7 DEF IdsCount
    <2>9. OneAlert'
      BY <1>3, <2>1, <2>6, <2>7 DEF OneAlert
    <2>10. \A r \in Node : id \notin seen[r]
      BY <2>1, <2>3 DEF AlertTypes, IdsCount
    <2>11. SeenIsShown'
      <3>1. SUFFICES ASSUME NEW q \in Node, NEW r \in Node, NEW c \in queue'[q],
                            c[1].id \in seen'[r]
                     PROVE  c[1].no \in shown'[r]
        BY DEF SeenIsShown
      <3>2. CASE c[1] = frame
        BY <1>3, <1>5, <2>1, <2>5, <2>10, <3>1, <3>2 DEF AlertTypes
      <3>3. CASE c \in queue[q]
        BY <1>5, <2>1, <2>5, <2>7, <3>1, <3>3 DEF AlertTypes, SeenIsShown
      <3>4. QED  BY <2>6, <3>2, <3>3
    <2>12. Flood!NewAlertsComeThrough'
      BY <1>5, <2>1 DEF AlertTypes, Flood!NewAlertsComeThrough
    <2>13. QED  BY <2>8, <2>9, <2>11, <2>12 DEF Orderly
  <1>8. QED  BY <1>5, <1>6, <1>7 DEF FloodInv

\* A copy reaches some of the neighbours.
LEMMA TransmitKeeps ==
    ASSUME Flood!AlertAssumption, FloodInv, NEW s \in Node, Flood!Transmit(s) PROVE FloodInv'
  <1>1. PICK copy \in queue[s], listeners \in SUBSET {r \in Node : <<s, r>> \in Hears} :
          /\ Flood!Heard(s, copy[1], listeners)
          /\ queue' = [r \in Node |->
                        IF r = s THEN queue[s] \ {copy}
                        ELSE IF r \in listeners /\ Flood!News(r, copy[1])
                             THEN queue[r] \cup Flood!Onward(copy[1]) ELSE queue[r]]
    BY DEF Flood!Transmit
  <1> DEFINE f == copy[1]
  <1>2. f \in Alert /\ f.no \in Nat /\ f.id \in AlertId /\ alerts' = alerts /\ reopens' = reopens
    BY DEF FloodInv, AlertTypes, Alert, Flood!Transmit
  <1>3. \A r \in Node : \A c \in queue'[r] :
          \/ c \in queue[r]
          \/ c \in Alert \X Nat /\ c[1].id = f.id /\ c[1].no = f.no
    BY <1>1, <1>2, OnwardIsSame
  <1>4. \A r \in Node : \A i \in seen'[r] :
          i \in seen[r] \/ (i = f.id /\ f.no \in shown'[r])
    BY <1>1 DEF Flood!Heard
  <1>5. \A r \in Node : shown[r] \subseteq shown'[r]
    BY <1>1 DEF Flood!Heard
  <1>6. \A r \in Node :
          counter[r] \in Nat /\ counter'[r] \in Nat /\ counter[r] <= counter'[r]
    BY <1>1, CountsUp DEF Flood!Heard, FloodInv, AlertTypes
  <1>7. \A r \in Node : \A n \in heard'[r] :
          \/ n \in heard[r]
          \/ n = f.no /\ (f.id \in seen[r] \/ f.no \in shown'[r])
    BY <1>1 DEF Flood!Heard, Flood!News
  <1>8. AlertTypes'
    <2>1. counter' \in [Node -> Nat]
      BY <1>1, <1>6 DEF Flood!Heard
    <2>2. seen' \in [Node -> SUBSET AlertId] /\ shown' \in [Node -> SUBSET Nat]
          /\ heard' \in [Node -> SUBSET Nat]
      BY <1>1, <1>2 DEF Flood!Heard, FloodInv, AlertTypes
    <2>3. queue' \in [Node -> SUBSET (Alert \X Nat)]
      BY <1>1, <1>3 DEF FloodInv, AlertTypes
    <2>4. QED  BY <1>2, <2>1, <2>2, <2>3 DEF FloodInv, AlertTypes
  <1>9. ASSUME reopens = 0 PROVE Orderly'
    <2>1. AlertTypes /\ IdsCount /\ OneAlert /\ SeenIsShown /\ Flood!NewAlertsComeThrough
      BY <1>9 DEF FloodInv, Orderly
    <2>2. ASSUME NEW i \in AlertId, Counts(i) PROVE Counts(i)'
      BY <1>6, <2>2 DEF Counts, AlertId
    <2>3. Counts(f.id)'
      BY <1>1, <1>2, <2>1, <2>2 DEF IdsCount
    <2> HIDE DEF f
    <2>4. IdsCount'
      <3>1. \A r \in Node : \A i \in seen'[r] : Counts(i)'
        BY <1>4, <2>1, <2>2, <2>3 DEF IdsCount, AlertTypes
      <3>2. \A r \in Node : \A c \in queue'[r] : Counts(c[1].id)'
        <4>1. SUFFICES ASSUME NEW r \in Node, NEW c \in queue'[r]
                       PROVE  Counts(c[1].id)'
          OBVIOUS
        <4>2. CASE c \in queue[r]
          BY <2>1, <2>2, <4>2 DEF IdsCount, AlertTypes, Alert
        <4>3. CASE c[1].id = f.id
          BY <2>3, <4>3
        <4>4. QED  BY <1>3, <4>2, <4>3
      <3>3. QED  BY <3>1, <3>2 DEF IdsCount
    <2>5. \A q \in Node : \A c \in queue'[q] :
            \E p \in Node : \E d \in queue[p] : c[1].id = d[1].id /\ c[1].no = d[1].no
      BY <1>1, <1>3 DEF f
    <2>6. OneAlert'
      BY <2>1, <2>5 DEF OneAlert
    <2>7. \A p \in Node : \A d \in queue[p] : d[1].id = f.id => d[1].no = f.no
      BY <1>1, <2>1 DEF OneAlert, f
    <2>8. SeenIsShown'
      <3>1. SUFFICES ASSUME NEW q \in Node, NEW r \in Node, NEW c \in queue'[q],
                            c[1].id \in seen'[r]
                     PROVE  c[1].no \in shown'[r]
        BY DEF SeenIsShown
      <3>2. PICK p \in Node :
              \E d \in queue[p] : c[1].id = d[1].id /\ c[1].no = d[1].no
        BY <2>5
      <3> PICK d \in queue[p] : c[1].id = d[1].id /\ c[1].no = d[1].no
        BY <3>2
      <3>3. CASE d[1].id \in seen[r]
        BY <1>5, <2>1, <3>2, <3>3 DEF SeenIsShown
      <3>4. CASE d[1].id = f.id /\ f.no \in shown'[r]
        BY <2>7, <3>2, <3>4
      <3>5. QED  BY <1>4, <3>1, <3>2, <3>3, <3>4
    <2>9. Flood!NewAlertsComeThrough'
      <3>1. \A r \in Node : f.id \in seen[r] => f.no \in shown[r]
        BY <1>1, <2>1 DEF SeenIsShown, f
      <3>2. QED  BY <1>5, <1>7, <2>1, <3>1 DEF Flood!NewAlertsComeThrough
    <2>10. QED  BY <2>4, <2>6, <2>8, <2>9 DEF Orderly
  <1>10. QED  BY <1>2, <1>8, <1>9 DEF FloodInv

LEMMA ForgottenKeeps ==
    ASSUME Flood!AlertAssumption, FloodInv, NEW s \in Node, Flood!Forget(s) PROVE FloodInv'
  <1>1. /\ UNCHANGED <<counter, queue, alerts, reopens, shown, heard>>
        /\ seen' \in [Node -> SUBSET AlertId]
        /\ \A r \in Node : seen'[r] \subseteq seen[r]
    BY DEF Flood!Forget, FloodInv, AlertTypes
  <1>2. AlertTypes'
    BY <1>1 DEF FloodInv, AlertTypes
  <1>3. Orderly => Orderly'
    BY <1>1 DEF Orderly, IdsCount, Counts, OneAlert, SeenIsShown, Flood!NewAlertsComeThrough
  <1>4. QED  BY <1>1, <1>2, <1>3 DEF FloodInv

\* From here on nothing is promised.
LEMMA ReopenKeeps ==
    ASSUME FloodInv, NEW s \in Node, Flood!Reopen(s) PROVE FloodInv'
  <1>1. AlertTypes' /\ reopens' # 0
    BY DEF Flood!Reopen, FloodInv, AlertTypes
  <1>2. QED  BY <1>1 DEF FloodInv

\* An id stands for one alert until a control channel is opened anew
\* (orchestrator.py, _next_alert_id).
THEOREM IdsAreKept ==
    ASSUME Flood!AlertAssumption PROVE Flood!Spec => []FloodInv
  <1>1. Flood!Init => FloodInv
    BY DEF Flood!Init, FloodInv, AlertTypes, Orderly, IdsCount, OneAlert, SeenIsShown,
           Flood!NewAlertsComeThrough
  <1>2. FloodInv /\ [Flood!Next]_Flood!vars => FloodInv'
    <2>1. SUFFICES ASSUME FloodInv, [Flood!Next]_Flood!vars PROVE FloodInv'
      OBVIOUS
    <2>2. ASSUME NEW s \in Node,
                 Flood!SendAlert(s) \/ Flood!Transmit(s) \/ Flood!Forget(s) \/ Flood!Reopen(s)
          PROVE  FloodInv'
      BY <2>1, <2>2, SendAlertKeeps, TransmitKeeps, ForgottenKeeps, ReopenKeeps
    <2>3. CASE UNCHANGED Flood!vars
      BY <2>1, <2>3 DEF Flood!vars, FloodInv, AlertTypes, Orderly, IdsCount, Counts, OneAlert,
                        SeenIsShown, Flood!NewAlertsComeThrough
    <2>4. QED  BY <2>1, <2>2, <2>3 DEF Flood!Next
  <1>3. QED  BY <1>1, <1>2, PTL DEF Flood!Spec

\* Whoever hears an alert shows it, in whatever order it is sent, relayed and
\* forgotten, as long as every channel stays open (orchestrator.py, _rx_alert).
THEOREM AlertsAreShown ==
    ASSUME Flood!AlertAssumption PROVE Flood!Spec => []HeardIsShown
  <1>1. FloodInv => HeardIsShown
    BY DEF HeardIsShown, FloodInv, Orderly, Flood!HeardIsShown
  <1>2. Flood!Spec => []FloodInv
    BY IdsAreKept
  <1>3. QED  BY <1>1, <1>2, PTL

----------------------------------------------------------------------------
(* The link, the server path and the game: what is proved of their modules *)
(* holds of the instances here.                                            *)

LinkP == INSTANCE OfdmLinkProofs WITH cancelled <- ended
ServerP == INSTANCE ServerPathProofs WITH
    MaxMishaps <- MaxTroubles, mishaps <- troubles, told <- given
GameP == INSTANCE WarshipsProofs WITH MaxFaults <- MaxErrors, faults <- errors, tx <- sent

\* The link here is a link of those proofs: the two say the same, action by action.
LEMMA LinkIsProved == Link!Spec => LinkP!Spec
  <1>1. Link!Init => LinkP!Init
    BY DEF Link!Init, LinkP!Init
  <1>2. Link!StartWindow => LinkP!StartWindow
    BY DEF Link!StartWindow, Link!sender, Link!receiver, LinkP!StartWindow,
           LinkP!sender, LinkP!receiver
  <1>3. Link!SendBatch => LinkP!SendBatch
    BY DEF Link!SendBatch, Link!AsTrain, Link!sender, Link!Data, Link!receiver,
           Link!Cardinality, LinkP!SendBatch, LinkP!AsTrain, LinkP!sender, LinkP!Data,
           LinkP!receiver, LinkP!Cardinality
  <1>4. Link!SendTrain => LinkP!SendTrain
    BY DEF Link!SendTrain, Link!AsTrain, Link!sender, Link!Chunks, Link!Micro,
           Link!receiver, Link!Data, Link!Rank, Link!Cardinality, LinkP!SendTrain,
           LinkP!AsTrain, LinkP!sender, LinkP!Chunks, LinkP!Micro, LinkP!receiver,
           LinkP!Data, LinkP!Rank, LinkP!Cardinality
  <1>5. Link!Answered => LinkP!Answered
    BY DEF Link!Answered, Link!Awaited, Link!Applied, Link!Report, Link!sender,
           Link!receiver, Link!AsTrain, Link!Chunks, Link!Cardinality, LinkP!Answered,
           LinkP!Awaited, LinkP!Applied, LinkP!Report, LinkP!sender, LinkP!receiver,
           LinkP!AsTrain, LinkP!Chunks, LinkP!Cardinality
  <1>6. Link!NoAnswer => LinkP!NoAnswer
    BY DEF Link!NoAnswer, Link!sender, Link!Quiet, Link!PollsLeft, Link!Ask,
           Link!Awaited, Link!Applied, Link!receiver, Link!Data, Link!AsTrain,
           Link!Chunks, Link!Cardinality, LinkP!NoAnswer, LinkP!sender, LinkP!Quiet,
           LinkP!PollsLeft, LinkP!Ask, LinkP!Awaited, LinkP!Applied, LinkP!receiver,
           LinkP!Data, LinkP!AsTrain, LinkP!Chunks, LinkP!Cardinality
  <1>7. Link!Complete => LinkP!Complete
    BY DEF Link!Complete, Link!sender, Link!Ask, Link!receiver, Link!Data,
           LinkP!Complete, LinkP!sender, LinkP!Ask, LinkP!receiver, LinkP!Data
  <1>8. Link!SenderStops => LinkP!SenderStops
    BY DEF Link!SenderStops, Link!Working, Link!sender, Link!receiver,
           LinkP!SenderStops, LinkP!Working, LinkP!sender, LinkP!receiver
  <1>9. Link!ReceiverStep => LinkP!ReceiverStep
    BY DEF Link!ReceiverStep, Link!HearData, Link!HearPoll, Link!HearAgain,
           Link!Disturbed, Link!ReceiverGivesUp, Link!Holding, Link!Answer, Link!sender,
           Link!receiver, Link!UseRound, Link!Quiet, Link!SenderIsGone, Link!Block,
           Link!LingerRounds, Link!Working, LinkP!ReceiverStep, LinkP!HearData,
           LinkP!HearPoll, LinkP!HearAgain, LinkP!Disturbed, LinkP!ReceiverGivesUp,
           LinkP!Holding, LinkP!Answer, LinkP!sender, LinkP!receiver, LinkP!UseRound,
           LinkP!Quiet, LinkP!SenderIsGone, LinkP!Block, LinkP!LingerRounds,
           LinkP!Working
  <1>10. Link!LoseBurst => LinkP!LoseBurst
    BY DEF Link!LoseBurst, Link!sender, Link!receiver, LinkP!LoseBurst, LinkP!sender,
           LinkP!receiver
  <1>11. Link!LoseReply => LinkP!LoseReply
    BY DEF Link!LoseReply, Link!sender, Link!receiver, LinkP!LoseReply, LinkP!sender,
           LinkP!receiver
  <1>12. Link!Unheard => LinkP!Unheard
    BY DEF Link!Unheard, Link!Working, Link!sender, Link!receiver, LinkP!Unheard,
           LinkP!Working, LinkP!sender, LinkP!receiver
  <1>13. Link!Cancel => LinkP!Cancel
    BY DEF Link!Cancel, Link!Ends, Link!sender, Link!receiver, LinkP!Cancel, LinkP!Ends,
           LinkP!sender, LinkP!receiver
  <1>14. Link!Next => LinkP!Next
    BY <1>2, <1>3, <1>4, <1>5, <1>6, <1>7, <1>8, <1>9, <1>10, <1>11, <1>12, <1>13
       DEF Link!Next, LinkP!Next, Link!SenderStep, LinkP!SenderStep
  <1>15. UNCHANGED Link!vars => UNCHANGED LinkP!vars
    BY DEF Link!vars, Link!sender, Link!receiver, LinkP!vars, LinkP!sender,
           LinkP!receiver
  <1>16. [Link!Next]_Link!vars => [LinkP!Next]_LinkP!vars BY <1>14, <1>15
  <1> QED BY <1>1, <1>16, PTL DEF Link!Spec, LinkP!Spec

\* The server path here is one of those proofs.
LEMMA ServerIsProved == Server!Spec => ServerP!Spec
  <1>1. Server!Init => ServerP!Init
    BY DEF Server!Init, Server!Idle, ServerP!Init, ServerP!Idle
  <1>2. Server!SendQueued => ServerP!SendQueued
    BY DEF Server!SendQueued, Server!Becomes, Server!Verdict, Server!Now,
           Server!ByRadio, Server!Send, Server!Held, Server!MayRadio, Server!ToServer,
           ServerP!SendQueued, ServerP!Becomes, ServerP!Verdict, ServerP!Now,
           ServerP!ByRadio, ServerP!Send, ServerP!Held, ServerP!MayRadio,
           ServerP!ToServer
  <1>3. Server!Leave => ServerP!Leave
    BY DEF Server!Leave, Server!Verdict, Server!Now, Server!Becomes, Server!Send,
           Server!Held, Server!ToServer, ServerP!Leave, ServerP!Verdict, ServerP!Now,
           ServerP!Becomes, ServerP!Send, ServerP!Held, ServerP!ToServer
  <1>4. Server!Again => ServerP!Again
    BY DEF Server!Again, Server!Mishap, Server!Held, Server!Now, Server!Becomes,
           Server!Send, Server!Verdict, Server!ToServer, ServerP!Again, ServerP!Mishap,
           ServerP!Held, ServerP!Now, ServerP!Becomes, ServerP!Send, ServerP!Verdict,
           ServerP!ToServer
  <1>5. Server!Worker => ServerP!Worker
    BY DEF Server!Worker, Server!Refused, Server!Upload, Server!Put, Server!Ask,
           Server!Answer, Server!Publish, Server!File, Server!Ends, Server!world,
           Server!At, Server!Taken, Server!Held, Server!Unknown, Server!OwesReceipt,
           Server!Filed, Server!Mishap, ServerP!Worker, ServerP!Refused, ServerP!Upload,
           ServerP!Put, ServerP!Ask, ServerP!Answer, ServerP!Publish, ServerP!File,
           ServerP!Ends, ServerP!world, ServerP!At, ServerP!Taken, ServerP!Held,
           ServerP!Unknown, ServerP!OwesReceipt, ServerP!Filed, ServerP!Mishap
  <1>6. Server!Tick => ServerP!Tick
    BY DEF Server!Tick, Server!Drained, Server!Now, Server!Receipts, Server!FellBack,
           Server!Resent, Server!Connected, Server!Offered, Server!Becomes, Server!ByRadio,
           Server!Retained, Server!Verdict, Server!ToServer, Server!Held, Server!Send,
           Server!MayRadio, ServerP!Tick, ServerP!Drained, ServerP!Now,
           ServerP!Receipts, ServerP!FellBack, ServerP!Resent, ServerP!Connected,
           ServerP!Offered, ServerP!Becomes, ServerP!ByRadio, ServerP!Retained, ServerP!Verdict,
           ServerP!ToServer, ServerP!Held, ServerP!Send, ServerP!MayRadio
  <1>7. Server!Flush => ServerP!Flush
    BY DEF Server!Flush, Server!world, ServerP!Flush, ServerP!world
  <1>8. Server!Time => ServerP!Time
    BY DEF Server!Time, Server!world, ServerP!Time, ServerP!world
  <1>9. Server!RadioEnds => ServerP!RadioEnds
    BY DEF Server!RadioEnds, Server!world, ServerP!RadioEnds, ServerP!world
  <1>10. Server!ServerMoves => ServerP!ServerMoves
    BY DEF Server!ServerMoves, Server!Final, ServerP!ServerMoves, ServerP!Final
  <1>11. Server!Toggle => ServerP!Toggle
    BY DEF Server!Toggle, Server!Mishap, ServerP!Toggle, ServerP!Mishap
  <1>12. Server!Crash => ServerP!Crash
    BY DEF Server!Crash, Server!Mishap, Server!Idle, Server!Reloaded, ServerP!Crash,
           ServerP!Mishap, ServerP!Idle, ServerP!Reloaded
  <1>13. Server!Next => ServerP!Next
    BY <1>2, <1>3, <1>4, <1>5, <1>6, <1>7, <1>8, <1>9, <1>10, <1>11, <1>12
       DEF Server!Next, ServerP!Next
  <1>14. UNCHANGED Server!vars => UNCHANGED ServerP!vars
    BY DEF Server!vars, ServerP!vars
  <1>15. [Server!Next]_Server!vars => [ServerP!Next]_ServerP!vars BY <1>13, <1>14
  <1> QED BY <1>1, <1>15, PTL DEF Server!Spec, ServerP!Spec

\* The game here is a game of those proofs: first what its steps compute.
LEMMA GameIsProved == Game!Spec => GameP!Spec
  <1>1. Game!Init => GameP!Init
    BY DEF Game!Init, Game!NewGame, Game!NoFrame, Game!NoEvent, Game!NoTurn, GameP!Init,
           GameP!NewGame, GameP!NoFrame, GameP!NoEvent, GameP!NoTurn
  <1>2. \A g, e : Game!Arriving(g, e) = GameP!Arriving(g, e)
    BY DEF Game!Arriving, Game!Started, Game!Forget, Game!NoTurn, GameP!Arriving,
           GameP!Started, GameP!Forget, GameP!NoTurn
  <1>3. \A g, e : Game!Expected(g, e) <=> GameP!Expected(g, e)
    BY DEF Game!Expected, Game!Results, Game!Shooting, Game!Ended, GameP!Expected,
           GameP!Results, GameP!Shooting, GameP!Ended
  <1>4. \A p, g, e : Game!Valid(p, g, e) <=> GameP!Valid(p, g, e)
    BY DEF Game!Valid, Game!OfLength, Game!Cardinality, GameP!Valid, GameP!OfLength,
           GameP!Cardinality
  <1>5. \A g, e : Game!Again(g, e) = GameP!Again(g, e)
    BY DEF Game!Again, Game!Pause, Game!Ackable, Game!Queue, Game!Ack, Game!ResponseTo,
           Game!Forget, Game!Results, Game!Event, Game!NoEvent, Game!NoTurn,
           GameP!Again, GameP!Pause, GameP!Ackable, GameP!Queue, GameP!Ack,
           GameP!ResponseTo, GameP!Forget, GameP!Results, GameP!Event, GameP!NoEvent,
           GameP!NoTurn
  <1>6. \A p, session : Game!HearInvite(p, session) = GameP!HearInvite(p, session)
    BY DEF Game!HearInvite, Game!Other, Game!NewGame, Game!Queue, Game!Event,
           Game!NoEvent, Game!NoTurn, GameP!HearInvite, GameP!Other, GameP!NewGame,
           GameP!Queue, GameP!Event, GameP!NoEvent, GameP!NoTurn
  <1>7. \A p, g, e : Game!ShotAt(p, g, e) = GameP!ShotAt(p, g, e)
    BY DEF Game!ShotAt, Game!Shoot, Game!Queue, GameP!ShotAt, GameP!Shoot, GameP!Queue
  <1>8. \A g, e : Game!AckOf(g, e) = GameP!AckOf(g, e)
    BY DEF Game!AckOf, Game!Forget, Game!Started, Game!Results, GameP!AckOf,
           GameP!Forget, GameP!Started, GameP!Results
  <1>9. \A g, e : Game!ResultOf(g, e) = GameP!ResultOf(g, e)
    BY DEF Game!ResultOf, Game!Forget, GameP!ResultOf, GameP!Forget
  <1>10. \A p, g, e : Game!Outcome(p, g, e) = GameP!Outcome(p, g, e)
    BY <1>7, <1>8, <1>9 DEF Game!Outcome, Game!Forget, Game!NoTurn, Game!Started,
                            Game!Results, GameP!Outcome, GameP!Forget, GameP!NoTurn,
                            GameP!Started, GameP!Results
  <1>11. \A g : Game!Pause(g) = GameP!Pause(g)
    BY DEF Game!Pause, GameP!Pause
  <1>12. \A g, e : Game!Queue(g, e) = GameP!Queue(g, e)
    BY DEF Game!Queue, GameP!Queue
  <1>13. \A e : Game!Ack(e) = GameP!Ack(e)
    BY DEF Game!Ack, Game!Event, Game!NoEvent, Game!NoTurn, GameP!Ack, GameP!Event,
           GameP!NoEvent, GameP!NoTurn
  <1>14. Game!Results = GameP!Results
    BY DEF Game!Results, GameP!Results
  <1>15. Game!Ackable = GameP!Ackable
    BY DEF Game!Ackable, Game!Results, GameP!Ackable, GameP!Results
  <1>16. \A p, g, e : Game!New(p, g, e) = GameP!New(p, g, e)
    <2> TAKE p, g, e
    <2> DEFINE h == Game!Arriving(g, e)
               k == [Game!Outcome(p, h, e) EXCEPT !.history = @ \cup {e}]
    <2>1. h = GameP!Arriving(g, e) BY <1>2
    <2>2. Game!Outcome(p, h, e) = GameP!Outcome(p, h, e) BY <1>10
    <2>3. Game!Expected(h, e) <=> GameP!Expected(h, e) BY <1>3
    <2>4. Game!Valid(p, h, e) <=> GameP!Valid(p, h, e) BY <1>4
    <2>5. Game!Pause(h) = GameP!Pause(h) BY <1>11
    <2>6. Game!Queue(k, Game!Ack(e)) = GameP!Queue(k, GameP!Ack(e))
      BY <1>12, <1>13
    <2> QED BY <2>1, <2>2, <2>3, <2>4, <2>5, <2>6, <1>14, <1>15
            DEF Game!New, GameP!New
  <1>17. ASSUME NEW p \in Player, Game!Invite(p) PROVE GameP!Invite(p)
    BY <1>17 DEF Game!Invite, Game!Play, Game!Queue, Game!NewGame, Game!Event,
                 Game!OnAir, Game!NoEvent, Game!NoTurn, GameP!Invite, GameP!Play,
                 GameP!Queue, GameP!NewGame, GameP!Event, GameP!OnAir, GameP!NoEvent,
                 GameP!NoTurn
  <1>18. ASSUME NEW p \in Player, Game!Answer(p) PROVE GameP!Answer(p)
    BY <1>18 DEF Game!Answer, Game!Play, Game!Queue, Game!Event, Game!OnAir,
                 Game!NoEvent, Game!NoTurn, GameP!Answer, GameP!Play, GameP!Queue,
                 GameP!Event, GameP!OnAir, GameP!NoEvent, GameP!NoTurn
  <1>19. ASSUME NEW p \in Player, Game!Ready(p) PROVE GameP!Ready(p)
    BY <1>19 DEF Game!Ready, Game!Play, Game!Started, Game!Queue, Game!Event,
                 Game!OnAir, Game!NoEvent, Game!NoTurn, GameP!Ready, GameP!Play,
                 GameP!Started, GameP!Queue, GameP!Event, GameP!OnAir, GameP!NoEvent,
                 GameP!NoTurn
  <1>20. ASSUME NEW p \in Player, Game!Fire(p) PROVE GameP!Fire(p)
    BY <1>20 DEF Game!Fire, Game!Play, Game!Queue, Game!Shot, Game!OnAir, Game!Event,
                 Game!NoEvent, Game!NoTurn, GameP!Fire, GameP!Play, GameP!Queue,
                 GameP!Shot, GameP!OnAir, GameP!Event, GameP!NoEvent, GameP!NoTurn
  <1>21. ASSUME NEW p \in Player, Game!End(p) PROVE GameP!End(p)
    BY <1>21 DEF Game!End, Game!Ended, Game!Play, Game!Queue, Game!Event, Game!Disturb,
                 Game!NoEvent, Game!Late, Game!NoTurn, GameP!End, GameP!Ended,
                 GameP!Play, GameP!Queue, GameP!Event, GameP!Disturb, GameP!NoEvent,
                 GameP!Late, GameP!NoTurn
  <1>22. ASSUME NEW p \in Player, Game!Resume(p) PROVE GameP!Resume(p)
    BY <1>22 DEF Game!Resume, Game!Play, Game!Disturb, Game!Late, GameP!Resume,
                 GameP!Play, GameP!Disturb, GameP!Late
  <1>23. ASSUME NEW p \in Player, Game!Transmit(p) PROVE GameP!Transmit(p)
    BY <1>23 DEF Game!Transmit, Game!NoFrame, Game!Attempts, Game!InTime, Game!Late,
                 Game!Play, Game!Pause, Game!NoEvent, Game!Other, Game!Calm,
                 Game!NoTurn, GameP!Transmit, GameP!NoFrame, GameP!Attempts,
                 GameP!InTime, GameP!Late, GameP!Play, GameP!Pause, GameP!NoEvent,
                 GameP!Other, GameP!Calm, GameP!NoTurn
  <1>24. ASSUME NEW p \in Player, Game!Expire(p) PROVE GameP!Expire(p)
    BY <1>24 DEF Game!Expire, Game!Play, Game!Disturb, Game!Late, GameP!Expire,
                 GameP!Play, GameP!Disturb, GameP!Late
  <1>25. ASSUME NEW p \in Player, Game!Sent(p) PROVE GameP!Sent(p)
    BY <1>25 DEF Game!Sent, Game!NoFrame, Game!Other, Game!NoEvent, Game!NoTurn,
                 GameP!Sent, GameP!NoFrame, GameP!Other, GameP!NoEvent, GameP!NoTurn
  <1>26. ASSUME NEW p \in Player, Game!TxDone(p) PROVE GameP!TxDone(p)
    BY <1>26 DEF Game!TxDone, Game!Play, Game!Reported, Game!Pause, Game!Results,
                 GameP!TxDone, GameP!Play, GameP!Reported, GameP!Pause, GameP!Results
  <1>27. ASSUME NEW p \in Player, Game!Receive(p) PROVE GameP!Receive(p)
    BY <1>27, <1>5, <1>6, <1>16 DEF Game!Receive, Game!Play, Game!Heard, Game!Late,
                                    GameP!Receive, GameP!Play, GameP!Heard, GameP!Late
  <1>28. Game!Next => GameP!Next
    BY <1>17, <1>18, <1>19, <1>20, <1>21, <1>22, <1>23, <1>24, <1>25, <1>26, <1>27
       DEF Game!Next, GameP!Next
  <1>29. UNCHANGED Game!vars => UNCHANGED GameP!vars
    BY DEF Game!vars, GameP!vars
  <1>30. [Game!Next]_Game!vars => [GameP!Next]_GameP!vars BY <1>28, <1>29
  <1> QED BY <1>1, <1>30, PTL DEF Game!Spec, GameP!Spec

\* A sender that reports success is right: the receiver holds every block.
THEOREM SuccessMeansDelivery ==
    ASSUME Link!LinkAssumption PROVE Link!Spec => []SuccessIsDelivery
  <1>1. LinkP!LinkAssumption BY DEF Link!LinkAssumption, LinkP!LinkAssumption
  <1>2. LinkP!Spec => []LinkP!SuccessIsDelivery BY <1>1, LinkP!SuccessMeansDelivery
  <1>3. LinkP!SuccessIsDelivery => SuccessIsDelivery
    BY DEF SuccessIsDelivery, Link!SuccessIsDelivery, LinkP!SuccessIsDelivery,
           Link!Block, LinkP!Block
  <1> QED BY <1>2, <1>3, LinkIsProved, PTL

\* A transfer nobody cancelled fails only behind more losses than it has retries,
\* or after all has arrived.
THEOREM FailuresAreExplained ==
    ASSUME Link!LinkAssumption PROVE Link!Spec => []FailureIsExplained
  <1>1. LinkP!LinkAssumption BY DEF Link!LinkAssumption, LinkP!LinkAssumption
  <1>2. LinkP!Spec => []LinkP!FailureIsExplained BY <1>1, LinkP!FailuresAreExplained
  <1>3. LinkP!FailureIsExplained => FailureIsExplained
    BY DEF FailureIsExplained, Link!FailureIsExplained, Link!Block,
           LinkP!FailureIsExplained, LinkP!Block
  <1> QED BY <1>2, <1>3, LinkIsProved, PTL

\* A message goes by the server or by radio, not by both at once.
THEOREM OneWayOnly == Server!Spec => OneWayAtATime
  <1>1. ServerP!Spec => ServerP!OneWayAtATime BY ServerP!OneWayOnly
  <1>2. ServerP!OneWayAtATime => OneWayAtATime
    BY DEF OneWayAtATime, Server!OneWayAtATime, Server!vars, ServerP!OneWayAtATime,
           ServerP!vars
  <1> QED BY <1>1, <1>2, ServerIsProved, PTL

\* The players take turns, and who has won, and what was hit, is so.
THEOREM GamesAreFair == ASSUME Game!GameAssumption PROVE Game!Spec => []FairPlay
  <1>1. GameP!GameAssumption BY DEF Game!GameAssumption, GameP!GameAssumption
  <1>2. GameP!Spec => [](GameP!TurnsAgree /\ GameP!VerdictsAreTrue)
    BY <1>1, GameP!GamesAreFair
  <1>3. GameP!TurnsAgree /\ GameP!VerdictsAreTrue => FairPlay
    BY DEF FairPlay, Game!TurnsAgree, Game!VerdictsAreTrue, Game!Other, Game!Attacking,
           Game!Before, Game!Shooting, GameP!TurnsAgree, GameP!VerdictsAreTrue,
           GameP!Other, GameP!Attacking, GameP!Before, GameP!Shooting
  <1> QED BY <1>2, <1>3, GameIsProved, PTL
=============================================================================
