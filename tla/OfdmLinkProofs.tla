--------------------------- MODULE OfdmLinkProofs ---------------------------
(***************************************************************************)
(* Proofs about OfdmLink for messages of every length, every size of       *)
(* window and microburst, every number of retries and every bound.  The    *)
(* inductive invariant LinkInv says that nobody knows more than is true:    *)
(* an answer on its way reports blocks the receiver holds, and so the       *)
(* blocks the sender has passed over are held.  The second part is about a  *)
(* patient link: CalmInv keeps the account of what was lost, attempt by     *)
(* attempt, until a sender fails for it.                                    *)
(***************************************************************************)
EXTENDS OfdmLink, FiniteSetTheorems, WellFoundedInduction, TLAPS

Midway == {"send", "await", "polled"}

\* A burst carries blocks of the message; a legacy burst just the one it names.
GoodBurst(b, m) ==
    /\ b \in Burst
    /\ m = "legacy" => b.kind = "data" /\ b.blocks = {b.id}
\* An answer says what the receiver holds; a legacy ACK, that it has the block.
GoodReply(r, H, m) ==
    /\ r \in Reply
    /\ r.held \subseteq H
    /\ m = "legacy" /\ r.ok => r.id \in H

SenderInv ==
    /\ mode \in {"superframe", "train", "legacy"}
    /\ spc \in {"window", "sent", "failed"} \cup Midway
    /\ first \in 1..(N + 1)
    /\ 1..(first - 1) \subseteq held
    /\ spc \in Midway =>
        /\ \E size \in Nat \ {0} :
             first + size <= N + 1 /\ window = first..(first + size - 1)
        /\ mode = "legacy" => window = {first}
        /\ pending \subseteq window /\ window \ pending \subseteq held
        /\ unsent \subseteq pending
    /\ spc = "sent" => first = N + 1
ReceiverInv ==
    /\ held \subseteq Block
    /\ rpc \in {"listen", "linger", "returned", "quiet"}
    /\ held = Block => rpc \in {"linger", "returned"}
    /\ mode = "legacy" => rpc # "linger"
AirInv ==
    /\ toR \in Seq(Burst) /\ toS \in Seq(Reply)
    /\ \A i \in 1..Len(toR) : GoodBurst(toR[i], mode)
    /\ \A i \in 1..Len(toS) : GoodReply(toS[i], held, mode)

LinkInv == SenderInv /\ ReceiverInv /\ AirInv

----------------------------------------------------------------------------
(* Lemmas about bursts, answers and queues                                 *)

\* Taking the oldest element leaves the others in their order.
LEMMA TailIs ==
    ASSUME NEW S, NEW q \in Seq(S), q # <<>>
    PROVE  /\ Head(q) \in S /\ Head(q) = q[1] /\ 1 \in 1..Len(q)
           /\ Tail(q) \in Seq(S)
           /\ \A i \in 1..Len(Tail(q)) : i + 1 \in 1..Len(q) /\ Tail(q)[i] = q[i + 1]
  OBVIOUS

\* Appending keeps what was there.
LEMMA AppendIs ==
    ASSUME NEW S, NEW q \in Seq(S), NEW e \in S
    PROVE  /\ Append(q, e) \in Seq(S)
           /\ \A i \in 1..Len(Append(q, e)) :
                (i \in 1..Len(q) /\ Append(q, e)[i] = q[i]) \/ Append(q, e)[i] = e
  OBVIOUS

\* Every element of a train joined to a queue is one of either.
LEMMA JoinIs ==
    ASSUME NEW S, NEW q \in Seq(S), NEW t \in Seq(S)
    PROVE  /\ q \o t \in Seq(S)
           /\ \A i \in 1..Len(q \o t) :
                \/ i \in 1..Len(q) /\ (q \o t)[i] = q[i]
                \/ \E j \in 1..Len(t) : (q \o t)[i] = t[j]
  <1>1. q \o t \in Seq(S) /\ Len(q \o t) = Len(q) + Len(t)
    OBVIOUS
  <1>2. ASSUME NEW i \in 1..Len(q \o t)
        PROVE  \/ i \in 1..Len(q) /\ (q \o t)[i] = q[i]
               \/ \E j \in 1..Len(t) : (q \o t)[i] = t[j]
    <2>1. CASE i <= Len(q)
      BY <2>1, <1>1
    <2>2. CASE ~(i <= Len(q))
      <3>1. i - Len(q) \in 1..Len(t) /\ (q \o t)[i] = t[i - Len(q)]
        BY <2>2, <1>1
      <3>2. QED  BY <3>1
    <2>3. QED  BY <2>1, <2>2
  <1>3. QED  BY <1>1, <1>2

\* A window holds as many blocks as it is wide.
LEMMA WindowSize ==
    ASSUME NEW f \in Nat, NEW size \in Nat \ {0}
    PROVE  Cardinality(f..(f + size - 1)) = size
  <1>1. f \in Int /\ f + size - 1 \in Int /\ ~(f > f + size - 1)
    OBVIOUS
  <1>2. Cardinality(f..(f + size - 1)) = (f + size - 1) - f + 1
    BY <1>1, FS_Interval
  <1>3. QED  BY <1>2

\* More blocks in the receiver's hands leave every answer true.
LEMMA RepliesStayTrue ==
    ASSUME AirInv, NEW H, held \subseteq H
    PROVE  \A i \in 1..Len(toS) : GoodReply(toS[i], H, mode)
  BY DEF AirInv, GoodReply

----------------------------------------------------------------------------
(* The sender's part of the invariant                                      *)

\* An answer that reports held blocks, or none, leaves the sender's part true.
LEMMA AppliedKeeps ==
    ASSUME LinkAssumption, SenderInv, spc \in Midway, NEW report,
           report \subseteq held, Applied(report),
           UNCHANGED <<mode, held>>
    PROVE  SenderInv'
  <1> DEFINE rest == pending \ report
  <1> USE DEF LinkAssumption
  <1>1. PICK size \in Nat \ {0} :
          first + size <= N + 1 /\ window = first..(first + size - 1)
    BY DEF SenderInv
  <1>2. pending' = rest /\ window' = window /\ rest \subseteq window
        /\ window \ rest \subseteq held
    BY DEF Applied, SenderInv
  <1>3. CASE rest = {}
    <2>0. Cardinality(window) = size
      BY <1>1, WindowSize DEF SenderInv
    <2>1. first' = first + size /\ spc' = "window"
      BY <1>3, <2>0 DEF Applied
    <2>2. window \subseteq held
      BY <1>2, <1>3
    <2>3. \A b \in 1..(first' - 1) : b \in 1..(first - 1) \/ b \in window
      BY <1>1, <2>1 DEF SenderInv
    <2>4. first' \in 1..(N + 1) /\ 1..(first' - 1) \subseteq held
      BY <1>1, <2>1, <2>2, <2>3 DEF SenderInv
    <2>5. QED  BY <2>1, <2>4 DEF SenderInv, Midway
  <1>4. CASE rest # {}
    <2>1. first' = first /\ spc' \in {"send", "failed"}
          /\ (spc' = "send" => unsent' \subseteq rest)
      BY <1>4 DEF Applied
    <2>2. QED  BY <1>1, <1>2, <2>1 DEF SenderInv, Midway
  <1>5. QED  BY <1>3, <1>4

\* The sender's part speaks of nothing else than these.
LEMMA SenderRests ==
    ASSUME SenderInv, held \subseteq held', held' \subseteq Block,
           UNCHANGED <<mode, spc, first, window, pending, unsent>>
    PROVE  SenderInv'
  BY DEF SenderInv, Midway

LEMMA Quotient ==
    ASSUME NEW k \in Nat, NEW c \in Nat \ {0}
    PROVE  (k + c - 1) \div c \in Nat
  OBVIOUS

\* The sender's steps.
LEMMA StartWindowKeeps ==
    ASSUME LinkAssumption, LinkInv, StartWindow PROVE LinkInv'
  <1> USE DEF LinkAssumption
  <1>1. PICK size \in 1..(IF mode = "legacy" THEN 1 ELSE Window) :
          first + size - 1 <= N /\ window' = first..(first + size - 1)
    BY DEF StartWindow
  <1>2. /\ size \in Nat \ {0} /\ first + size <= N + 1
        /\ mode = "legacy" => window' = {first}
    BY <1>1 DEF LinkInv, SenderInv
  <1>3. SenderInv'
    <2>1. UNCHANGED <<mode, first, held>> /\ pending' = window' /\ unsent' = window'
          /\ spc' = "send"
      BY DEF StartWindow, receiver
    <2>2. \E k \in Nat \ {0} :
            first + k <= N + 1 /\ window' = first..(first + k - 1)
      BY <1>1, <1>2
    <2>3. QED  BY <1>2, <2>1, <2>2 DEF LinkInv, SenderInv, Midway
  <1>4. ReceiverInv' /\ AirInv'
    BY DEF LinkInv, ReceiverInv, AirInv, GoodBurst, GoodReply, StartWindow, receiver
  <1>5. QED  BY <1>3, <1>4 DEF LinkInv

LEMMA SendBatchKeeps ==
    ASSUME LinkAssumption, LinkInv, SendBatch PROVE LinkInv'
  <1> USE DEF LinkAssumption
  <1>1. PICK last \in unsent :
          /\ unsent' = unsent \ {b \in unsent : b <= last}
          /\ toR' = Append(toR, Data(first, {b \in unsent : b <= last}, FALSE))
    BY DEF SendBatch
  <1> DEFINE batch == {b \in unsent : b <= last}
             new == Data(first, batch, FALSE)
  <1>2. /\ unsent \subseteq Block /\ first \in Nat
        /\ mode = "legacy" => unsent \subseteq {first}
    BY DEF LinkInv, SenderInv, SendBatch, Midway, Block
  <1>3. mode = "legacy" => batch = {first}
    <2>1. SUFFICES ASSUME mode = "legacy" PROVE batch = {first}
      OBVIOUS
    <2>2. last = first /\ unsent = {first} /\ first <= first
      BY <1>1, <1>2, <2>1
    <2>3. QED  BY <2>2
  <1>4. new \in Burst /\ new.kind = "data" /\ new.blocks = batch /\ new.id = first
    BY <1>2 DEF Data, Burst, LinkInv, SenderInv
  <1>5. GoodBurst(new, mode)
    BY <1>3, <1>4 DEF GoodBurst, SendBatch
  <1>6. SenderInv'
    BY <1>1 DEF LinkInv, SenderInv, SendBatch, Midway, receiver
  <1>7. toR' \in Seq(Burst) /\ \A i \in 1..Len(toR') : GoodBurst(toR'[i], mode)
    <2>1. toR \in Seq(Burst) /\ \A i \in 1..Len(toR) : GoodBurst(toR[i], mode)
      BY DEF LinkInv, AirInv, GoodBurst, SendBatch
    <2>2. toR' = Append(toR, new) /\ new \in Burst
      BY <1>1, <1>4
    <2>3. /\ Append(toR, new) \in Seq(Burst)
          /\ \A i \in 1..Len(Append(toR, new)) :
               (i \in 1..Len(toR) /\ Append(toR, new)[i] = toR[i])
               \/ Append(toR, new)[i] = new
      BY <2>1, <2>2, AppendIs
    <2>4. QED  BY <1>5, <2>1, <2>2, <2>3
  <1>8. ReceiverInv' /\ AirInv'
    BY <1>7 DEF LinkInv, ReceiverInv, AirInv, GoodBurst, GoodReply, SendBatch, receiver
  <1>9. QED  BY <1>6, <1>8 DEF LinkInv

LEMMA ChunksIsCount ==
    ASSUME LinkAssumption, pending \subseteq Block
    PROVE  Chunks \in Nat
  <1>1. IsFiniteSet(Block)
    <2>1. 1 \in Int /\ N \in Int
      BY DEF LinkAssumption
    <2>2. QED  BY <2>1, FS_Interval DEF Block
  <1>2. Cardinality(pending) \in Nat
    BY <1>1, FS_Subset, FS_CardinalityType
  <1>3. QED  BY <1>2, Quotient DEF Chunks, LinkAssumption

LEMMA SendTrainKeeps ==
    ASSUME LinkAssumption, LinkInv, SendTrain PROVE LinkInv'
  <1> USE DEF LinkAssumption
  <1> DEFINE train == [i \in 1..Chunks |-> Micro(i)]
  <1>1. pending \subseteq Block
    BY DEF LinkInv, SenderInv, SendTrain, Midway, Block
  <1>2. Chunks \in Nat
    BY <1>1, ChunksIsCount
  <1>3. \A i \in 1..Chunks : Micro(i) \in Burst
    BY <1>1, <1>2 DEF Micro, Data, Burst, LinkInv, SenderInv
  <1>4. train \in Seq(Burst) /\ Len(train) = Chunks
        /\ \A j \in 1..Len(train) : train[j] \in Burst
    BY <1>2, <1>3
  <1>5. mode = "train"
    BY DEF SendTrain, AsTrain
  <1>6. SenderInv'
    BY DEF LinkInv, SenderInv, SendTrain, Midway, receiver
  <1>7. toR' \in Seq(Burst) /\ \A i \in 1..Len(toR') : GoodBurst(toR'[i], mode)
    <2>1. toR \in Seq(Burst) /\ \A i \in 1..Len(toR) : GoodBurst(toR[i], mode)
      BY DEF LinkInv, AirInv
    <2>2. toR' = toR \o train /\ mode' = mode
      BY DEF SendTrain
    <2>3. /\ toR \o train \in Seq(Burst)
          /\ \A i \in 1..Len(toR \o train) :
               \/ i \in 1..Len(toR) /\ (toR \o train)[i] = toR[i]
               \/ \E j \in 1..Len(train) : (toR \o train)[i] = train[j]
      <3> HIDE DEF train
      <3>1. QED  BY <1>4, <2>1, JoinIs
    <2>4. QED
      <3> HIDE DEF train
      <3>1. QED  BY <1>4, <1>5, <2>1, <2>2, <2>3 DEF GoodBurst
  <1>8. ReceiverInv' /\ AirInv'
    BY <1>7 DEF LinkInv, ReceiverInv, AirInv, GoodReply, SendTrain, receiver
  <1>9. QED  BY <1>6, <1>8 DEF LinkInv

\* What an answer is taken to report is held.
LEMMA ReportIsTrue ==
    ASSUME LinkInv, NEW r, GoodReply(r, held, mode) PROVE Report(r) \subseteq held
  BY DEF Report, GoodReply

LEMMA AnsweredKeeps ==
    ASSUME LinkAssumption, LinkInv, Answered PROVE LinkInv'
  <1>1. /\ toS \in Seq(Reply) /\ toS # <<>> /\ toS' = Tail(toS)
        /\ \A i \in 1..Len(toS) : GoodReply(toS[i], held, mode)
    BY DEF LinkInv, AirInv, Answered
  <1>2. UNCHANGED <<mode, held, rpc, toR>>
    BY DEF Answered, receiver
  <1>3. GoodReply(Head(toS), held, mode)
    BY <1>1, TailIs
  <1>4. toS' \in Seq(Reply) /\ \A i \in 1..Len(toS') : GoodReply(toS'[i], held, mode)
    BY <1>1, TailIs
  <1>5. SenderInv'
    <2>1. CASE Head(toS).id = Awaited
      <3>1. Applied(Report(Head(toS)))
        BY <2>1 DEF Answered
      <3>2. spc \in Midway
        BY DEF Answered, Midway
      <3>3. QED
        BY <1>2, <1>3, <3>1, <3>2, ReportIsTrue, AppliedKeeps DEF LinkInv
    <2>2. CASE Head(toS).id # Awaited
      BY <1>2, <2>2 DEF LinkInv, SenderInv, Answered, sender, Midway
    <2>3. QED  BY <2>1, <2>2
  <1>6. ReceiverInv' /\ AirInv'
    BY <1>2, <1>4 DEF LinkInv, ReceiverInv, AirInv, GoodBurst
  <1>7. QED  BY <1>5, <1>6 DEF LinkInv

\* A POLL or a CONFIRM, which a legacy link never sends, joins the queue.
LEMMA AskJoins ==
    ASSUME LinkAssumption, LinkInv, NEW k \in {"poll", "confirm"}, NEW n \in Nat,
           mode # "legacy", mode' = mode, toR' = Append(toR, Ask(k, n))
    PROVE  toR' \in Seq(Burst) /\ \A i \in 1..Len(toR') : GoodBurst(toR'[i], mode)
  <1>1. Ask(k, n) \in Burst
    BY DEF Ask, Data, Burst
  <1>2. toR \in Seq(Burst) /\ \A i \in 1..Len(toR) : toR[i] \in Burst
    BY DEF LinkInv, AirInv, GoodBurst
  <1>3. toR' \in Seq(Burst) /\ \A i \in 1..Len(toR') : toR'[i] \in Burst
    BY <1>1, <1>2, AppendIs
  <1>4. QED  BY <1>3 DEF GoodBurst

LEMMA AwaitedIsNumber ==
    ASSUME LinkAssumption, LinkInv, spc \in Midway PROVE Awaited \in Nat
  <1> USE DEF LinkAssumption
  <1>1. pending \subseteq Block /\ first \in Nat \ {0}
    BY DEF LinkInv, SenderInv, Midway, Block
  <1>3. Chunks \in Nat
    BY <1>1, ChunksIsCount
  <1>4. QED  BY <1>1, <1>3 DEF Awaited

LEMMA NoAnswerKeeps ==
    ASSUME LinkAssumption, LinkInv, NoAnswer PROVE LinkInv'
  <1>1. UNCHANGED <<mode, held, rpc, toS>> /\ spc \in Midway
    BY DEF NoAnswer, receiver, Midway
  <1>2. CASE PollsLeft
    <2>1. mode # "legacy" /\ toR' = Append(toR, Ask("poll", Awaited))
      BY <1>2 DEF PollsLeft, NoAnswer
    <2>2. toR' \in Seq(Burst) /\ \A i \in 1..Len(toR') : GoodBurst(toR'[i], mode)
      BY <1>1, <2>1, AskJoins, AwaitedIsNumber
    <2>3. SenderInv'
      BY <1>1, <1>2 DEF LinkInv, SenderInv, NoAnswer, Midway
    <2>4. QED  BY <1>1, <2>2, <2>3 DEF LinkInv, ReceiverInv, AirInv, GoodReply
  <1>3. CASE ~PollsLeft
    <2>1. Applied({}) /\ toR' = toR
      BY <1>3 DEF NoAnswer
    <2>2. SenderInv'
      BY <1>1, <2>1, AppliedKeeps DEF LinkInv
    <2>3. QED  BY <1>1, <2>1, <2>2 DEF LinkInv, ReceiverInv, AirInv, GoodBurst, GoodReply
  <1>4. QED  BY <1>2, <1>3

LEMMA CompleteKeeps ==
    ASSUME LinkAssumption, LinkInv, Complete PROVE LinkInv'
  <1> USE DEF LinkAssumption
  <1>1. /\ UNCHANGED <<mode, held, rpc, toS, first>>
        /\ spc' = "sent" /\ first = N + 1
    BY DEF Complete, receiver, LinkInv, SenderInv
  <1>2. toR' \in Seq(Burst) /\ \A i \in 1..Len(toR') : GoodBurst(toR'[i], mode)
    <2>1. CASE toR' = toR
      BY <1>1, <2>1 DEF LinkInv, AirInv, GoodBurst
    <2>2. CASE mode # "legacy" /\ toR' = Append(toR, Ask("confirm", first))
      BY <1>1, <2>2, AskJoins
    <2>3. QED  BY <2>1, <2>2 DEF Complete
  <1>3. SenderInv'
    BY <1>1 DEF LinkInv, SenderInv, Midway
  <1>4. QED  BY <1>1, <1>2, <1>3 DEF LinkInv, ReceiverInv, AirInv, GoodReply

LEMMA SenderStopsKeeps ==
    ASSUME LinkAssumption, LinkInv, SenderStops PROVE LinkInv'
  <1>1. /\ UNCHANGED <<mode, held, rpc, toR, toS, first>>
        /\ spc' = "failed"
    BY DEF SenderStops, receiver
  <1>2. SenderInv'
    BY <1>1 DEF LinkInv, SenderInv, Midway
  <1>3. QED  BY <1>1, <1>2 DEF LinkInv, ReceiverInv, AirInv, GoodBurst, GoodReply

----------------------------------------------------------------------------
(* The receiver's part                                                     *)

\* An answer that says what is held joins those on their way.
LEMMA AnswerJoins ==
    ASSUME AirInv, NEW n \in Nat, NEW H \in SUBSET Block, held \subseteq H,
           NEW k \in BOOLEAN, mode = "legacy" /\ k => n \in H, Answer(n, H, k)
    PROVE  toS' \in Seq(Reply) /\ \A i \in 1..Len(toS') : GoodReply(toS'[i], H, mode)
  <1> DEFINE new == [id |-> n, held |-> H, ok |-> k]
  <1>1. new \in Reply /\ GoodReply(new, H, mode)
    BY DEF Reply, GoodReply
  <1>2. toS \in Seq(Reply) /\ \A i \in 1..Len(toS) : GoodReply(toS[i], H, mode)
    BY RepliesStayTrue DEF AirInv
  <1>3. CASE toS' = toS
    BY <1>2, <1>3
  <1>4. CASE toS' = Append(toS, new)
    <2> HIDE DEF new
    <2>1. /\ Append(toS, new) \in Seq(Reply)
          /\ \A i \in 1..Len(Append(toS, new)) :
               (i \in 1..Len(toS) /\ Append(toS, new)[i] = toS[i])
               \/ Append(toS, new)[i] = new
      BY <1>1, <1>2, AppendIs
    <2>2. QED  BY <1>1, <1>2, <1>4, <2>1
  <1>5. QED  BY <1>3, <1>4 DEF Answer

\* The oldest burst is taken.
LEMMA BurstTaken ==
    ASSUME AirInv, toR # <<>>, toR' = Tail(toR)
    PROVE  /\ GoodBurst(Head(toR), mode)
           /\ toR' \in Seq(Burst)
           /\ \A i \in 1..Len(toR') : GoodBurst(toR'[i], mode)
  <1>1. toR \in Seq(Burst) /\ \A i \in 1..Len(toR) : GoodBurst(toR[i], mode)
    BY DEF AirInv
  <1>2. QED  BY <1>1, TailIs

\* The oldest answer is taken.
LEMMA ReplyTaken ==
    ASSUME AirInv, toS # <<>>, toS' = Tail(toS)
    PROVE  /\ toS' \in Seq(Reply)
           /\ \A i \in 1..Len(toS') : GoodReply(toS'[i], held, mode)
  <1>1. toS \in Seq(Reply) /\ \A i \in 1..Len(toS) : GoodReply(toS[i], held, mode)
    BY DEF AirInv
  <1>2. QED  BY <1>1, TailIs

LEMMA HearDataKeeps ==
    ASSUME LinkAssumption, LinkInv, HearData PROVE LinkInv'
  <1> DEFINE b == Head(toR)
  <1>1. PICK got \in SUBSET b.blocks :
          /\ Holding(held \cup got)
          /\ IF b.defer THEN UNCHANGED toS
             ELSE Answer(b.id, held \cup got, got = b.blocks)
    BY DEF HearData
  <1> DEFINE now == held \cup got
  <1>2. /\ GoodBurst(b, mode) /\ toR' \in Seq(Burst)
        /\ \A i \in 1..Len(toR') : GoodBurst(toR'[i], mode)
    BY BurstTaken DEF LinkInv, HearData
  <1>3. /\ held' = now /\ now \subseteq Block /\ held \subseteq now
        /\ rpc = "listen" /\ mode' = mode
        /\ UNCHANGED <<spc, first, window, pending, unsent>>
    BY <1>1, <1>2 DEF Holding, HearData, sender, GoodBurst, Burst, LinkInv, ReceiverInv
  <1>4. ReceiverInv'
    BY <1>1, <1>3 DEF Holding, LinkInv, ReceiverInv
  <1>5. SenderInv'
    BY <1>3, SenderRests DEF LinkInv
  <1>6. toS' \in Seq(Reply) /\ \A i \in 1..Len(toS') : GoodReply(toS'[i], now, mode)
    <2>1. CASE b.defer
      BY <1>1, <1>3, <2>1, RepliesStayTrue DEF LinkInv, AirInv
    <2>2. CASE ~b.defer
      <3>1. b.id \in Nat /\ (mode = "legacy" /\ got = b.blocks => b.id \in now)
        BY <1>2 DEF GoodBurst, Burst
      <3>2. Answer(b.id, now, got = b.blocks) /\ (got = b.blocks) \in BOOLEAN
        BY <1>1, <2>2
      <3> HIDE DEF b
      <3>3. QED  BY <1>3, <3>1, <3>2, AnswerJoins DEF LinkInv
    <2>3. QED  BY <2>1, <2>2
  <1>7. AirInv'
    BY <1>2, <1>3, <1>6 DEF AirInv
  <1>8. QED  BY <1>4, <1>5, <1>7 DEF LinkInv

LEMMA HearPollKeeps ==
    ASSUME LinkAssumption, LinkInv, HearPoll PROVE LinkInv'
  <1> DEFINE b == Head(toR)
  <1>1. /\ GoodBurst(b, mode) /\ toR' \in Seq(Burst)
        /\ \A i \in 1..Len(toR') : GoodBurst(toR'[i], mode)
    BY BurstTaken DEF LinkInv, HearPoll
  <1>2. UNCHANGED <<mode, held, rpc, spc, first, window, pending, unsent>>
    BY DEF HearPoll, sender, receiver
  <1>3. mode # "legacy" /\ b.id \in Nat
    BY <1>1 DEF GoodBurst, Burst, HearPoll
  <1>4. toS' \in Seq(Reply) /\ \A i \in 1..Len(toS') : GoodReply(toS'[i], held, mode)
    <2>1. CASE started
      <3>1. Answer(b.id, held, TRUE) /\ held \in SUBSET Block
        BY <2>1 DEF HearPoll, LinkInv, ReceiverInv
      <3> HIDE DEF b
      <3>2. QED  BY <1>3, <3>1, AnswerJoins DEF LinkInv
    <2>2. CASE ~started
      BY <2>2 DEF HearPoll, LinkInv, AirInv
    <2>3. QED  BY <2>1, <2>2
  <1>5. SenderInv' /\ ReceiverInv'
    BY <1>2, SenderRests DEF LinkInv, ReceiverInv
  <1>6. AirInv'
    BY <1>1, <1>2, <1>4 DEF AirInv
  <1>7. QED  BY <1>5, <1>6 DEF LinkInv

LEMMA HearAgainKeeps ==
    ASSUME LinkAssumption, LinkInv, HearAgain PROVE LinkInv'
  <1> DEFINE b == Head(toR)
  <1>1. /\ GoodBurst(b, mode) /\ toR' \in Seq(Burst)
        /\ \A i \in 1..Len(toR') : GoodBurst(toR'[i], mode)
    BY BurstTaken DEF LinkInv, HearAgain
  <1>2. /\ UNCHANGED <<mode, held, spc, first, window, pending, unsent>>
        /\ rpc = "linger" /\ rpc' \in {"linger", "returned"}
    BY DEF HearAgain, UseRound, sender
  <1>3. mode # "legacy" /\ b.id \in Nat
    BY <1>1, <1>2 DEF GoodBurst, Burst, LinkInv, ReceiverInv
  <1>4. toS' \in Seq(Reply) /\ \A i \in 1..Len(toS') : GoodReply(toS'[i], held, mode)
    <2>1. CASE b.kind = "confirm"
      BY <2>1 DEF HearAgain, LinkInv, AirInv
    <2>2. CASE b.kind # "confirm"
      <3>1. Answer(b.id, held, TRUE) /\ held \in SUBSET Block
        BY <2>2 DEF HearAgain, LinkInv, ReceiverInv
      <3> HIDE DEF b
      <3>2. QED  BY <1>3, <3>1, AnswerJoins DEF LinkInv
    <2>3. QED  BY <2>1, <2>2
  <1>5. SenderInv' /\ ReceiverInv'
    BY <1>2, <1>3, SenderRests DEF LinkInv, ReceiverInv
  <1>6. AirInv'
    BY <1>1, <1>2, <1>4 DEF AirInv
  <1>7. QED  BY <1>5, <1>6 DEF LinkInv

\* Noise, impatience, losses and the operators touch no knowledge.
LEMMA OthersKeep ==
    ASSUME LinkAssumption, LinkInv,
           Disturbed \/ ReceiverGivesUp \/ LoseBurst \/ LoseReply \/ Unheard \/ Cancel
    PROVE  LinkInv'
  <1>1. UNCHANGED <<mode, held, spc, first, window, pending, unsent>>
    BY DEF Disturbed, UseRound, ReceiverGivesUp, LoseBurst, LoseReply, Unheard,
           Cancel, sender, receiver
  <1>2. SenderInv'
    BY <1>1, SenderRests DEF LinkInv, ReceiverInv
  <1>3. ReceiverInv'
    <2>1. \/ rpc' = rpc
          \/ rpc = "linger" /\ rpc' \in {"linger", "returned"}
          \/ rpc = "listen" /\ rpc' = "quiet"
      BY DEF Disturbed, UseRound, ReceiverGivesUp, LoseBurst, LoseReply, Unheard,
             Cancel, receiver
    <2>2. QED  BY <1>1, <2>1 DEF LinkInv, ReceiverInv
  <1>4. /\ toR' \in Seq(Burst)
        /\ \A i \in 1..Len(toR') : GoodBurst(toR'[i], mode)
    <2>1. toR' = toR \/ (toR # <<>> /\ toR' = Tail(toR))
      BY DEF Disturbed, ReceiverGivesUp, LoseBurst, LoseReply, Unheard, Cancel
    <2>2. CASE toR' = toR
      BY <2>2 DEF LinkInv, AirInv
    <2>3. CASE toR # <<>> /\ toR' = Tail(toR)
      BY <2>3, BurstTaken DEF LinkInv
    <2>4. QED  BY <2>1, <2>2, <2>3
  <1>5. /\ toS' \in Seq(Reply)
        /\ \A i \in 1..Len(toS') : GoodReply(toS'[i], held, mode)
    <2>1. toS' = toS \/ (toS # <<>> /\ toS' = Tail(toS))
      BY DEF Disturbed, ReceiverGivesUp, LoseBurst, LoseReply, Unheard, Cancel
    <2>2. CASE toS' = toS
      BY <2>2 DEF LinkInv, AirInv
    <2>3. CASE toS # <<>> /\ toS' = Tail(toS)
      BY <2>3, ReplyTaken DEF LinkInv
    <2>4. QED  BY <2>1, <2>2, <2>3
  <1>6. AirInv'
    BY <1>1, <1>4, <1>5 DEF AirInv
  <1>7. QED  BY <1>2, <1>3, <1>6 DEF LinkInv

----------------------------------------------------------------------------
(* The theorems                                                            *)

LEMMA InitKnowsNothing ==
    ASSUME LinkAssumption, Init PROVE LinkInv
  <1> USE DEF LinkAssumption
  <1>1. SenderInv
    BY DEF Init, SenderInv, Midway
  <1>2. ReceiverInv
    BY DEF Init, ReceiverInv, Block
  <1>3. AirInv
    BY DEF Init, AirInv
  <1>4. QED  BY <1>1, <1>2, <1>3 DEF LinkInv

\* The invariant holds of every transfer (link.py, send_message and
\* receive_message, whatever is lost, cut short or given up).
THEOREM KnowledgeIsTrue ==
    ASSUME LinkAssumption PROVE Spec => []LinkInv
  <1>1. Init => LinkInv
    BY InitKnowsNothing
  <1>2. LinkInv /\ [Next]_vars => LinkInv'
    <2>1. SUFFICES ASSUME LinkInv, [Next]_vars PROVE LinkInv'
      OBVIOUS
    <2>2. CASE StartWindow
      BY <2>1, <2>2, StartWindowKeeps
    <2>3. CASE SendBatch
      BY <2>1, <2>3, SendBatchKeeps
    <2>4. CASE SendTrain
      BY <2>1, <2>4, SendTrainKeeps
    <2>5. CASE Answered
      BY <2>1, <2>5, AnsweredKeeps
    <2>6. CASE NoAnswer
      BY <2>1, <2>6, NoAnswerKeeps
    <2>7. CASE Complete
      BY <2>1, <2>7, CompleteKeeps
    <2>8. CASE SenderStops
      BY <2>1, <2>8, SenderStopsKeeps
    <2>9. CASE HearData
      BY <2>1, <2>9, HearDataKeeps
    <2>10. CASE HearPoll
      BY <2>1, <2>10, HearPollKeeps
    <2>11. CASE HearAgain
      BY <2>1, <2>11, HearAgainKeeps
    <2>12. CASE Disturbed \/ ReceiverGivesUp \/ LoseBurst \/ LoseReply \/ Unheard
                \/ Cancel
      BY <2>1, <2>12, OthersKeep
    <2>13. CASE UNCHANGED vars
      BY <2>1, <2>13 DEF vars, sender, receiver, LinkInv, SenderInv, ReceiverInv,
                         AirInv, Midway
    <2>14. QED
      BY <2>1, <2>2, <2>3, <2>4, <2>5, <2>6, <2>7, <2>8, <2>9, <2>10, <2>11, <2>12,
         <2>13 DEF Next, SenderStep, ReceiverStep
  <1>3. QED  BY <1>1, <1>2, PTL DEF Spec

\* A sender that reports success is right: the receiver has, or will return,
\* the whole message (link.py, send_message).
THEOREM SuccessMeansDelivery ==
    ASSUME LinkAssumption PROVE Spec => []SuccessIsDelivery
  <1>1. LinkInv => SuccessIsDelivery
    <2>1. SUFFICES ASSUME LinkInv, spc = "sent"
                   PROVE  held = Block /\ rpc \in {"linger", "returned"}
      BY DEF SuccessIsDelivery
    <2>2. first - 1 = N
      BY <2>1 DEF LinkInv, SenderInv, LinkAssumption
    <2>3. held = Block
      BY <2>1, <2>2 DEF LinkInv, SenderInv, ReceiverInv, Block
    <2>4. QED  BY <2>1, <2>3 DEF LinkInv, ReceiverInv
  <1>2. Spec => []LinkInv
    BY KnowledgeIsTrue
  <1>3. QED  BY <1>1, <1>2, PTL
----------------------------------------------------------------------------
(* Why a sender fails: on a patient link that nobody cancels, what was lost *)
(* is accounted for in every state.                                        *)

Calm == patient /\ cancelled = {}

\* The answer that is waited for is on its way, after those to other bursts.
Coming == toS # <<>> /\ toS[Len(toS)].id = Awaited
\* Everything sent in this attempt is held or on its way, and an answer is due.
Intact ==
    /\ \A b \in pending \ unsent : b \in held \/ \E i \in 1..Len(toR) : b \in toR[i].blocks
    /\ toR # <<>> \/ (Coming /\ (mode = "legacy" => toS[Len(toS)].ok))
\* The burst that will be answered brings a block of its own.
LastIsNew ==
    \E b \in toR[Len(toR)].blocks \ held :
        \A i \in 1..(Len(toR) - 1) : b \notin toR[i].blocks
Listens == rpc \in {"listen", "linger"}

CountsInv ==
    /\ losses \in Nat /\ attempt \in Nat /\ started \in BOOLEAN
    /\ held # {} => started
    /\ spc \in Midway => pending # {}
\* Only a receiver that holds everything stops listening to a sender at work.
ListenInv == Working => rpc = "listen" \/ held = Block
\* One thing at a time is on its way: a burst or a train, or the answers to it.
FlightInv ==
    /\ spc \in {"window", "send"} => toR = <<>> /\ toS = <<>>
    /\ spc \in {"await", "polled"} =>
        /\ Len(toR) + Len(toS) <= Air /\ (spc = "polled" => Len(toR) <= 1)
        /\ \A i \in 1..Len(toR) :
             /\ toR[i].id = Awaited <=> i = Len(toR)
             /\ i = Len(toR) => ~toR[i].defer
             /\ toR[i].blocks \subseteq pending
             /\ toR[i].kind = IF spc = "await" THEN "data" ELSE "poll"
        /\ \A i \in 1..Len(toS) : toS[i].id = Awaited =>
             i = Len(toS) /\ toR = <<>> /\ toS[i].held = held
RangeInv ==
    /\ spc = "window" => held \subseteq 1..(first - 1)
    /\ spc \in Midway => held \subseteq 1..(first - 1) \cup window
\* While a block is missing, every attempt that was in vain has lost something.
AttemptInv == held # Block =>
    /\ spc \in Midway => losses >= attempt
    /\ spc = "send" /\ pending \ unsent # {} => losses > attempt
    /\ spc = "await" => losses > attempt \/ Intact
    /\ spc = "polled" => losses > attempt
\* A window goes by both an answer and a POLL before the sender repeats what
\* the receiver holds.
RescueInv == mode # "legacy" =>
    /\ spc = "send" => losses > 1 \/ pending \cap held = {}
    /\ spc = "await" /\ toR # <<>> => losses > 1 \/ LastIsNew
    /\ spc = "await" /\ pending \cap held # {} =>
         \/ losses > 1
         \/ Coming /\ (Listens \/ losses > 0)
         \/ toR # <<>> /\ rpc = "listen"
         \/ losses > 0 /\ Listens
    /\ spc = "polled" /\ pending \cap held # {} =>
         \/ losses > 1
         \/ losses > 0 /\ Coming
         \/ losses > 0 /\ toR # <<>> /\ Listens
FailInv == spc = "failed" =>
    losses > MaxRetries \/ (held = Block /\ (mode = "legacy" \/ losses > 1))

CalmParts == ListenInv /\ FlightInv /\ RangeInv /\ AttemptInv /\ RescueInv /\ FailInv
CalmInv == CountsInv /\ (Calm => CalmParts)

----------------------------------------------------------------------------

\* While a sender waits, what is awaited stays the same.
LEMMA SameAwaited ==
    ASSUME UNCHANGED <<mode, first, window, pending>> PROVE Awaited' = Awaited
  BY DEF Awaited, AsTrain, Chunks

\* After the end of the sender nothing is claimed but what has been lost.
LEMMA Afterwards ==
    ASSUME LinkAssumption, LinkInv, LinkInv', CountsInv, CountsInv', CalmParts,
           spc \in {"sent", "failed"}, UNCHANGED <<mode, spc>>,
           losses <= losses', held \subseteq held'
    PROVE  CalmParts'
  <1>1. spc = "failed" /\ held = Block => held' = Block
    BY DEF LinkInv, ReceiverInv
  <1>2. FailInv'
    <2>1. losses \in Nat /\ losses' \in Nat /\ MaxRetries \in Nat
      BY DEF CountsInv, LinkAssumption
    <2>2. QED  BY <1>1, <2>1 DEF CalmParts, FailInv
  <1>3. QED
    BY <1>2 DEF CalmParts, ListenInv, Working, FlightInv, RangeInv, AttemptInv, RescueInv, Midway

\* What has been counted.
LEMMA AppliedCounts ==
    ASSUME LinkInv, CountsInv, spc \in Midway, NEW report, Applied(report),
           UNCHANGED <<losses, started, held>>
    PROVE  CountsInv'
  <1>1. attempt' \in Nat
    BY DEF Applied, CountsInv
  <1>2. spc' \in Midway => pending' # {}
    BY DEF Applied, Midway
  <1>3. QED  BY <1>1, <1>2 DEF CountsInv

\* Every step keeps what is counted.
LEMMA CountsKept ==
    ASSUME LinkAssumption, LinkInv, CountsInv, [Next]_vars PROVE CountsInv'
  <1> USE DEF Midway
  <1>1. CASE StartWindow
    <2>1. window' # {} /\ pending' = window' /\ attempt' = 0
      <3>1. PICK size \in 1..(IF mode = "legacy" THEN 1 ELSE Window) :
              window' = first..(first + size - 1)
        BY <1>1 DEF StartWindow
      <3>2. first \in Nat /\ size \in Nat /\ size >= 1
        BY <3>1 DEF LinkInv, SenderInv, LinkAssumption
      <3>3. first \in window'
        BY <3>1, <3>2
      <3>4. QED  BY <1>1, <3>3 DEF StartWindow
    <2>2. QED  BY <1>1, <2>1 DEF StartWindow, CountsInv, receiver
  <1>2. CASE SendBatch \/ SendTrain
    BY <1>2 DEF SendBatch, SendTrain, CountsInv, receiver
  <1>3. CASE Answered
    <2>1. UNCHANGED <<losses, started, held>> /\ spc \in Midway
      BY <1>3 DEF Answered, receiver
    <2>2. CASE Applied(Report(Head(toS)))
      BY <2>1, <2>2, AppliedCounts
    <2>3. CASE UNCHANGED sender
      BY <2>1, <2>3 DEF CountsInv, sender
    <2>4. QED  BY <1>3, <2>2, <2>3 DEF Answered
  <1>4. CASE NoAnswer
    <2>1. UNCHANGED <<losses, started, held>> /\ spc \in Midway
      BY <1>4 DEF NoAnswer, receiver
    <2>2. CASE Applied({})
      BY <2>1, <2>2, AppliedCounts
    <2>3. CASE UNCHANGED <<pending, attempt>>
      BY <2>1, <2>3 DEF CountsInv
    <2>4. QED  BY <1>4, <2>2, <2>3 DEF NoAnswer
  <1>5. CASE Complete \/ SenderStops
    BY <1>5 DEF Complete, SenderStops, CountsInv, receiver
  <1>6. CASE HearData
    <2>1. started' = TRUE /\ losses' \in Nat /\ UNCHANGED <<spc, pending, attempt>>
      BY <1>6 DEF HearData, CountsInv, sender
    <2>2. QED  BY <2>1 DEF CountsInv
  <1>7. CASE HearPoll \/ HearAgain \/ ReceiverGivesUp \/ Unheard \/ Cancel
    BY <1>7 DEF HearPoll, HearAgain, UseRound, ReceiverGivesUp, Unheard, Cancel, CountsInv,
                sender, receiver
  <1>8. CASE Disturbed \/ LoseBurst \/ LoseReply
    BY <1>8 DEF Disturbed, UseRound, LoseBurst, LoseReply, CountsInv, sender, receiver
  <1>9. CASE UNCHANGED vars
    BY <1>9 DEF vars, sender, receiver, CountsInv
  <1>10. QED
    BY <1>1, <1>2, <1>3, <1>4, <1>5, <1>6, <1>7, <1>8, <1>9
       DEF Next, SenderStep, ReceiverStep

----------------------------------------------------------------------------
(* The sender                                                              *)

\* A new window starts with nothing held of it and nothing on its way.
LEMMA StartWindowCalm ==
    ASSUME LinkAssumption, LinkInv, CountsInv, CalmParts, StartWindow PROVE CalmParts'
  <1>1. PICK size \in 1..(IF mode = "legacy" THEN 1 ELSE Window) :
          window' = first..(first + size - 1)
    BY DEF StartWindow
  <1>2. /\ spc = "window" /\ spc' = "send" /\ pending' = window' /\ unsent' = window'
        /\ attempt' = 0
        /\ UNCHANGED <<mode, first, rpc, held, toR, toS, losses>>
    BY DEF StartWindow, receiver
  <1>3. held \subseteq 1..(first - 1) /\ toR = <<>> /\ toS = <<>>
    BY <1>2 DEF CalmParts, RangeInv, FlightInv
  <1>4. first \in Nat /\ window' \cap held = {}
    BY <1>1, <1>3 DEF LinkInv, SenderInv
  <1>5. losses \in Nat
    BY DEF CountsInv
  <1>6. QED
    BY <1>2, <1>3, <1>4, <1>5
       DEF CalmParts, ListenInv, Working, FlightInv, RangeInv, AttemptInv, RescueInv, FailInv,
           Midway

\* A batch brings something new, and the whole of it is on its way.
LEMMA SendBatchCalm ==
    ASSUME LinkAssumption, LinkInv, LinkInv', CountsInv, CalmParts, SendBatch
    PROVE  CalmParts'
  <1>1. PICK last \in unsent :
          /\ unsent' = unsent \ {b \in unsent : b <= last}
          /\ toR' = Append(toR, Data(first, {b \in unsent : b <= last}, FALSE))
    BY DEF SendBatch
  <1> DEFINE batch == {b \in unsent : b <= last}
             new == Data(first, batch, FALSE)
  <1>2. /\ spc = "send" /\ spc' = "await" /\ ~AsTrain /\ Len(toR) < Air
        /\ UNCHANGED <<mode, first, window, pending, attempt, rpc, held, toS, losses>>
    BY DEF SendBatch, receiver
  <1>3. toR = <<>> /\ toS = <<>>
    BY <1>2 DEF CalmParts, FlightInv
  <1>4. toR' = <<new>> /\ Len(toR') = 1 /\ toR'[1] = new
    BY <1>1, <1>3
  <1>5. new.id = first /\ new.kind = "data" /\ new.blocks = batch /\ ~new.defer
    BY DEF Data
  <1>6. Awaited' = first
    BY <1>2, SameAwaited DEF Awaited
  <1>7. unsent \subseteq pending /\ last \in batch /\ Air \in Nat
    BY <1>2 DEF LinkInv, SenderInv, Midway, Block, LinkAssumption
  <1> HIDE DEF new
  <1>8. FlightInv'
    <2>1. \A i \in 1..Len(toR') : i = 1 /\ toR'[i] = new
      BY <1>4
    <2>2. toS' = <<>> /\ Len(toS') = 0 /\ 0 < Air
      BY <1>2, <1>3
    <2>3. QED  BY <1>2, <1>4, <1>5, <1>6, <1>7, <2>1, <2>2 DEF FlightInv
  <1>9. AttemptInv'
    <2>1. SUFFICES ASSUME held # Block, ~(losses > attempt) PROVE Intact'
      BY <1>2 DEF AttemptInv, CalmParts, Midway
    <2>2. pending \ unsent = {}
      BY <1>2, <2>1 DEF AttemptInv, CalmParts, Midway
    <2>3. pending' \ unsent' \subseteq batch
      BY <1>1, <1>2, <2>2
    <2>4. toR'[1].blocks = batch /\ 1 \in 1..Len(toR') /\ toR' # <<>>
      BY <1>4, <1>5
    <2> HIDE DEF batch
    <2>5. QED  BY <2>3, <2>4 DEF Intact
  <1>10. RescueInv'
    <2>1. SUFFICES ASSUME mode # "legacy", ~(losses > 1)
                   PROVE  LastIsNew' /\ pending' \cap held' = {}
      BY <1>2 DEF RescueInv
    <2>2. pending \cap held = {}
      BY <1>2, <2>1 DEF RescueInv, CalmParts
    <2>3. last \in toR'[Len(toR')].blocks \ held'
      BY <1>2, <1>4, <1>5, <1>7, <2>2
    <2>4. \A i \in 1..(Len(toR') - 1) : FALSE
      BY <1>4
    <2>5. QED  BY <1>2, <2>2, <2>3, <2>4 DEF LastIsNew
  <1>11. QED
    BY <1>2, <1>8, <1>9, <1>10
       DEF CalmParts, ListenInv, Working, RangeInv, FailInv, Midway

\* What becomes of a window once the answer has come or has been given up.
LEMMA Verdict ==
    ASSUME LinkAssumption, LinkInv, CountsInv, CalmParts, spc \in {"await", "polled"},
           NEW report, report \subseteq held, Applied(report),
           UNCHANGED <<mode, rpc, held, losses>>, toR' = <<>>, toS' = <<>>,
           held # Block => losses > attempt \/ pending \ unsent \subseteq report,
           mode # "legacy" => losses > 1 \/ pending \cap held \subseteq report
    PROVE  CalmParts'
  <1> DEFINE rest == pending \ report
  <1> USE DEF LinkAssumption
  <1>1. losses \in Nat /\ attempt \in Nat /\ MaxRetries \in Nat
    BY DEF CountsInv
  <1>2. PICK size \in Nat \ {0} :
          first + size <= N + 1 /\ window = first..(first + size - 1)
    BY DEF LinkInv, SenderInv, Midway
  <1>3. /\ first \in Nat \ {0} /\ Cardinality(window) = size /\ window' = window
        /\ pending' = rest /\ held \subseteq 1..(first - 1) \cup window
        /\ held # Block => losses >= attempt
    <2>1. first \in Nat \ {0}
      BY DEF LinkInv, SenderInv
    <2>2. Cardinality(window) = size
      BY <1>2, <2>1, WindowSize
    <2>3. held \subseteq 1..(first - 1) \cup window /\ (held # Block => losses >= attempt)
      BY DEF CalmParts, RangeInv, AttemptInv, Midway
    <2>4. QED  BY <2>1, <2>2, <2>3 DEF Applied
  <1>4. ListenInv' /\ FlightInv'
    <2>1. spc' \in {"window", "send", "failed"}
      BY DEF Applied
    <2>2. QED  BY <2>1 DEF CalmParts, ListenInv, FlightInv, Working
  <1>5. CASE rest = {}
    <2>1. spc' = "window" /\ first' = first + size
      BY <1>3, <1>5 DEF Applied
    <2>2. held' \subseteq 1..(first' - 1)
      <3>1. ASSUME NEW b \in held PROVE b \in 1..(first + size - 1)
        <4>1. b \in 1..(first - 1) \/ b \in first..(first + size - 1)
          BY <1>2, <1>3
        <4>2. QED  BY <1>3, <4>1
      <3>2. first' - 1 = first + size - 1 /\ held' = held
        BY <1>3, <2>1
      <3>3. QED  BY <3>1, <3>2
    <2>3. QED
      BY <1>4, <2>1, <2>2 DEF CalmParts, RangeInv, AttemptInv, RescueInv, FailInv, Midway
  <1>6. CASE rest # {}
    <2>1. first' = first
      BY <1>6 DEF Applied
    <2>2. RangeInv'
      BY <1>3, <2>1, <1>6 DEF RangeInv, Applied, Midway
    <2>3. AttemptInv'
      <3>1. SUFFICES ASSUME held # Block, spc' = "send"
                     PROVE  losses >= attempt' /\ (pending' \ unsent' # {} => losses > attempt')
        BY <1>6 DEF AttemptInv, Applied, Midway
      <3>2. CASE unsent \cap rest # {}
        <4>1. unsent' = unsent \cap rest /\ attempt' = attempt
          BY <1>6, <3>2 DEF Applied
        <4>2. pending' \ unsent' # {} => ~(pending \ unsent \subseteq report)
          BY <1>3, <4>1
        <4>3. QED  BY <1>3, <3>1, <4>1, <4>2
      <3>3. CASE unsent \cap rest = {}
        <4>1. unsent' = rest /\ attempt' = attempt + 1
          BY <1>6, <3>1, <3>3 DEF Applied
        <4>2. ~(pending \ unsent \subseteq report)
          BY <1>6, <3>3
        <4>3. QED  BY <1>1, <1>3, <3>1, <4>1, <4>2
      <3>4. QED  BY <3>2, <3>3
    <2>4. RescueInv'
      BY <1>3, <1>6 DEF RescueInv, Applied
    <2>5. FailInv'
      <3>1. SUFFICES ASSUME spc' = "failed", ~(losses > MaxRetries)
                     PROVE  held = Block /\ (mode = "legacy" \/ losses > 1)
        BY DEF FailInv
      <3>2. unsent \cap rest = {} /\ ~(attempt < MaxRetries)
        BY <1>6, <3>1 DEF Applied
      <3>3. held = Block
        <4>1. ~(pending \ unsent \subseteq report)
          BY <1>6, <3>2
        <4>2. QED  BY <1>1, <3>1, <3>2, <4>1
      <3>4. pending \subseteq Block
        BY <1>2 DEF LinkInv, SenderInv, Block, Midway
      <3>5. QED  BY <1>6, <3>3, <3>4
    <2>6. QED  BY <1>4, <2>2, <2>3, <2>4, <2>5 DEF CalmParts
  <1>7. QED  BY <1>5, <1>6

\* The queue without elements.
LEMMA EmptyIs ==
    ASSUME NEW S, NEW q \in Seq(S) PROVE Len(q) = 0 <=> q = <<>>
  OBVIOUS

\* A queue is one shorter without its oldest element.
LEMMA TailShorter ==
    ASSUME NEW S, NEW q \in Seq(S), q # <<>>
    PROVE  /\ Len(q) \in Nat \ {0} /\ Len(Tail(q)) = Len(q) - 1 /\ Len(Tail(q)) \in Nat
           /\ Tail(q) = <<>> <=> Len(q) = 1
  <1>1. Len(q) \in Nat \ {0} /\ Len(Tail(q)) = Len(q) - 1 /\ Tail(q) \in Seq(S)
    <2>1. Len(q) \in Nat /\ Len(q) # 0
      OBVIOUS
    <2>2. Tail(q) \in Seq(S)
      OBVIOUS
    <2>3. Len(Tail(q)) = Len(q) - 1
      OBVIOUS
    <2>4. QED  BY <2>1, <2>2, <2>3
  <1>2. Len(Tail(q)) = 0 <=> Tail(q) = <<>>
    BY <1>1, EmptyIs
  <1>3. QED  BY <1>1, <1>2

\* The oldest burst is taken, and what is awaited stays the same.
LEMMA BurstGone ==
    ASSUME LinkInv, FlightInv, spc \in {"await", "polled"}, toR # <<>>, toR' = Tail(toR),
           UNCHANGED <<mode, spc, first, window, pending>>
    PROVE  /\ Len(toR') = Len(toR) - 1 /\ Len(toR) \in Nat \ {0}
           /\ toR' = <<>> <=> Len(toR) = 1
           /\ toR' # <<>> => toR'[Len(toR')] = toR[Len(toR)] /\ Head(toR).id # Awaited
           /\ toR' = <<>> => Head(toR) = toR[Len(toR)] /\ Head(toR).id = Awaited
                              /\ ~Head(toR).defer
           /\ Head(toR) = toR[1] /\ 1 \in 1..Len(toR)
           /\ \A i \in 1..Len(toR') :
                /\ i + 1 \in 1..Len(toR) /\ toR'[i] = toR[i + 1]
                /\ toR'[i].id = Awaited <=> i = Len(toR')
                /\ i = Len(toR') => ~toR'[i].defer
                /\ toR'[i].blocks \subseteq pending
                /\ toR'[i].kind = IF spc = "await" THEN "data" ELSE "poll"
  <1>1. toR \in Seq(Burst)
    BY DEF LinkInv, AirInv
  <1>2. /\ Len(toR') = Len(toR) - 1 /\ Len(toR) \in Nat \ {0}
        /\ toR' = <<>> <=> Len(toR) = 1
        /\ Head(toR) = toR[1] /\ 1 \in 1..Len(toR)
    BY <1>1, TailIs, TailShorter
  <1>3. \A i \in 1..Len(toR') : i + 1 \in 1..Len(toR) /\ toR'[i] = toR[i + 1]
    BY <1>1, TailIs
  <1>4. \A i \in 1..Len(toR) :
             /\ toR[i].id = Awaited <=> i = Len(toR)
             /\ i = Len(toR) => ~toR[i].defer
             /\ toR[i].blocks \subseteq pending
             /\ toR[i].kind = IF spc = "await" THEN "data" ELSE "poll"
    BY DEF FlightInv
  <1>5. \A i \in 1..Len(toR') : i = Len(toR') <=> i + 1 = Len(toR)
    BY <1>2
  <1>6. toR' # <<>> => Len(toR') \in 1..Len(toR') /\ Len(toR') + 1 = Len(toR) /\ 1 # Len(toR)
    BY <1>2
  <1>7. toR' # <<>> => toR'[Len(toR')] = toR[Len(toR)]
    BY <1>3, <1>6
  <1>8. Awaited' = Awaited
    BY SameAwaited
  <1>9. Len(toR) = 1 => Head(toR) = toR[Len(toR)] /\ Head(toR).id = Awaited /\ ~Head(toR).defer
    BY <1>2, <1>4
  <1>10. Len(toR) # 1 => Head(toR).id # Awaited
    BY <1>2, <1>4
  <1>11. \A i \in 1..Len(toR') :
           /\ toR'[i].id = Awaited <=> i = Len(toR')
           /\ i = Len(toR') => ~toR'[i].defer
           /\ toR'[i].blocks \subseteq pending
           /\ toR'[i].kind = IF spc = "await" THEN "data" ELSE "poll"
    BY <1>3, <1>4, <1>5
  <1>12. QED  BY <1>2, <1>3, <1>6, <1>7, <1>9, <1>10, <1>11

\* The oldest answer is taken.
LEMMA ReplyGone ==
    ASSUME LinkInv, FlightInv, spc \in {"await", "polled"}, toS # <<>>, toS' = Tail(toS),
           UNCHANGED <<mode, spc, first, window, pending>>
    PROVE  /\ Len(toS') = Len(toS) - 1 /\ Len(toS) \in Nat \ {0}
           /\ \A i \in 1..Len(toS') : toS'[i].id = Awaited =>
                i = Len(toS') /\ toR = <<>> /\ toS'[i].held = held
           /\ Coming => \/ Coming' /\ toS'[Len(toS')] = toS[Len(toS)]
                        \/ toS' = <<>> /\ Head(toS).id = Awaited
           /\ Head(toS).id = Awaited => /\ toS' = <<>> /\ toR = <<>> /\ Head(toS).held = held
                                       /\ Head(toS) = toS[Len(toS)] /\ Coming
  <1>1. toS \in Seq(Reply)
    BY DEF LinkInv, AirInv
  <1>2. /\ Len(toS') = Len(toS) - 1 /\ Len(toS) \in Nat \ {0}
        /\ toS' = <<>> <=> Len(toS) = 1
        /\ Head(toS) = toS[1] /\ 1 \in 1..Len(toS)
    BY <1>1, TailIs, TailShorter
  <1>3. \A i \in 1..Len(toS') : i + 1 \in 1..Len(toS) /\ toS'[i] = toS[i + 1]
    BY <1>1, TailIs
  <1>4. \A i \in 1..Len(toS) : toS[i].id = Awaited =>
             i = Len(toS) /\ toR = <<>> /\ toS[i].held = held
    BY DEF FlightInv
  <1>5. \A i \in 1..Len(toS') : i = Len(toS') <=> i + 1 = Len(toS)
    BY <1>2
  <1>6. toS' # <<>> => Len(toS') \in 1..Len(toS') /\ Len(toS') + 1 = Len(toS) /\ 1 # Len(toS)
    BY <1>2
  <1>7. toS' # <<>> => toS'[Len(toS')] = toS[Len(toS)]
    BY <1>3, <1>6
  <1>8. Awaited' = Awaited
    BY SameAwaited
  <1>9. QED  BY <1>2, <1>3, <1>4, <1>5, <1>6, <1>7, <1>8 DEF Coming

\* An answer to another burst changes nothing; the awaited one ends the attempt.
LEMMA AnsweredCalm ==
    ASSUME LinkAssumption, LinkInv, LinkInv', CountsInv, CountsInv', CalmParts, Answered
    PROVE  CalmParts'
  <1>1. /\ spc \in {"await", "polled"} /\ toS # <<>> /\ toS' = Tail(toS)
        /\ UNCHANGED <<mode, rpc, held, toR, losses>>
    BY DEF Answered, receiver
  <1>2. FlightInv /\ AttemptInv /\ RescueInv
    BY DEF CalmParts
  <1>3. toS \in Seq(Reply) /\ GoodReply(Head(toS), held, mode)
    BY <1>1, TailIs DEF LinkInv, AirInv
  <1>4. CASE Head(toS).id = Awaited
    <2>1. Applied(Report(Head(toS)))
      BY <1>4 DEF Answered
    <2>2. /\ toS' = <<>> /\ toR = <<>> /\ Head(toS).held = held
          /\ Head(toS) = toS[Len(toS)]
      <3>1. \A i \in 1..Len(toS) : toS[i].id = Awaited =>
                i = Len(toS) /\ toR = <<>> /\ toS[i].held = held
        BY <1>1, <1>2 DEF FlightInv
      <3>2. Head(toS) = toS[1] /\ 1 \in 1..Len(toS) /\ (Len(toS) = 1 => Tail(toS) = <<>>)
        BY <1>1, <1>3
      <3>3. QED  BY <1>1, <1>4, <3>1, <3>2
    <2>3. toR' = <<>>
      BY <1>1, <2>2
    <2>4. Report(Head(toS)) \subseteq held
      BY <1>3, ReportIsTrue
    <2>5. ASSUME held # Block PROVE losses > attempt \/ pending \ unsent \subseteq Report(Head(toS))
      <3>1. SUFFICES ASSUME ~(losses > attempt)
                     PROVE  pending \ unsent \subseteq Report(Head(toS))
        OBVIOUS
      <3>2. Intact /\ spc = "await"
        BY <1>1, <1>2, <2>5, <3>1 DEF AttemptInv
      <3>3. \A i \in 1..Len(toR) : FALSE
        BY <2>2
      <3>4. pending \ unsent \subseteq held /\ (mode = "legacy" => Head(toS).ok)
        BY <2>2, <3>2, <3>3 DEF Intact
      <3>5. mode = "legacy" => pending \subseteq {Awaited}
        BY <1>1 DEF LinkInv, SenderInv, Midway, Awaited, AsTrain
      <3>6. QED  BY <1>4, <2>2, <3>4, <3>5 DEF Report
    <2>6. mode # "legacy" => pending \cap held \subseteq Report(Head(toS))
      BY <2>2 DEF Report
    <2>7. QED  BY <1>1, <2>1, <2>2, <2>3, <2>4, <2>5, <2>6, Verdict
  <1>5. CASE Head(toS).id # Awaited
    <2>1. UNCHANGED <<spc, first, window, pending, unsent, attempt>>
      BY <1>5 DEF Answered, sender
    <2>2. /\ Len(toS') = Len(toS) - 1 /\ Len(toS) \in Nat \ {0}
          /\ \A i \in 1..Len(toS') : toS'[i].id = Awaited =>
                i = Len(toS') /\ toR = <<>> /\ toS'[i].held = held
          /\ Coming => Coming' /\ toS'[Len(toS')] = toS[Len(toS)]
      BY <1>1, <1>2, <1>5, <2>1, ReplyGone
    <2>3. Awaited' = Awaited
      BY <1>1, <2>1, SameAwaited
    <2>4. FlightInv'
      <3>1. Len(toR') + Len(toS') <= Air
        <4>1. Len(toR) \in Nat /\ Air \in Nat /\ Len(toR) + Len(toS) <= Air
          BY <1>1, <1>2 DEF LinkInv, AirInv, FlightInv, LinkAssumption
        <4>2. Len(toR') = Len(toR) /\ Len(toS') = Len(toS) - 1 /\ Len(toS) \in Nat
          BY <1>1, <2>2
        <4>3. QED  BY <4>1, <4>2
      <3>2. QED  BY <1>1, <1>2, <2>1, <2>2, <2>3, <3>1 DEF FlightInv
    <2>5. Intact => Intact'
      BY <1>1, <2>1, <2>2 DEF Intact
    <2>6. AttemptInv'
      BY <1>1, <1>2, <2>1, <2>5 DEF AttemptInv
    <2>7. RescueInv'
      BY <1>1, <1>2, <2>1, <2>2 DEF RescueInv, LastIsNew, Listens
    <2>8. QED
      BY <1>1, <2>1, <2>4, <2>6, <2>7
         DEF CalmParts, ListenInv, Working, RangeInv, FailInv, Midway
  <1>6. QED  BY <1>4, <1>5

\* On a patient link an answer that stays out was lost: a POLL, or the verdict.
LEMMA NoAnswerCalm ==
    ASSUME LinkAssumption, LinkInv, LinkInv', CountsInv, CountsInv', CalmParts, Calm, NoAnswer
    PROVE  CalmParts'
  <1>1. /\ spc \in {"await", "polled"} /\ toR = <<>> /\ toS = <<>>
        /\ UNCHANGED <<mode, rpc, held, toS, losses>>
    BY DEF NoAnswer, receiver, Calm, Quiet
  <1>2. FlightInv /\ AttemptInv /\ RescueInv
    BY DEF CalmParts
  <1>3. ~Coming /\ ~Intact
    BY <1>1 DEF Coming, Intact
  <1>4. held # Block => losses > attempt
    BY <1>1, <1>2, <1>3 DEF AttemptInv
  <1>5. CASE ~PollsLeft
    <2>1. Applied({}) /\ toR' = <<>> /\ toS' = <<>>
      BY <1>1, <1>5 DEF NoAnswer
    <2>2. mode # "legacy" => losses > 1 \/ pending \cap held \subseteq {}
      BY <1>1, <1>2, <1>3, <1>5 DEF RescueInv, PollsLeft
    <2>3. {} \subseteq held
      OBVIOUS
    <2>4. QED  BY <1>1, <1>4, <2>1, <2>2, <2>3, Verdict
  <1>6. CASE PollsLeft
    <2>1. /\ spc = "await" /\ spc' = "polled" /\ mode # "legacy" /\ Len(toR) < Air
          /\ toR' = Append(toR, Ask("poll", Awaited))
          /\ UNCHANGED <<first, window, pending, unsent, attempt>>
      BY <1>6 DEF NoAnswer, PollsLeft
    <2>2. Awaited' = Awaited
      BY <1>1, <2>1, SameAwaited
    <2> DEFINE new == Ask("poll", Awaited)
    <2>3. new.id = Awaited /\ new.kind = "poll" /\ new.blocks = {} /\ ~new.defer
      BY DEF Ask, Data
    <2> HIDE DEF new
    <2>4. toR' = <<new>> /\ Len(toR') = 1 /\ toR'[1] = new /\ toR' # <<>>
      BY <1>1, <2>1 DEF new
    <2>5. FlightInv'
      <3>1. \A i \in 1..Len(toR') : i = 1 /\ toR'[i] = new
        BY <2>4
      <3>2. Len(toR) = 0 /\ toS' = <<>> /\ Len(toS') = 0 /\ Air \in Nat
        BY <1>1 DEF LinkAssumption
      <3>3. Len(toR') + Len(toS') <= Air
        BY <2>1, <2>4, <3>2
      <3>4. QED  BY <2>1, <2>2, <2>3, <2>4, <3>1, <3>2, <3>3 DEF FlightInv
    <2>6. AttemptInv'
      <3>1. losses \in Nat /\ attempt \in Nat
        BY DEF CountsInv
      <3>2. QED  BY <1>1, <1>4, <2>1, <3>1 DEF AttemptInv, Midway
    <2>7. RescueInv'
      BY <1>1, <1>2, <1>3, <2>1, <2>4 DEF RescueInv, Listens
    <2>8. QED
      BY <1>1, <2>1, <2>5, <2>6, <2>7
         DEF CalmParts, ListenInv, Working, RangeInv, FailInv, Midway
  <1>7. QED  BY <1>5, <1>6

\* A confirmation is sent when nothing is left to account for.
LEMMA CompleteCalm ==
    ASSUME CalmParts, Complete PROVE CalmParts'
  <1>1. spc' = "sent"
    BY DEF Complete
  <1>2. QED
    BY <1>1 DEF CalmParts, ListenInv, Working, FlightInv, RangeInv, AttemptInv, RescueInv,
                FailInv, Midway

\* More microbursts carry more blocks.
LEMMA Mono ==
    ASSUME NEW i \in Nat, NEW j \in Nat, NEW c \in Nat, i <= j
    PROVE  i * c <= j * c
  <1>1. j - i \in Nat /\ j = i + (j - i)
    OBVIOUS
  <1>2. (j - i) * c >= 0
    BY <1>1
  <1>3. j * c = i * c + (j - i) * c
    BY <1>1
  <1>4. QED  BY <1>2, <1>3

\* k things make so many chunks: one less would not hold them.
LEMMA RoundUp ==
    ASSUME NEW k \in Nat \ {0}, NEW c \in Nat \ {0}
    PROVE  LET q == (k + c - 1) \div c IN q \in Nat \ {0} /\ (q - 1) * c < k /\ k <= q * c
  <1> DEFINE q == (k + c - 1) \div c
  <1>1. q \in Nat
    OBVIOUS
  <1>2. c * q <= k + c - 1 /\ k + c - 1 < c * q + c
    OBVIOUS
  <1> HIDE DEF q
  <1>3. c * q = q * c /\ (q - 1) * c = q * c - c
    BY <1>1
  <1>4. q * c \in Int
    BY <1>1
  <1>5. k <= q * c /\ q * c - c < k
    BY <1>2, <1>3, <1>4
  <1>6. q # 0
    BY <1>5
  <1>7. QED  BY <1>1, <1>3, <1>5, <1>6 DEF q

\* There is a last block among those not acknowledged.
LEMMA LastOfPending ==
    ASSUME LinkAssumption, pending \subseteq Block, pending # {}
    PROVE  \E b \in pending : \A c \in pending : c <= b
  <1> DEFINE S == {N - b : b \in pending}
  <1>1. S \subseteq Nat /\ S # {}
    <2>1. \A b \in pending : N - b \in Nat
      BY DEF Block, LinkAssumption
    <2>2. PICK b \in pending : TRUE
      OBVIOUS
    <2>3. N - b \in S
      OBVIOUS
    <2>4. QED  BY <2>1, <2>3
  <1>2. PICK m \in S : \A n \in S : ~(<<n, m>> \in OpToRel(<, Nat))
    <2> HIDE DEF S
    <2>1. QED  BY <1>1, NatLessThanWellFounded, WFMin
  <1>3. PICK b \in pending : m = N - b
    BY <1>2
  <1>4. ASSUME NEW c \in pending, ~(c <= b) PROVE FALSE
    <2>1. N - c \in S /\ N - c \in Nat /\ m \in Nat /\ N - c < m
      BY <1>3, <1>4, <1>1 DEF Block, LinkAssumption
    <2> HIDE DEF S
    <2>2. <<N - c, m>> \in {ss \in Nat \X Nat : ss[1] < ss[2]}
      BY <2>1
    <2>3. <<N - c, m>> \in OpToRel(<, Nat)
      BY <2>2 DEF OpToRel
    <2>4. QED  BY <1>2, <2>1, <2>3
  <1>5. QED  BY <1>4

\* The ranks of the blocks not acknowledged.
LEMMA RankIs ==
    ASSUME LinkAssumption, pending \subseteq Block, pending # {}
    PROVE  /\ Cardinality(pending) \in Nat \ {0}
           /\ \A b \in pending : Rank(b) \in Nat \ {0} /\ Rank(b) <= Cardinality(pending)
  <1>1. IsFiniteSet(pending) /\ Cardinality(pending) \in Nat \ {0}
    <2>1. IsFiniteSet(Block)
      <3>1. 1 \in Int /\ N \in Int
        BY DEF LinkAssumption
      <3>2. QED  BY <3>1, FS_Interval DEF Block
    <2>2. IsFiniteSet(pending)
      BY <2>1, FS_Subset
    <2>3. QED  BY <2>2, FS_CardinalityType, FS_EmptySet
  <1>2. ASSUME NEW b \in pending
        PROVE  Rank(b) \in Nat \ {0} /\ Rank(b) <= Cardinality(pending)
    <2> DEFINE S == {c \in pending : c <= b}
    <2>1. S \in SUBSET pending /\ b \in S
      BY DEF Block, LinkAssumption
    <2> HIDE DEF S
    <2>2. IsFiniteSet(S) /\ Cardinality(S) <= Cardinality(pending)
      BY <1>1, <2>1, FS_Subset
    <2>3. Cardinality(S) \in Nat \ {0}
      BY <2>1, <2>2, FS_CardinalityType, FS_EmptySet
    <2>4. QED  BY <2>2, <2>3 DEF Rank, S
  <1>3. QED  BY <1>1, <1>2

\* A train carries every block, and the last block in its last microburst only.
LEMMA TrainCarries ==
    ASSUME LinkAssumption, pending \subseteq Block, pending # {}
    PROVE  /\ Chunks \in Nat \ {0}
           /\ \A b \in pending : \E i \in 1..Chunks : b \in Micro(i).blocks
           /\ \E b \in pending : /\ b \in Micro(Chunks).blocks
                                 /\ \A i \in 1..(Chunks - 1) : b \notin Micro(i).blocks
  <1> DEFINE k == Cardinality(pending)
  <1>1. Chunk \in Nat \ {0} /\ k \in Nat \ {0}
    BY RankIs DEF LinkAssumption
  <1>2. Chunks \in Nat \ {0} /\ (Chunks - 1) * Chunk < k /\ k <= Chunks * Chunk
    BY <1>1, RoundUp DEF Chunks
  <1>3. \A i : Micro(i).blocks =
                {b \in pending : (i - 1) * Chunk < Rank(b) /\ Rank(b) <= i * Chunk}
    BY DEF Micro, Data
  <1>4. ASSUME NEW b \in pending PROVE \E i \in 1..Chunks : b \in Micro(i).blocks
    <2> DEFINE q == (Rank(b) + Chunk - 1) \div Chunk
    <2>1. Rank(b) \in Nat \ {0} /\ Rank(b) <= k
      BY RankIs
    <2>2. q \in Nat \ {0} /\ (q - 1) * Chunk < Rank(b) /\ Rank(b) <= q * Chunk
      BY <1>1, <2>1, RoundUp
    <2> HIDE DEF q, k
    <2>3. q <= Chunks
      <3>1. SUFFICES ASSUME ~(q <= Chunks) PROVE FALSE
        OBVIOUS
      <3>2. q - 1 \in Nat /\ Chunks <= q - 1 /\ Chunks \in Nat /\ Chunk \in Nat
        BY <1>1, <1>2, <2>2, <3>1
      <3>3. Chunks * Chunk <= (q - 1) * Chunk
        BY <3>2, Mono
      <3>4. Chunks * Chunk \in Nat /\ (q - 1) * Chunk \in Nat
        BY <3>2
      <3>5. QED  BY <1>1, <1>2, <2>1, <2>2, <3>3, <3>4
    <2>4. q \in 1..Chunks
      BY <1>2, <2>2, <2>3
    <2>5. QED  BY <1>3, <2>2, <2>4
  <1>5. \E b \in pending : /\ b \in Micro(Chunks).blocks
                           /\ \A i \in 1..(Chunks - 1) : b \notin Micro(i).blocks
    <2>1. PICK b \in pending : \A c \in pending : c <= b
      BY LastOfPending
    <2>2. Rank(b) = k
      <3>1. {c \in pending : c <= b} = pending
        BY <2>1
      <3>2. QED  BY <3>1 DEF Rank
    <2>3. b \in Micro(Chunks).blocks
      BY <1>2, <1>3, <2>2
    <2>4. ASSUME NEW i \in 1..(Chunks - 1) PROVE b \notin Micro(i).blocks
      <3>1. i \in Nat /\ Chunks - 1 \in Nat /\ i <= Chunks - 1 /\ Chunk \in Nat
        BY <1>1, <1>2
      <3>2. i * Chunk <= (Chunks - 1) * Chunk
        BY <3>1, Mono
      <3>3. i * Chunk \in Nat /\ (Chunks - 1) * Chunk \in Nat
        BY <3>1
      <3> HIDE DEF k
      <3>4. ~(Rank(b) <= i * Chunk)
        BY <1>1, <1>2, <2>2, <3>2, <3>3
      <3>5. QED  BY <1>3, <3>4
    <2>5. QED  BY <2>3, <2>4
  <1>6. QED  BY <1>2, <1>4, <1>5

\* A train brings every block, its last microburst one of its own.
LEMMA SendTrainCalm ==
    ASSUME LinkAssumption, LinkInv, LinkInv', CountsInv, CalmParts, SendTrain
    PROVE  CalmParts'
  <1> DEFINE train == [i \in 1..Chunks |-> Micro(i)]
  <1>1. /\ spc = "send" /\ spc' = "await" /\ AsTrain /\ Len(toR) + Chunks <= Air
        /\ unsent' = {} /\ toR' = toR \o train
        /\ UNCHANGED <<mode, first, window, pending, attempt, rpc, held, toS, losses>>
    BY DEF SendTrain, receiver
  <1>2. toR = <<>> /\ toS = <<>>
    BY <1>1 DEF CalmParts, FlightInv
  <1>3. pending \subseteq Block /\ pending # {} /\ first \in Nat /\ Air \in Nat
    BY <1>1 DEF LinkInv, SenderInv, CountsInv, Midway, Block, LinkAssumption
  <1>4. Chunks \in Nat \ {0}
    BY <1>3, TrainCarries
  <1>5. train \in Seq(Burst) /\ Len(train) = Chunks /\ \A i \in 1..Chunks : train[i] = Micro(i)
    <2>1. \A i \in 1..Chunks : Micro(i) \in Burst
      BY <1>3, <1>4 DEF Micro, Data, Burst
    <2>2. QED  BY <1>4, <2>1
  <1> HIDE DEF train
  <1>6. toR' = train /\ Len(toR') = Chunks /\ \A i \in 1..Chunks : toR'[i] = Micro(i)
    <2>1. <<>> \o train = train
      BY <1>5
    <2>2. QED  BY <1>1, <1>2, <1>5, <2>1
  <1>7. \A i \in 1..Chunks : /\ Micro(i).id = first + i - 1 /\ Micro(i).defer = (i < Chunks)
                             /\ Micro(i).blocks \subseteq pending /\ Micro(i).kind = "data"
    BY DEF Micro, Data
  <1>8. Awaited' = first + Chunks - 1
    BY <1>1, SameAwaited DEF Awaited
  <1>9. FlightInv'
    <2>1. Len(toR') + Len(toS') <= Air
      <3>1. Len(toR) = 0 /\ Len(toS') = 0
        BY <1>1, <1>2
      <3>2. QED  BY <1>1, <1>3, <1>4, <1>6, <3>1
    <2>2. \A i \in 1..Len(toR') :
             /\ toR'[i].id = Awaited' <=> i = Len(toR')
             /\ i = Len(toR') => ~toR'[i].defer
             /\ toR'[i].blocks \subseteq pending'
             /\ toR'[i].kind = "data"
      <3>1. SUFFICES ASSUME NEW i \in 1..Chunks
                     PROVE  /\ toR'[i].id = Awaited' <=> i = Chunks
                            /\ i = Chunks => ~toR'[i].defer
                            /\ toR'[i].blocks \subseteq pending'
                            /\ toR'[i].kind = "data"
        BY <1>6
      <3>2. toR'[i] = Micro(i)
        BY <1>6
      <3>3. first + i - 1 = first + Chunks - 1 <=> i = Chunks
        BY <1>3, <1>4
      <3>4. i = Chunks => ~(i < Chunks)
        BY <1>4
      <3>5. QED  BY <1>1, <1>7, <1>8, <3>2, <3>3, <3>4
    <2>3. \A i \in 1..Len(toS') : FALSE
      BY <1>1, <1>2
    <2>4. QED  BY <1>1, <2>1, <2>2, <2>3 DEF FlightInv
  <1>10. toR' # <<>>
    <2>1. Len(toR') # 0
      BY <1>4, <1>6
    <2>2. QED  BY <2>1
  <1>11. AttemptInv'
    <2>1. \A b \in pending : \E i \in 1..Chunks : b \in Micro(i).blocks
      BY <1>3, TrainCarries
    <2>2. \A b \in pending' : \E i \in 1..Len(toR') : b \in toR'[i].blocks
      BY <1>1, <1>6, <2>1
    <2>3. Intact'
      BY <1>10, <2>2 DEF Intact
    <2>4. QED  BY <1>1, <2>3 DEF AttemptInv, CalmParts, Midway
  <1>12. RescueInv'
    <2>1. SUFFICES ASSUME mode # "legacy", ~(losses > 1)
                   PROVE  LastIsNew' /\ pending \cap held = {}
      BY <1>1 DEF RescueInv
    <2>2. pending \cap held = {}
      BY <1>1, <2>1 DEF RescueInv, CalmParts
    <2>3. PICK b \in pending : /\ b \in Micro(Chunks).blocks
                              /\ \A i \in 1..(Chunks - 1) : b \notin Micro(i).blocks
      BY <1>3, TrainCarries
    <2>4. Chunks \in 1..Chunks /\ \A i \in 1..(Chunks - 1) : i \in 1..Chunks
      BY <1>4
    <2>5. b \in toR'[Len(toR')].blocks \ held'
      BY <1>1, <1>6, <2>2, <2>3, <2>4
    <2>6. \A i \in 1..(Len(toR') - 1) : b \notin toR'[i].blocks
      BY <1>6, <2>3, <2>4
    <2>7. QED  BY <2>2, <2>5, <2>6 DEF LastIsNew
  <1>13. QED
    BY <1>1, <1>9, <1>11, <1>12
       DEF CalmParts, ListenInv, Working, RangeInv, FailInv, Midway

----------------------------------------------------------------------------
(* The receiver and the air                                                *)

\* The answer to a burst joins the others.
LEMMA AnswerComes ==
    ASSUME LinkAssumption, LinkInv, FlightInv, spc \in {"await", "polled"}, toR # <<>>,
           toR' = Tail(toR), UNCHANGED <<mode, spc, first, window, pending>>,
           NEW ok, Answer(Head(toR).id, held', ok)
    PROVE  /\ Len(toR') + Len(toS') <= Air
           /\ \A i \in 1..Len(toS') : toS'[i].id = Awaited =>
                i = Len(toS') /\ toR' = <<>> /\ toS'[i].held = held'
           /\ toR' = <<>> => Coming' /\ toS'[Len(toS')].ok = ok
  <1> DEFINE new == [id |-> Head(toR).id, held |-> held', ok |-> ok]
  <1>1. /\ Len(toR') = Len(toR) - 1 /\ Len(toR) \in Nat \ {0}
        /\ toR' = <<>> <=> Len(toR) = 1
        /\ toR' # <<>> => Head(toR).id # Awaited
        /\ toR' = <<>> => Head(toR).id = Awaited
    BY BurstGone
  <1>2. Len(toS) \in Nat /\ Air \in Nat /\ Len(toR) + Len(toS) <= Air
    BY DEF LinkInv, AirInv, FlightInv, LinkAssumption
  <1>3. Len(toS) < Air
    BY <1>1, <1>2
  <1>4. toS' = Append(toS, new)
    BY <1>3 DEF Answer
  <1>5. new.id = Head(toR).id /\ new.held = held' /\ new.ok = ok
    OBVIOUS
  <1> HIDE DEF new
  <1>6. /\ Len(toS') = Len(toS) + 1 /\ toS'[Len(toS')] = new
        /\ \A i \in 1..Len(toS') : i = Len(toS') \/ (i \in 1..Len(toS) /\ toS'[i] = toS[i])
    <2>1. toS \in Seq(Reply)
      BY DEF LinkInv, AirInv
    <2>2. QED  BY <1>2, <1>4, <2>1
  <1>7. \A i \in 1..Len(toS) : toS[i].id # Awaited
    BY DEF FlightInv
  <1>8. Awaited' = Awaited
    BY SameAwaited
  <1>9. toS' # <<>>
    BY <1>4
  <1>10. Len(toR') + Len(toS') <= Air
    BY <1>1, <1>2, <1>6
  <1>11. QED  BY <1>1, <1>5, <1>6, <1>7, <1>8, <1>9, <1>10 DEF Coming

\* What is decoded is held and, at the end of a train, answered.
LEMMA HearDataCalm ==
    ASSUME LinkAssumption, LinkInv, LinkInv', CountsInv, CountsInv', CalmParts, HearData
    PROVE  CalmParts'
  <1>1. PICK got \in SUBSET Head(toR).blocks :
          /\ Holding(held \cup got)
          /\ IF Head(toR).defer THEN UNCHANGED toS
             ELSE Answer(Head(toR).id, held \cup got, got = Head(toR).blocks)
          /\ IF got = Head(toR).blocks THEN UNCHANGED losses
             ELSE losses < MaxLosses /\ losses' = losses + 1
    BY DEF HearData
  <1>2. /\ rpc = "listen" /\ toR # <<>> /\ Head(toR).kind = "data" /\ toR' = Tail(toR)
        /\ UNCHANGED <<mode, spc, first, window, pending, unsent, attempt>>
    BY DEF HearData, sender
  <1>3. losses \in Nat /\ losses' \in Nat /\ attempt \in Nat
        /\ held' = held \cup got /\ held # Block /\ losses <= losses'
    BY <1>1, <1>2 DEF CountsInv, Holding, LinkInv, ReceiverInv
  <1>4. FlightInv /\ AttemptInv /\ RescueInv
    BY DEF CalmParts
  <1>5. CASE spc \in {"sent", "failed"}
    BY <1>2, <1>3, <1>5, Afterwards
  <1>6. CASE spc \in {"window", "send"}
    BY <1>2, <1>4, <1>6 DEF FlightInv
  <1>7. CASE spc \in {"await", "polled"}
    <2>1. /\ Len(toR') = Len(toR) - 1 /\ Len(toR) \in Nat \ {0}
          /\ toR' # <<>> => toR'[Len(toR')] = toR[Len(toR)] /\ Head(toR).id # Awaited
          /\ toR' = <<>> => Head(toR) = toR[Len(toR)] /\ Head(toR).id = Awaited
                              /\ ~Head(toR).defer
          /\ Head(toR) = toR[1] /\ 1 \in 1..Len(toR)
          /\ \A i \in 1..Len(toR') : i + 1 \in 1..Len(toR) /\ toR'[i] = toR[i + 1]
      BY <1>2, <1>4, <1>7, BurstGone
    <2>2. \A i \in 1..Len(toR') :
                /\ toR'[i].id = Awaited <=> i = Len(toR')
                /\ i = Len(toR') => ~toR'[i].defer
                /\ toR'[i].blocks \subseteq pending
                /\ toR'[i].kind = IF spc = "await" THEN "data" ELSE "poll"
      BY <1>2, <1>4, <1>7, BurstGone
    <2>3. Awaited' = Awaited
      BY <1>2, SameAwaited
    <2>4. spc = "await" /\ Head(toR).blocks \subseteq pending
      BY <1>2, <1>4, <1>7, <2>1 DEF FlightInv
    <2>5. pending \subseteq window /\ pending \subseteq Block
      BY <2>4 DEF LinkInv, SenderInv, Midway, Block, LinkAssumption
    <2>6. /\ Len(toR') + Len(toS') <= Air
          /\ \A i \in 1..Len(toS') : toS'[i].id = Awaited =>
                i = Len(toS') /\ toR' = <<>> /\ toS'[i].held = held'
          /\ toR' = <<>> => Coming' /\ toS'[Len(toS')].ok = (got = Head(toR).blocks)
      <3>1. CASE Head(toR).defer
        <4>1. Len(toS) \in Nat /\ Air \in Nat /\ Len(toR) + Len(toS) <= Air
          BY <1>4, <1>7 DEF LinkInv, AirInv, FlightInv, LinkAssumption
        <4>2. toS' = toS
          BY <1>1, <3>1
        <4>3. Len(toR') + Len(toS') <= Air
          BY <2>1, <4>1, <4>2
        <4>4. \A i \in 1..Len(toS') : toS'[i].id # Awaited
          BY <1>2, <1>4, <1>7, <4>2 DEF FlightInv
        <4>5. QED  BY <2>1, <3>1, <4>3, <4>4
      <3>2. CASE ~Head(toR).defer
        <4>1. Answer(Head(toR).id, held', got = Head(toR).blocks)
          BY <1>1, <1>3, <3>2
        <4>2. QED  BY <1>2, <1>4, <1>7, <4>1, AnswerComes
      <3>3. QED  BY <3>1, <3>2
    <2>7. ListenInv'
      BY <1>1, <1>2, <1>3 DEF Holding, ListenInv
    <2>8. FlightInv'
      BY <1>2, <2>2, <2>3, <2>4, <2>6 DEF FlightInv
    <2>9. RangeInv'
      BY <1>2, <1>3, <2>4, <2>5 DEF RangeInv, CalmParts, Midway
    <2>10. AttemptInv'
      <3>1. SUFFICES ASSUME ~(losses' > attempt) PROVE Intact'
        BY <1>2, <1>3, <1>4, <2>4 DEF AttemptInv, Midway
      <3>2. got = Head(toR).blocks /\ losses' = losses /\ Intact
        <4>1. losses >= attempt /\ (losses > attempt \/ Intact)
          BY <1>3, <1>4, <2>4 DEF AttemptInv, Midway
        <4>2. QED  BY <1>1, <1>3, <3>1, <4>1
      <3>3. ASSUME NEW b \in pending \ unsent
            PROVE  b \in held' \/ \E i \in 1..Len(toR') : b \in toR'[i].blocks
        <4>1. CASE b \in held
          BY <1>3, <4>1
        <4>2. CASE b \notin held
          <5>1. PICK i \in 1..Len(toR) : b \in toR[i].blocks
            BY <3>2, <3>3, <4>2 DEF Intact
          <5>2. CASE i = 1
            BY <1>3, <2>1, <3>2, <5>1, <5>2
          <5>3. CASE i # 1
            <6>1. i - 1 \in 1..Len(toR') /\ (i - 1) + 1 = i
              BY <2>1, <5>3
            <6>2. toR'[i - 1] = toR[i]
              BY <2>1, <6>1
            <6>3. QED  BY <5>1, <6>1, <6>2
          <5>4. QED  BY <5>2, <5>3
        <4>3. QED  BY <4>1, <4>2
      <3>4. QED  BY <1>2, <2>6, <3>2, <3>3 DEF Intact
    <2>11. RescueInv'
      <3>1. SUFFICES ASSUME mode # "legacy", ~(losses' > 1)
                     PROVE  /\ toR' # <<>> => LastIsNew'
                            /\ \/ Coming' /\ Listens'
                               \/ toR' # <<>> /\ rpc' = "listen"
        BY <1>2, <2>4 DEF RescueInv
      <3>2. toR' # <<>> => LastIsNew'
        <4>1. SUFFICES ASSUME toR' # <<>> PROVE LastIsNew'
          OBVIOUS
        <4>2. ~(losses > 1)
          BY <1>3, <3>1
        <4>3. PICK b \in toR[Len(toR)].blocks \ held :
                \A i \in 1..(Len(toR) - 1) : b \notin toR[i].blocks
          BY <1>2, <1>4, <2>4, <3>1, <4>2 DEF RescueInv, LastIsNew
        <4>4. Len(toR') \in Nat \ {0} /\ 1 \in 1..(Len(toR) - 1)
          <5>1. Len(toR) # 1
            BY <1>2, <1>4, <1>7, <4>1, BurstGone
          <5>2. QED  BY <2>1, <5>1
        <4>5. b \notin got
          BY <1>1, <2>1, <4>3, <4>4
        <4>6. ASSUME NEW i \in 1..(Len(toR') - 1) PROVE b \notin toR'[i].blocks
          <5>1. i + 1 \in 1..(Len(toR) - 1) /\ i \in 1..Len(toR')
            BY <2>1, <4>4
          <5>2. QED  BY <2>1, <4>3, <5>1
        <4>7. QED  BY <1>3, <2>1, <4>1, <4>3, <4>5, <4>6 DEF LastIsNew
      <3>3. CASE toR' = <<>>
        <4>1. LingerRounds # 0
          BY DEF LingerRounds
        <4>2. rpc' \in {"listen", "linger"}
          BY <1>1, <1>2, <3>1, <4>1 DEF Holding
        <4>3. QED  BY <2>6, <3>3, <4>2 DEF Listens
      <3>4. CASE toR' # <<>>
        <4>1. PICK b \in toR'[Len(toR')].blocks \ held' : TRUE
          BY <3>2, <3>4 DEF LastIsNew
        <4>2. Len(toR') \in 1..Len(toR')
          <5>1. Len(toR) # 1
            BY <1>2, <1>4, <1>7, <3>4, BurstGone
          <5>2. QED  BY <2>1, <5>1
        <4>3. b \in Block
          BY <2>2, <2>5, <4>1, <4>2
        <4>4. held' # Block
          BY <4>1, <4>3
        <4>5. rpc' = "listen"
          BY <1>1, <1>2, <1>3, <4>4 DEF Holding
        <4>6. QED  BY <3>2, <3>4, <4>5
      <3>5. QED  BY <3>3, <3>4
    <2>12. QED
      BY <1>2, <2>4, <2>7, <2>8, <2>9, <2>10, <2>11 DEF CalmParts, FailInv
  <1>8. QED  BY <1>5, <1>6, <1>7 DEF LinkInv, SenderInv, Midway

\* A POLL is answered by a receiver that holds anything.
LEMMA HearPollCalm ==
    ASSUME LinkAssumption, LinkInv, LinkInv', CountsInv, CountsInv', CalmParts, HearPoll
    PROVE  CalmParts'
  <1>1. /\ rpc = "listen" /\ toR # <<>> /\ Head(toR).kind # "data" /\ toR' = Tail(toR)
        /\ UNCHANGED <<mode, spc, first, window, pending, unsent, attempt, rpc, held, started,
                       losses>>
    BY DEF HearPoll, sender, receiver
  <1>2. losses \in Nat /\ held # Block
    BY <1>1 DEF CountsInv, LinkInv, ReceiverInv
  <1>3. FlightInv /\ AttemptInv /\ RescueInv
    BY DEF CalmParts
  <1>4. CASE spc \in {"sent", "failed"}
    BY <1>1, <1>2, <1>4, Afterwards
  <1>5. CASE spc \in {"window", "send"}
    BY <1>1, <1>3, <1>5 DEF FlightInv
  <1>6. CASE spc \in {"await", "polled"}
    <2>1. /\ Len(toR') = Len(toR) - 1 /\ Len(toR) \in Nat \ {0}
          /\ toR' = <<>> <=> Len(toR) = 1
          /\ Head(toR) = toR[1] /\ 1 \in 1..Len(toR)
          /\ \A i \in 1..Len(toR') :
                /\ toR'[i].id = Awaited <=> i = Len(toR')
                /\ i = Len(toR') => ~toR'[i].defer
                /\ toR'[i].blocks \subseteq pending
                /\ toR'[i].kind = IF spc = "await" THEN "data" ELSE "poll"
      BY <1>1, <1>3, <1>6, BurstGone
    <2>2. Awaited' = Awaited
      BY <1>1, SameAwaited
    <2>3. spc = "polled" /\ Len(toR) = 1 /\ toR' = <<>>
      <3>1. toR[1].kind = IF spc = "await" THEN "data" ELSE "poll"
        BY <1>3, <1>6, <2>1 DEF FlightInv
      <3>2. spc = "polled"
        BY <1>1, <1>6, <2>1, <3>1
      <3>3. Len(toR) <= 1
        BY <1>3, <3>2 DEF FlightInv
      <3>4. QED  BY <2>1, <3>2, <3>3
    <2>4. /\ Len(toR') + Len(toS') <= Air
          /\ \A i \in 1..Len(toS') : toS'[i].id = Awaited =>
                i = Len(toS') /\ toR' = <<>> /\ toS'[i].held = held'
          /\ started => Coming'
      <3>1. CASE started
        <4>1. Answer(Head(toR).id, held', TRUE)
          BY <1>1, <3>1 DEF HearPoll
        <4>2. QED  BY <1>1, <1>3, <1>6, <2>3, <4>1, AnswerComes
      <3>2. CASE ~started
        <4>1. Len(toS) \in Nat /\ Air \in Nat /\ Len(toR) + Len(toS) <= Air
          BY <1>3, <1>6 DEF LinkInv, AirInv, FlightInv, LinkAssumption
        <4>2. toS' = toS
          BY <3>2 DEF HearPoll
        <4>3. Len(toR') + Len(toS') <= Air
          BY <2>1, <4>1, <4>2
        <4>4. \A i \in 1..Len(toS') : toS'[i].id # Awaited
          BY <1>1, <1>3, <1>6, <4>2 DEF FlightInv
        <4>5. QED  BY <3>2, <4>3, <4>4
      <3>3. QED  BY <3>1, <3>2
    <2>5. FlightInv'
      <3>1. Len(toR') <= 1
        BY <2>1, <2>3
      <3>2. QED  BY <1>1, <2>1, <2>2, <2>3, <2>4, <3>1 DEF FlightInv
    <2>6. AttemptInv'
      BY <1>1, <1>3, <2>3 DEF AttemptInv, Midway
    <2>7. RescueInv'
      <3>1. SUFFICES ASSUME mode # "legacy", ~(losses > 1), pending \cap held # {}
                     PROVE  losses > 0 /\ Coming'
        BY <1>1, <2>3 DEF RescueInv
      <3>2. losses > 0
        BY <1>3, <2>3, <3>1 DEF RescueInv
      <3>3. started
        BY <3>1 DEF CountsInv
      <3>4. QED  BY <2>4, <3>2, <3>3
    <2>8. QED
      BY <1>1, <2>3, <2>5, <2>6, <2>7
         DEF CalmParts, ListenInv, Working, RangeInv, FailInv, Midway
  <1>7. QED  BY <1>4, <1>5, <1>6 DEF LinkInv, SenderInv, Midway

\* While the receiver lingers, the last burst of a train brings nothing new.
LEMMA NothingNew ==
    ASSUME LinkAssumption, LinkInv, FlightInv, spc \in {"await", "polled"}, held = Block,
           toR # <<>>
    PROVE  ~LastIsNew
  <1>1. Len(toR) \in 1..Len(toR)
    <2>1. toR \in Seq(Burst)
      BY DEF LinkInv, AirInv
    <2>2. Len(toR) \in Nat \ {0}
      BY <2>1, EmptyIs
    <2>3. QED  BY <2>2
  <1>2. pending \subseteq Block
    BY DEF LinkInv, SenderInv, Midway, Block, LinkAssumption
  <1>3. toR[Len(toR)].blocks \subseteq pending
    BY <1>1 DEF FlightInv
  <1>4. QED  BY <1>2, <1>3 DEF LastIsNew

\* A lingering receiver answers what comes again.
LEMMA HearAgainCalm ==
    ASSUME LinkAssumption, LinkInv, LinkInv', CountsInv, CountsInv', CalmParts, HearAgain
    PROVE  CalmParts'
  <1>1. /\ rpc = "linger" /\ toR # <<>> /\ toR' = Tail(toR)
        /\ UNCHANGED <<mode, spc, first, window, pending, unsent, attempt, held, losses>>
    BY DEF HearAgain, UseRound, sender
  <1>2. losses \in Nat
    BY DEF CountsInv
  <1>3. FlightInv /\ AttemptInv /\ RescueInv
    BY DEF CalmParts
  <1>4. CASE spc \in {"sent", "failed"}
    BY <1>1, <1>2, <1>4, Afterwards
  <1>5. CASE spc \in {"window", "send"}
    BY <1>1, <1>3, <1>5 DEF FlightInv
  <1>6. CASE spc \in {"await", "polled"}
    <2>1. /\ Len(toR') = Len(toR) - 1 /\ Len(toR) \in Nat \ {0}
          /\ toR' = <<>> <=> Len(toR) = 1
          /\ Head(toR) = toR[1] /\ 1 \in 1..Len(toR)
          /\ \A i \in 1..Len(toR') :
                /\ toR'[i].id = Awaited <=> i = Len(toR')
                /\ i = Len(toR') => ~toR'[i].defer
                /\ toR'[i].blocks \subseteq pending
                /\ toR'[i].kind = IF spc = "await" THEN "data" ELSE "poll"
      BY <1>1, <1>3, <1>6, BurstGone
    <2>2. Awaited' = Awaited
      BY <1>1, SameAwaited
    <2>3. held = Block
      BY <1>1, <1>6 DEF CalmParts, ListenInv, Working
    <2>4. Answer(Head(toR).id, held', TRUE)
      <3>1. Head(toR).kind # "confirm"
        BY <1>3, <1>6, <2>1 DEF FlightInv
      <3>2. QED  BY <1>1, <3>1 DEF HearAgain
    <2>5. /\ Len(toR') + Len(toS') <= Air
          /\ \A i \in 1..Len(toS') : toS'[i].id = Awaited =>
                i = Len(toS') /\ toR' = <<>> /\ toS'[i].held = held'
          /\ toR' = <<>> => Coming'
      BY <1>1, <1>3, <1>6, <2>4, AnswerComes
    <2>6. FlightInv'
      <3>1. spc = "polled" => Len(toR') <= 1
        BY <1>3, <2>1 DEF FlightInv
      <3>2. QED  BY <1>1, <1>6, <2>1, <2>2, <2>5, <3>1 DEF FlightInv
    <2>7. RescueInv'
      <3>1. CASE spc = "await"
        <4>1. mode # "legacy" => losses > 1
          BY <1>1, <1>3, <2>3, <3>1, NothingNew DEF RescueInv
        <4>2. QED  BY <1>1, <3>1, <4>1 DEF RescueInv
      <3>2. CASE spc = "polled"
        <4>1. toR' = <<>>
          BY <1>3, <2>1, <3>2 DEF FlightInv
        <4>2. QED  BY <1>1, <1>3, <2>5, <3>2, <4>1 DEF RescueInv
      <3>3. QED  BY <1>6, <3>1, <3>2
    <2>8. QED
      BY <1>1, <1>6, <2>3, <2>6, <2>7
         DEF CalmParts, ListenInv, Working, RangeInv, AttemptInv, FailInv, Midway
  <1>7. QED  BY <1>4, <1>5, <1>6 DEF LinkInv, SenderInv, Midway

\* A disturbed receiver has lost a round, and the link a burst.
LEMMA DisturbedCalm ==
    ASSUME LinkAssumption, LinkInv, LinkInv', CountsInv, CountsInv', CalmParts, Disturbed
    PROVE  CalmParts'
  <1>1. /\ rpc = "linger" /\ losses' = losses + 1
        /\ UNCHANGED <<mode, spc, first, window, pending, unsent, attempt, held, toR, toS>>
    BY DEF Disturbed, UseRound, sender
  <1>2. losses \in Nat
    BY DEF CountsInv
  <1>3. CASE spc \in {"sent", "failed"}
    BY <1>1, <1>2, <1>3, Afterwards
  <1>4. CASE spc \notin {"sent", "failed"}
    <2>1. held = Block
      BY <1>1, <1>4 DEF CalmParts, ListenInv, Working, LinkInv, SenderInv, Midway
    <2>2. Awaited' = Awaited
      BY <1>1, SameAwaited
    <2>3. FlightInv'
      BY <1>1, <2>2 DEF CalmParts, FlightInv
    <2>4. RescueInv'
      <3>1. losses' > losses /\ losses' > 0 /\ (losses > 0 => losses' > 1)
            /\ (losses > 1 => losses' > 1)
        BY <1>1, <1>2
      <3>2. (LastIsNew => LastIsNew') /\ (Coming => Coming')
        BY <1>1, <2>2 DEF LastIsNew, Coming
      <3>3. QED  BY <1>1, <3>1, <3>2 DEF CalmParts, RescueInv
    <2>5. QED
      BY <1>1, <1>4, <2>1, <2>3, <2>4
         DEF CalmParts, ListenInv, Working, RangeInv, AttemptInv, FailInv, Midway
  <1>5. QED  BY <1>3, <1>4

\* On a patient link a receiver gives up after the sender, or after a lost POLL.
LEMMA GivesUpCalm ==
    ASSUME LinkAssumption, LinkInv, LinkInv', CountsInv, CountsInv', CalmParts, Calm,
           ReceiverGivesUp
    PROVE  CalmParts'
  <1>1. /\ toR = <<>> /\ toS = <<>> /\ SenderIsGone
        /\ UNCHANGED <<mode, spc, first, window, pending, unsent, attempt, held, toR, toS,
                       losses>>
    BY DEF ReceiverGivesUp, Calm, Quiet, sender
  <1>2. losses \in Nat
    BY DEF CountsInv
  <1>3. CASE ~Working
    <2>1. spc \in {"sent", "failed"}
      BY <1>3 DEF Working, LinkInv, SenderInv, Midway
    <2>2. QED  BY <1>1, <1>2, <2>1, Afterwards
  <1>4. CASE rpc = "linger" /\ spc = "polled"
    <2>1. held = Block
      BY <1>4 DEF CalmParts, ListenInv, Working
    <2>2. Awaited' = Awaited
      BY <1>1, SameAwaited
    <2>3. FlightInv'
      BY <1>1, <2>2 DEF CalmParts, FlightInv
    <2>4. RescueInv'
      BY <1>1, <1>4 DEF CalmParts, RescueInv, Coming
    <2>5. QED
      BY <1>1, <1>4, <2>1, <2>3, <2>4
         DEF CalmParts, ListenInv, Working, RangeInv, AttemptInv, FailInv, Midway
  <1>5. QED  BY <1>1, <1>3, <1>4 DEF SenderIsGone

\* A lost burst is a loss of this attempt, and delays the rescue.
LEMMA LoseBurstCalm ==
    ASSUME LinkAssumption, LinkInv, LinkInv', CountsInv, CountsInv', CalmParts, LoseBurst
    PROVE  CalmParts'
  <1>1. /\ toR # <<>> /\ toR' = Tail(toR) /\ losses' = losses + 1
        /\ UNCHANGED <<mode, spc, first, window, pending, unsent, attempt, rpc, held, toS>>
    BY DEF LoseBurst, sender, receiver
  <1>2. losses \in Nat /\ attempt \in Nat
    BY DEF CountsInv
  <1>3. FlightInv /\ AttemptInv /\ RescueInv
    BY DEF CalmParts
  <1>4. CASE spc \in {"sent", "failed"}
    BY <1>1, <1>2, <1>4, Afterwards
  <1>5. CASE spc \in {"window", "send"}
    BY <1>1, <1>3, <1>5 DEF FlightInv
  <1>6. CASE spc \in {"await", "polled"}
    <2>1. /\ Len(toR') = Len(toR) - 1 /\ Len(toR) \in Nat \ {0}
          /\ toR' = <<>> <=> Len(toR) = 1
          /\ toR' # <<>> => toR'[Len(toR')] = toR[Len(toR)]
          /\ \A i \in 1..Len(toR') :
                /\ i + 1 \in 1..Len(toR) /\ toR'[i] = toR[i + 1]
                /\ toR'[i].id = Awaited <=> i = Len(toR')
                /\ i = Len(toR') => ~toR'[i].defer
                /\ toR'[i].blocks \subseteq pending
                /\ toR'[i].kind = IF spc = "await" THEN "data" ELSE "poll"
      BY <1>1, <1>3, <1>6, BurstGone
    <2>2. Awaited' = Awaited
      BY <1>1, SameAwaited
    <2>3. ~Coming
      <3>1. toS \in Seq(Reply)
        BY DEF LinkInv, AirInv
      <3>2. toS # <<>> => Len(toS) \in 1..Len(toS)
        BY <3>1, EmptyIs
      <3>3. \A i \in 1..Len(toS) : toS[i].id # Awaited
        BY <1>1, <1>3, <1>6 DEF FlightInv
      <3>4. QED  BY <3>2, <3>3 DEF Coming
    <2>4. FlightInv'
      <3>1. Len(toR') + Len(toS') <= Air /\ (spc = "polled" => Len(toR') <= 1)
        <4>1. Len(toS) \in Nat /\ Air \in Nat /\ Len(toR) + Len(toS) <= Air
          BY <1>3, <1>6 DEF LinkInv, AirInv, FlightInv, LinkAssumption
        <4>2. spc = "polled" => Len(toR) <= 1
          BY <1>3 DEF FlightInv
        <4>3. Len(toR') = Len(toR) - 1 /\ Len(toR) \in Nat /\ Len(toS') = Len(toS)
          BY <1>1, <2>1
        <4>4. QED  BY <4>1, <4>2, <4>3
      <3>2. \A i \in 1..Len(toS') : toS'[i].id # Awaited
        BY <1>1, <1>3, <1>6 DEF FlightInv
      <3>3. QED  BY <1>1, <1>6, <2>1, <2>2, <3>1, <3>2 DEF FlightInv
    <2>5. AttemptInv'
      <3>1. held # Block => losses >= attempt
        BY <1>3, <1>6 DEF AttemptInv, Midway
      <3>2. held # Block => losses' > attempt /\ losses' >= attempt
        BY <1>1, <1>2, <3>1
      <3>3. QED  BY <1>1, <1>6, <3>2 DEF AttemptInv
    <2>6. RescueInv'
      <3>1. SUFFICES ASSUME mode # "legacy", ~(losses' > 1) PROVE RescueInv'
        BY <1>1 DEF RescueInv
      <3>2. losses = 0 /\ losses' > 0 /\ ~(losses > 1)
        BY <1>1, <1>2, <3>1
      <3>3. spc = "await" /\ toR' # <<>> => LastIsNew'
        <4>1. SUFFICES ASSUME spc = "await", toR' # <<>> PROVE LastIsNew'
          OBVIOUS
        <4>2. PICK b \in toR[Len(toR)].blocks \ held :
                \A i \in 1..(Len(toR) - 1) : b \notin toR[i].blocks
          BY <1>1, <1>3, <3>1, <3>2, <4>1 DEF RescueInv, LastIsNew
        <4>3. ASSUME NEW i \in 1..(Len(toR') - 1) PROVE b \notin toR'[i].blocks
          <5>1. i + 1 \in 1..(Len(toR) - 1) /\ i \in 1..Len(toR')
            BY <2>1
          <5>2. QED  BY <2>1, <4>2, <5>1
        <4>4. QED  BY <1>1, <2>1, <4>1, <4>2, <4>3 DEF LastIsNew
      <3>4. spc = "await" /\ pending \cap held # {} => rpc = "listen"
        BY <1>3, <2>3, <3>1, <3>2 DEF RescueInv
      <3>5. spc = "polled" => pending \cap held = {}
        BY <1>3, <2>3, <3>1, <3>2 DEF RescueInv
      <3>6. QED  BY <1>1, <1>6, <3>2, <3>3, <3>4, <3>5 DEF RescueInv, Listens
    <2>7. QED
      BY <1>1, <1>6, <2>4, <2>5, <2>6
         DEF CalmParts, ListenInv, Working, RangeInv, FailInv, Midway
  <1>7. QED  BY <1>4, <1>5, <1>6 DEF LinkInv, SenderInv, Midway

\* A lost answer is a loss of this attempt, and delays the rescue.
LEMMA LoseReplyCalm ==
    ASSUME LinkAssumption, LinkInv, LinkInv', CountsInv, CountsInv', CalmParts, LoseReply
    PROVE  CalmParts'
  <1>1. /\ toS # <<>> /\ toS' = Tail(toS) /\ losses' = losses + 1
        /\ UNCHANGED <<mode, spc, first, window, pending, unsent, attempt, rpc, held, toR>>
    BY DEF LoseReply, sender, receiver
  <1>2. losses \in Nat /\ attempt \in Nat
    BY DEF CountsInv
  <1>3. FlightInv /\ AttemptInv /\ RescueInv
    BY DEF CalmParts
  <1>4. CASE spc \in {"sent", "failed"}
    BY <1>1, <1>2, <1>4, Afterwards
  <1>5. CASE spc \in {"window", "send"}
    BY <1>1, <1>3, <1>5 DEF FlightInv
  <1>6. CASE spc \in {"await", "polled"}
    <2>1. /\ Len(toS') = Len(toS) - 1 /\ Len(toS) \in Nat \ {0}
          /\ \A i \in 1..Len(toS') : toS'[i].id = Awaited =>
                i = Len(toS') /\ toR = <<>> /\ toS'[i].held = held
          /\ Coming => Coming' \/ toS' = <<>>
      BY <1>1, <1>3, <1>6, ReplyGone
    <2>2. Awaited' = Awaited
      BY <1>1, SameAwaited
    <2>3. FlightInv'
      <3>1. Len(toR') + Len(toS') <= Air
        <4>1. Len(toR) \in Nat /\ Air \in Nat /\ Len(toR) + Len(toS) <= Air
          BY <1>3, <1>6 DEF LinkInv, AirInv, FlightInv, LinkAssumption
        <4>2. Len(toR') = Len(toR) /\ Len(toS') = Len(toS) - 1 /\ Len(toS) \in Nat
          BY <1>1, <2>1
        <4>3. QED  BY <4>1, <4>2
      <3>2. QED  BY <1>1, <1>3, <1>6, <2>1, <2>2, <3>1 DEF FlightInv
    <2>4. AttemptInv'
      <3>1. held # Block => losses >= attempt
        BY <1>3, <1>6 DEF AttemptInv, Midway
      <3>2. held # Block => losses' > attempt /\ losses' >= attempt
        BY <1>1, <1>2, <3>1
      <3>3. QED  BY <1>1, <1>6, <3>2 DEF AttemptInv
    <2>5. RescueInv'
      <3>1. SUFFICES ASSUME mode # "legacy", ~(losses' > 1) PROVE RescueInv'
        BY <1>1 DEF RescueInv
      <3>2. losses = 0 /\ losses' > 0 /\ ~(losses > 1) /\ ~(losses > 0)
        BY <1>1, <1>2, <3>1
      <3>3. LastIsNew => LastIsNew'
        BY <1>1 DEF LastIsNew
      <3>4. spc = "await" /\ pending \cap held # {} =>
                (Coming /\ Listens) \/ (toR # <<>> /\ rpc = "listen")
        BY <1>3, <3>1, <3>2 DEF RescueInv
      <3>5. spc = "polled" => pending \cap held = {}
        BY <1>3, <3>1, <3>2 DEF RescueInv
      <3>6. Listens' <=> Listens
        BY <1>1 DEF Listens
      <3>7. spc = "await" /\ toR # <<>> => LastIsNew'
        BY <1>3, <3>1, <3>2, <3>3 DEF RescueInv
      <3>8. QED  BY <1>1, <1>6, <3>2, <3>4, <3>5, <3>6, <3>7 DEF RescueInv
    <2>6. QED
      BY <1>1, <1>6, <2>3, <2>4, <2>5
         DEF CalmParts, ListenInv, Working, RangeInv, FailInv, Midway
  <1>7. QED  BY <1>4, <1>5, <1>6 DEF LinkInv, SenderInv, Midway

\* What nobody listens to changes nothing.
LEMMA UnheardCalm ==
    ASSUME LinkAssumption, LinkInv, LinkInv', CountsInv, CountsInv', CalmParts, Unheard
    PROVE  CalmParts'
  <1>1. UNCHANGED <<mode, spc, first, window, pending, unsent, attempt, rpc, held, losses>>
    BY DEF Unheard, sender, receiver
  <1>2. losses \in Nat
    BY DEF CountsInv
  <1>3. FlightInv /\ RescueInv
    BY DEF CalmParts
  <1>4. CASE spc \in {"sent", "failed"}
    BY <1>1, <1>2, <1>4, Afterwards
  <1>5. CASE spc \notin {"sent", "failed"}
    <2>1. Working
      BY <1>5 DEF Working, LinkInv, SenderInv, Midway
    <2>2. toR # <<>> /\ toR' = Tail(toR) /\ toS' = toS /\ rpc \in {"returned", "quiet"}
      BY <2>1 DEF Unheard
    <2>3. held = Block /\ ~Listens
      BY <2>1, <2>2 DEF CalmParts, ListenInv, Listens
    <2>4. spc \in {"await", "polled"}
      BY <1>3, <1>5, <2>2 DEF FlightInv, LinkInv, SenderInv, Midway
    <2>5. /\ Len(toR') = Len(toR) - 1 /\ Len(toR) \in Nat \ {0}
          /\ \A i \in 1..Len(toR') :
                /\ toR'[i].id = Awaited <=> i = Len(toR')
                /\ i = Len(toR') => ~toR'[i].defer
                /\ toR'[i].blocks \subseteq pending
                /\ toR'[i].kind = IF spc = "await" THEN "data" ELSE "poll"
      BY <1>1, <1>3, <2>2, <2>4, BurstGone
    <2>6. Awaited' = Awaited
      BY <1>1, SameAwaited
    <2>7. \A i \in 1..Len(toS) : toS[i].id # Awaited
      BY <1>3, <2>2, <2>4 DEF FlightInv
    <2>8. FlightInv'
      <3>1. Len(toR') + Len(toS') <= Air /\ (spc = "polled" => Len(toR') <= 1)
        <4>1. Len(toS) \in Nat /\ Air \in Nat /\ Len(toR) + Len(toS) <= Air
          BY <1>3, <2>4 DEF LinkInv, AirInv, FlightInv, LinkAssumption
        <4>2. spc = "polled" => Len(toR) <= 1
          BY <1>3 DEF FlightInv
        <4>3. Len(toR') = Len(toR) - 1 /\ Len(toR) \in Nat /\ Len(toS') = Len(toS)
          BY <2>2, <2>5
        <4>4. QED  BY <4>1, <4>2, <4>3
      <3>2. QED  BY <1>1, <2>2, <2>4, <2>5, <2>6, <2>7, <3>1 DEF FlightInv
    <2>9. RescueInv'
      <3>1. spc = "await" /\ mode # "legacy" => losses > 1
        BY <1>3, <2>2, <2>3, <2>4, NothingNew DEF RescueInv
      <3>2. spc = "polled" /\ mode # "legacy" /\ pending \cap held # {} => losses > 1
        <4>1. ~Coming
          <5>1. toS \in Seq(Reply)
            BY DEF LinkInv, AirInv
          <5>2. toS # <<>> => Len(toS) \in 1..Len(toS)
            BY <5>1, EmptyIs
          <5>3. QED  BY <2>7, <5>2 DEF Coming
        <4>2. QED  BY <1>3, <2>3, <4>1 DEF RescueInv
      <3>3. QED  BY <1>1, <2>4, <3>1, <3>2 DEF RescueInv
    <2>10. QED
      BY <1>1, <2>3, <2>4, <2>8, <2>9
         DEF CalmParts, ListenInv, Working, RangeInv, AttemptInv, FailInv, Midway
  <1>6. QED  BY <1>4, <1>5

\* Every step of a calm link keeps the account.
LEMMA CalmKept ==
    ASSUME LinkAssumption, LinkInv, LinkInv', CalmInv, [Next]_vars PROVE CalmInv'
  <1>1. CountsInv /\ CountsInv'
    BY CountsKept DEF CalmInv
  <1>2. SUFFICES ASSUME Calm' PROVE CalmParts'
    BY <1>1 DEF CalmInv, CalmParts
  <1>3. Calm
    <2>1. patient' = patient /\ cancelled \subseteq cancelled'
      BY DEF Next, SenderStep, ReceiverStep, vars, StartWindow, SendBatch, SendTrain, Answered,
             NoAnswer, Complete, SenderStops, HearData, HearPoll, HearAgain, Disturbed,
             ReceiverGivesUp, LoseBurst, LoseReply, Unheard, Cancel
    <2>2. QED  BY <1>2, <2>1 DEF Calm
  <1>4. CalmParts
    BY <1>3 DEF CalmInv, CalmParts
  <1>5. CASE StartWindow
    BY <1>1, <1>4, <1>5, StartWindowCalm
  <1>6. CASE SendBatch
    BY <1>1, <1>4, <1>6, SendBatchCalm
  <1>7. CASE SendTrain
    BY <1>1, <1>4, <1>7, SendTrainCalm
  <1>8. CASE Answered
    BY <1>1, <1>4, <1>8, AnsweredCalm
  <1>9. CASE NoAnswer
    BY <1>1, <1>3, <1>4, <1>9, NoAnswerCalm
  <1>10. CASE Complete
    BY <1>4, <1>10, CompleteCalm
  <1>11. CASE SenderStops
    BY <1>3, <1>11 DEF SenderStops, Calm
  <1>12. CASE HearData
    BY <1>1, <1>4, <1>12, HearDataCalm
  <1>13. CASE HearPoll
    BY <1>1, <1>4, <1>13, HearPollCalm
  <1>14. CASE HearAgain
    BY <1>1, <1>4, <1>14, HearAgainCalm
  <1>15. CASE Disturbed
    BY <1>1, <1>4, <1>15, DisturbedCalm
  <1>16. CASE ReceiverGivesUp
    BY <1>1, <1>3, <1>4, <1>16, GivesUpCalm
  <1>17. CASE LoseBurst
    BY <1>1, <1>4, <1>17, LoseBurstCalm
  <1>18. CASE LoseReply
    BY <1>1, <1>4, <1>18, LoseReplyCalm
  <1>19. CASE Unheard
    BY <1>1, <1>4, <1>19, UnheardCalm
  <1>20. CASE Cancel
    <2>1. cancelled' # {}
      BY <1>20 DEF Cancel
    <2>2. QED  BY <1>2, <2>1 DEF Calm
  <1>21. CASE UNCHANGED vars
    <2>1. UNCHANGED <<mode, spc, first, window, pending, unsent, attempt, rpc, held, losses,
                      toR, toS>>
      BY <1>21 DEF vars, sender, receiver
    <2>2. Awaited' = Awaited
      BY <2>1, SameAwaited
    <2>3. QED
      BY <1>4, <2>1, <2>2
         DEF CalmParts, ListenInv, Working, FlightInv, RangeInv, AttemptInv, RescueInv, FailInv,
             Intact, Coming, LastIsNew, Listens
  <1>22. QED
    BY <1>5, <1>6, <1>7, <1>8, <1>9, <1>10, <1>11, <1>12, <1>13, <1>14, <1>15, <1>16, <1>17,
       <1>18, <1>19, <1>20, <1>21 DEF Next, SenderStep, ReceiverStep

\* Whatever the length of the message, the sizes and the number of retries: on a
\* patient link a sender that nobody cancels fails only for what was lost
\* (send_message returning False).
THEOREM FailuresAreExplained ==
    ASSUME LinkAssumption PROVE Spec => []FailureIsExplained
  <1>1. Init => CalmInv
    <2>1. SUFFICES ASSUME Init PROVE CalmInv
      OBVIOUS
    <2>2. /\ spc = "window" /\ rpc = "listen" /\ held = {} /\ started = FALSE /\ attempt = 0
          /\ toR = <<>> /\ toS = <<>> /\ losses = 0
      BY <2>1 DEF Init
    <2>3. CountsInv
      BY <2>2 DEF CountsInv, Midway
    <2>4. ListenInv /\ FlightInv /\ RangeInv /\ FailInv
      BY <2>2 DEF ListenInv, FlightInv, RangeInv, FailInv, Midway
    <2>5. AttemptInv /\ RescueInv
      BY <2>2 DEF AttemptInv, RescueInv, Midway
    <2>6. QED  BY <2>3, <2>4, <2>5 DEF CalmInv, CalmParts
  <1>2. CalmInv /\ LinkInv /\ LinkInv' /\ [Next]_vars => CalmInv'
    BY CalmKept
  <1>3. CalmInv => FailureIsExplained
    BY DEF CalmInv, CalmParts, Calm, FailInv, FailureIsExplained
  <1>4. Spec => []LinkInv
    BY KnowledgeIsTrue
  <1>5. QED  BY <1>1, <1>2, <1>3, <1>4, PTL DEF Spec

=============================================================================
