------------------------------ MODULE OfdmLink ------------------------------
(***************************************************************************)
(* The selective-repeat link that carries one message between two stations *)
(* that have handed their soundcards to the payload (guardian/ofdm/link.py).*)
(*                                                                         *)
(* The sender cuts the message into blocks and sends them window by        *)
(* window: as batches that are answered one by one ("superframe"), as a    *)
(* train of microbursts of which only the last is answered ("train"), or   *)
(* block by block ("legacy").  An answer is the bitmap of all blocks the   *)
(* receiver holds.  When it stays out, the sender asks once with a POLL,   *)
(* and repeats what is missing otherwise.  A receiver that has everything  *)
(* lingers for a while to answer again.                                    *)
(*                                                                         *)
(* Any burst may be lost, a burst may be decoded in part, and the clock is *)
(* left out: either side may give up waiting at any time, or, if the link  *)
(* is patient, when nothing is on the way any more.  Modulation, coding    *)
(* and the adaptation of the rate only show as the size of windows.        *)
(***************************************************************************)
EXTENDS Naturals, Sequences, FiniteSets

CONSTANTS N,           \* blocks of the message
          Window,      \* blocks a window may have
          Chunk,       \* blocks a microburst may have
          MaxRetries,
          Air,         \* bound: bursts on their way to one station
          MaxLosses    \* bound: bursts lost or decoded in part

LinkAssumption ==
    /\ N \in Nat \ {0} /\ Window \in Nat \ {0} /\ Chunk \in Nat \ {0}
    /\ MaxRetries \in Nat /\ Air \in Nat /\ MaxLosses \in Nat

VARIABLES
    mode, patient,
    cancelled,  \* ends whose operator has cancelled
    spc,        \* where the sender is
    first,      \* the first block of the window, and the number of its burst
    window,     \* the blocks of the window
    pending,    \* those not acknowledged
    unsent,     \* those still to be sent in this attempt
    attempt,
    rpc,        \* where the receiver is
    started,    \* the receiver has seen DATA of this message
    held,       \* the blocks the receiver holds
    rounds,     \* answers it still gives while it lingers
    toR, toS,   \* bursts on their way
    losses

sender == <<spc, first, window, pending, unsent, attempt>>
receiver == <<rpc, started, held, rounds>>
vars == <<mode, patient, cancelled, sender, receiver, toR, toS, losses>>

Block == 1..N
Ends == {"sender", "receiver"}
\* Burst numbers count on from window to window; here a window's first burst
\* has the number of its first block, which keeps them as distinct.
Burst == [kind : {"data", "poll", "confirm"}, id : Nat, blocks : SUBSET Block,
          defer : BOOLEAN]
Reply == [id : Nat, held : SUBSET Block, ok : BOOLEAN]
Data(id, blocks, defer) ==
    [kind |-> "data", id |-> id, blocks |-> blocks, defer |-> defer]
Ask(kind, id) == [Data(id, {}, FALSE) EXCEPT !.kind = kind]

Init ==
    /\ mode \in {"superframe", "train", "legacy"} /\ patient \in BOOLEAN
    /\ cancelled = {}
    /\ spc = "window" /\ first = 1 /\ window = {} /\ pending = {}
    /\ unsent = {} /\ attempt = 0
    /\ rpc = "listen" /\ started = FALSE /\ held = {} /\ rounds = 0
    /\ toR = <<>> /\ toS = <<>> /\ losses = 0

----------------------------------------------------------------------------
(* The sender                                                              *)

Working == spc \in {"window", "send", "await", "polled"}

\* The window a learned rate and the time limit allow: legacy has no windows.
StartWindow ==
    /\ spc = "window" /\ first <= N /\ "sender" \notin cancelled
    /\ \E size \in 1..(IF mode = "legacy" THEN 1 ELSE Window) :
         /\ first + size - 1 <= N
         /\ window' = first..(first + size - 1)
    /\ pending' = window' /\ unsent' = window' /\ attempt' = 0
    /\ spc' = "send"
    /\ UNCHANGED <<mode, patient, cancelled, first, receiver, toR, toS, losses>>

\* Microbursts need numbers of their own; a window of one goes as a batch.
AsTrain == mode = "train" /\ Cardinality(window) > Chunk
Chunks == (Cardinality(pending) + Chunk - 1) \div Chunk
Rank(b) == Cardinality({c \in pending : c <= b})
Micro(i) ==
    Data(first + i - 1,
         {b \in pending : (i - 1) * Chunk < Rank(b) /\ Rank(b) <= i * Chunk},
         i < Chunks)

\* _bounded_window_batches: as many blocks as the transmission may last.
SendBatch ==
    /\ spc = "send" /\ ~AsTrain /\ "sender" \notin cancelled
    /\ Len(toR) < Air
    /\ \E last \in unsent :
         LET batch == {b \in unsent : b <= last} IN
         /\ unsent' = unsent \ batch
         /\ toR' = Append(toR, Data(first, batch, FALSE))
    /\ spc' = "await"
    /\ UNCHANGED <<mode, patient, cancelled, first, window, pending, attempt,
                   receiver, toS, losses>>

SendTrain ==
    /\ spc = "send" /\ AsTrain /\ "sender" \notin cancelled
    /\ Len(toR) + Chunks <= Air
    /\ unsent' = {}
    /\ toR' = toR \o [i \in 1..Chunks |-> Micro(i)]
    /\ spc' = "await"
    /\ UNCHANGED <<mode, patient, cancelled, first, window, pending, attempt,
                   receiver, toS, losses>>

\* The burst whose answer is awaited: the last of a train.
Awaited == IF AsTrain THEN first + Chunks - 1 ELSE first

\* What happens to the window once an answer, or its absence, is known.
Applied(report) ==
    LET rest == pending \ report IN
    /\ pending' = rest
    /\ IF rest = {} THEN
         /\ first' = first + Cardinality(window)
         /\ spc' = "window"
         /\ UNCHANGED <<unsent, attempt>>
       ELSE IF unsent \cap rest # {} THEN
         /\ unsent' = unsent \cap rest
         /\ spc' = "send"
         /\ UNCHANGED <<first, attempt>>
       ELSE IF attempt < MaxRetries THEN
         /\ attempt' = attempt + 1
         /\ unsent' = rest
         /\ spc' = "send"
         /\ UNCHANGED first
       ELSE
         /\ spc' = "failed"
         /\ UNCHANGED <<first, unsent, attempt>>
    /\ UNCHANGED window

\* Mutant: an ACK stands for everything that was sent.
AckMeansAll(answer) == IF answer.ok THEN window ELSE answer.held
\* A bitmap counts whatever kind of answer it comes with; legacy has none.
Report(answer) ==
    IF mode # "legacy" THEN answer.held
    ELSE IF answer.ok THEN {answer.id} ELSE {}

\* _await_bitmap: answers to other bursts are passed over.
Answered ==
    /\ spc \in {"await", "polled"} /\ toS # <<>>
    /\ toS' = Tail(toS)
    /\ IF Head(toS).id = Awaited THEN Applied(Report(Head(toS)))
       ELSE UNCHANGED sender
    /\ UNCHANGED <<mode, patient, cancelled, receiver, toR, losses>>

Quiet == toR = <<>> /\ toS = <<>>

\* Mutant: polls until something is heard.
AlwaysPolls == mode # "legacy"
\* One POLL before anything is sent again.
PollsLeft == spc = "await" /\ mode # "legacy"

NoAnswer ==
    /\ spc \in {"await", "polled"} /\ "sender" \notin cancelled
    /\ patient => Quiet
    /\ IF PollsLeft THEN
         /\ Len(toR) < Air
         /\ toR' = Append(toR, Ask("poll", Awaited))
         /\ spc' = "polled"
         /\ UNCHANGED <<first, window, pending, unsent, attempt>>
       ELSE Applied({}) /\ UNCHANGED toR
    /\ UNCHANGED <<mode, patient, cancelled, receiver, toS, losses>>

\* Everything is acknowledged: the confirmation may be impossible to send.
Complete ==
    /\ spc = "window" /\ first > N
    /\ \/ mode = "legacy" /\ UNCHANGED toR
       \/ /\ mode # "legacy" /\ "sender" \notin cancelled
          /\ \/ Len(toR) < Air /\ toR' = Append(toR, Ask("confirm", first))
             \/ UNCHANGED toR
    /\ spc' = "sent"
    /\ UNCHANGED <<mode, patient, cancelled, first, window, pending, unsent,
                   attempt, receiver, toS, losses>>

SenderStops ==
    /\ Working /\ "sender" \in cancelled
    /\ ~ (mode = "legacy" /\ spc = "window" /\ first > N)
    /\ spc' = "failed"
    /\ UNCHANGED <<mode, patient, cancelled, first, window, pending, unsent,
                   attempt, receiver, toR, toS, losses>>
----------------------------------------------------------------------------
(* The receiver                                                            *)

Answer(id, now, ok) ==
    toS' = IF Len(toS) < Air THEN Append(toS, [id |-> id, held |-> now, ok |-> ok])
           ELSE toS

\* Mutant: the receiver leaves as soon as it has everything.
LeavesAtOnce == 0
LingerRounds == IF MaxRetries = 0 THEN 1 ELSE MaxRetries

\* What has become of the receiver when it holds now.
Holding(now) ==
    /\ held' = now
    /\ IF now # Block THEN UNCHANGED <<rpc, rounds>>
       ELSE IF mode = "legacy" \/ LingerRounds = 0
            THEN rpc' = "returned" /\ UNCHANGED rounds
            ELSE rpc' = "linger" /\ rounds' = LingerRounds

\* DATA while the message is incomplete; any part of it may be decoded.
HearData ==
    /\ rpc = "listen" /\ toR # <<>> /\ Head(toR).kind = "data"
    /\ toR' = Tail(toR) /\ started' = TRUE
    /\ LET burst == Head(toR) IN
       \E got \in SUBSET burst.blocks :
         /\ Holding(held \cup got)
         /\ IF burst.defer THEN UNCHANGED toS
            ELSE Answer(burst.id, held \cup got, got = burst.blocks)
         /\ IF got = burst.blocks THEN UNCHANGED losses
            ELSE losses < MaxLosses /\ losses' = losses + 1
    /\ UNCHANGED <<mode, patient, cancelled, sender>>

\* A POLL is answered once DATA was seen.
HearPoll ==
    /\ rpc = "listen" /\ toR # <<>> /\ Head(toR).kind # "data"
    /\ toR' = Tail(toR)
    /\ IF started THEN Answer(Head(toR).id, held, TRUE) ELSE UNCHANGED toS
    /\ UNCHANGED <<mode, patient, cancelled, sender, receiver, losses>>

\* _linger_bitmap: whatever the sender repeats is answered with all blocks.
UseRound ==
    /\ rounds' = rounds - 1
    /\ rpc' = IF rounds = 1 THEN "returned" ELSE "linger"
    /\ UNCHANGED <<started, held>>

HearAgain ==
    /\ rpc = "linger" /\ toR # <<>>
    /\ toR' = Tail(toR)
    /\ IF Head(toR).kind = "confirm"
       THEN rpc' = "returned" /\ UNCHANGED <<started, held, rounds, toS>>
       ELSE UseRound /\ Answer(Head(toR).id, held, TRUE)
    /\ UNCHANGED <<mode, patient, cancelled, sender, losses>>

\* Noise takes a round; the traffic of others ends the waiting.
Disturbed ==
    /\ rpc = "linger" /\ losses < MaxLosses
    /\ losses' = losses + 1
    /\ \/ UseRound
       \/ rpc' = "returned" /\ UNCHANGED <<started, held, rounds>>
    /\ UNCHANGED <<mode, patient, cancelled, sender, toR, toS>>

\* receive_idle_timeout of a rescue-capable link outlasts every retry of the
\* sender.  The lingering lasts two reply timeouts: not beyond a lost POLL.
SenderIsGone == ~Working \/ (rpc = "linger" /\ spc = "polled")

ReceiverGivesUp ==
    /\ rpc \in {"listen", "linger"}
    /\ \/ "receiver" \in cancelled
       \/ ~patient
       \/ Quiet /\ SenderIsGone
    /\ rpc' = IF rpc = "listen" THEN "quiet" ELSE "returned"
    /\ UNCHANGED <<mode, patient, cancelled, sender, started, held, rounds,
                   toR, toS, losses>>

----------------------------------------------------------------------------
(* The air and the operators                                               *)

LoseBurst ==
    /\ toR # <<>> /\ losses < MaxLosses
    /\ toR' = Tail(toR) /\ losses' = losses + 1
    /\ UNCHANGED <<mode, patient, cancelled, sender, receiver, toS>>

LoseReply ==
    /\ toS # <<>> /\ losses < MaxLosses
    /\ toS' = Tail(toS) /\ losses' = losses + 1
    /\ UNCHANGED <<mode, patient, cancelled, sender, receiver, toR>>

\* Nobody listens any more.
Unheard ==
    /\ \/ rpc \in {"returned", "quiet"} /\ toR # <<>>
            /\ toR' = Tail(toR) /\ UNCHANGED toS
       \/ ~Working /\ toS # <<>> /\ toS' = Tail(toS) /\ UNCHANGED toR
    /\ UNCHANGED <<mode, patient, cancelled, sender, receiver, losses>>

Cancel ==
    /\ \E e \in Ends \ cancelled : cancelled' = cancelled \cup {e}
    /\ UNCHANGED <<mode, patient, sender, receiver, toR, toS, losses>>

SenderStep ==
    StartWindow \/ SendBatch \/ SendTrain \/ Answered \/ NoAnswer \/ Complete
        \/ SenderStops
ReceiverStep ==
    HearData \/ HearPoll \/ HearAgain \/ Disturbed \/ ReceiverGivesUp
Next == SenderStep \/ ReceiverStep \/ LoseBurst \/ LoseReply \/ Unheard \/ Cancel

Spec == Init /\ [][Next]_vars
\* Both transfer threads run, and a wait has a timeout.
Fairness == WF_vars(SenderStep) /\ WF_vars(ReceiverStep) /\ WF_vars(Unheard)
FairSpec == Spec /\ Fairness

----------------------------------------------------------------------------
(* What the link promises                                                  *)

\* A sender that reports success (send_message returns True) is right: the
\* receiver holds every block and its receive_message returns the message.
SuccessIsDelivery ==
    spc = "sent" => held = Block /\ rpc \in {"linger", "returned"}

\* On a patient link a sender nobody cancelled fails only when more bursts
\* were lost than it has retries, or the message has arrived all the same and
\* at least two bursts were lost around the last answer (one in legacy mode,
\* which has neither POLL nor lingering).
FailureIsExplained ==
    (spc = "failed" /\ patient /\ cancelled = {})
        => losses > MaxRetries \/ (held = Block /\ (mode = "legacy" \/ losses > 1))

\* Every transfer comes to an end at both ends, whatever is lost.
LinkEnds == <>[](spc \in {"sent", "failed"} /\ rpc \in {"returned", "quiet"})
=============================================================================
