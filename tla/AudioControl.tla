----------------------------- MODULE AudioControl -----------------------------
(***************************************************************************)
(* The transmit queue of the control channel (modem/audio.py).  Every frame *)
(* gets a thread of its own; one at a time has the transmitter.  A payload *)
(* suspends the queue: it waits for the frames that were admitted, and what *)
(* the station sends from then on is held until the queue resumes, refused, *)
(* or dropped because an equal frame is held already.  Callers that passed *)
(* a completion callback are told whether their frame was transmitted.     *)
(*                                                                         *)
(* Threads take the transmitter in any order, as the lock is not fair.  The *)
(* callback of a dropped frame is filed under the address of that frame,   *)
(* which is taken not to be given to another one.                          *)
(***************************************************************************)
EXTENDS Naturals, Sequences, FiniteSets

CONSTANTS Frame,    \* frames, as objects
          Kind,     \* what each is: see below
          Content   \* what it says: different frames may be equal

(* "request": has a callback, is held and can be withdrawn (HAVE_MSG, offers)
   "shot":    has a callback and is refused while the queue is suspended
   "reply":   has none, is held and can be withdrawn (ACK_HAVE)
   "receipt": has none, is held and stays
   "morse":   the identifier in Morse code, after all frames                *)
HasCallback(f) == Kind[f] \in {"request", "shot"}
Withdrawable(f) == Kind[f] \in {"request", "reply"}

AudioAssumption ==
    /\ Kind \in [Frame -> {"request", "shot", "reply", "receipt", "morse"}]
    /\ DOMAIN Content = Frame

VARIABLES
    place,      \* of each frame: "caller", "held" in _deferred_tx, "taken" out
                \* of it, with a "worker", on the "air", "done" with its worker,
                \* "over", or "dropped"
    filed,      \* frames with a callback in _deferred_completions
    carried,    \* frames whose callback is passed along with them
    withdrawn,  \* frames whose token is in _cancelled_tx
    suspended,  \* _tx_suspended
    stopped,    \* _stopped
    failed,     \* _tx_failed
    payload,    \* the payload's thread: "away", "draining", "owns", "resuming"
    answers,    \* history: what each callback was called with
    aired       \* history: frames transmitted

control == <<suspended, stopped, failed, payload>>
vars == <<place, filed, carried, withdrawn, control, answers, aired>>

Init ==
    /\ place = [f \in Frame |-> "caller"]
    /\ filed = {} /\ carried = {} /\ withdrawn = {}
    /\ suspended = FALSE /\ stopped = FALSE /\ failed = FALSE
    /\ payload = "away"
    /\ answers = [f \in Frame |-> <<>>] /\ aired = {}

At(p) == {f \in Frame : place[f] = p}
Move(fs, p) == place' = [f \in Frame |-> IF f \in fs THEN p ELSE place[f]]
Answer(fs, success) ==
    answers' = [f \in Frame |-> IF f \in fs THEN Append(answers[f], success)
                                ELSE answers[f]]
Pending == At("worker") \cup At("air")

----------------------------------------------------------------------------
(* send, send_morse_after_pending                                          *)

Refuse(f, callback) ==
    /\ Move({f}, "over") /\ Answer({f} \cap callback, FALSE)
    /\ carried' = carried \ {f} /\ UNCHANGED <<filed, failed>>

\* Equal frames are held once; the identifier always.
Hold(f, callback) ==
    /\ Move({f}, IF Kind[f] # "morse" /\ \E g \in At("held") :
                                          Kind[g] # "morse" /\ Content[g] = Content[f]
                 THEN "dropped" ELSE "held")
    /\ filed' = filed \cup ({f} \cap callback) /\ carried' = carried \ {f}
    /\ UNCHANGED <<answers, failed>>

Admit(f, callback) ==
    /\ Move({f}, "worker") /\ carried' = carried \cup ({f} \cap callback)
    /\ failed' = (failed /\ (Pending # {} \/ Kind[f] = "morse"))
    /\ UNCHANGED <<filed, answers>>

Take(f, callback) ==
    /\ IF stopped \/ (suspended /\ Kind[f] = "shot" /\ f \in callback)
       THEN Refuse(f, callback)
       ELSE IF suspended THEN Hold(f, callback) ELSE Admit(f, callback)
    /\ UNCHANGED <<withdrawn, suspended, stopped, aired>>

Send(f) ==
    /\ place[f] = "caller" /\ Take(f, {g \in Frame : HasCallback(g)})
    /\ UNCHANGED payload

----------------------------------------------------------------------------
(* The thread of a frame: _tx_pending, _morse_pending                      *)

MayKey(f) ==
    /\ place[f] = "worker" /\ At("air") = {}
    /\ Kind[f] = "morse" => \A g \in Pending : Kind[g] = "morse"

\* _acquire_control_channel, _control_ptt
Key(f) ==
    /\ MayKey(f) /\ f \notin withdrawn /\ Move({f}, "air")
    /\ UNCHANGED <<filed, carried, withdrawn, control, answers, aired>>

Ends(f) == IF HasCallback(f) THEN "done" ELSE "over"

\* The frame was withdrawn, or its session has moved on (allowed).
GiveUp(f) ==
    /\ \/ place[f] = "worker" /\ f \in withdrawn
       \/ MayKey(f) /\ Kind[f] = "request"
    /\ Move({f}, Ends(f)) /\ withdrawn' = withdrawn \ {f}
    /\ UNCHANGED <<filed, carried, control, answers, aired>>

\* The sound card may fail, before or after the frame was heard.
EndAir(f) ==
    /\ place[f] = "air" /\ Move({f}, Ends(f)) /\ withdrawn' = withdrawn \ {f}
    /\ \/ aired' = aired \cup {f} /\ UNCHANGED failed
       \/ failed' = (failed \/ Kind[f] # "morse") /\ UNCHANGED aired
    /\ UNCHANGED <<filed, carried, suspended, stopped, payload, answers>>

\* The callback is called when the frame does not count as pending any more.
Complete(f) ==
    /\ place[f] = "done" /\ Move({f}, "over")
    /\ Answer({f} \cap carried, f \in aired) /\ carried' = carried \ {f}
    /\ UNCHANGED <<filed, withdrawn, control, aired>>

----------------------------------------------------------------------------
(* discard_deferred_message, stop                                          *)

\* The session that owns the requests has been cancelled or has failed.
Discard ==
    LET gone == {f \in At("held") : Withdrawable(f)} IN
    /\ \E f \in At("held") \cup Pending : Withdrawable(f)
    /\ Move(gone, "over")
    /\ Answer(gone \cap filed, FALSE) /\ filed' = filed \ gone
    /\ withdrawn' = withdrawn \cup {f \in Pending : Withdrawable(f)}
    /\ UNCHANGED <<carried, control, aired>>

\* Mutant: a stop forgets what it holds.
NobodyToTell == {}
\* The callbacks a stop calls with False.
ToldOfStop == filed

Stop ==
    /\ ~stopped /\ stopped' = TRUE /\ suspended' = FALSE
    /\ Move(At("held") \cup filed, "over")
    /\ Answer(ToldOfStop, FALSE) /\ filed' = {}
    /\ withdrawn' = withdrawn \cup Pending
    /\ UNCHANGED <<carried, failed, payload, aired>>

----------------------------------------------------------------------------
(* suspend, _resume_queued_tx                                              *)

Suspend ==
    /\ payload = "away" /\ ~stopped
    /\ payload' = "draining" /\ suspended' = TRUE
    /\ UNCHANGED <<place, filed, carried, withdrawn, stopped, failed, answers, aired>>

\* Mutant: the identifier does not count as a frame that is pending.
FramesOnly == \A f \in Pending : Kind[f] = "morse"
\* wait_tx_idle
Idle == Pending = {}

Drained ==
    /\ payload = "draining" /\ Idle /\ ~failed /\ payload' = "owns"
    /\ UNCHANGED <<place, filed, carried, withdrawn, suspended, stopped, failed,
                   answers, aired>>

\* What is held is taken out under the lock and sent again without it.
ResumeQueued ==
    /\ payload' = "resuming" /\ suspended' = FALSE
    /\ Move(At("held"), "taken")
    /\ carried' = carried \cup (filed \cap At("held")) /\ filed' = {}
    /\ UNCHANGED <<withdrawn, stopped, failed, answers, aired>>

\* The timeout passes, or a frame could not be transmitted.
NotDrained == payload = "draining" /\ (Pending # {} \/ failed) /\ ResumeQueued

\* start, when the payload is over; not after the channel was stopped.
Resume ==
    /\ payload = "owns"
    /\ \/ ~stopped /\ ResumeQueued
       \/ /\ stopped /\ payload' = "away"
          /\ UNCHANGED <<place, filed, carried, withdrawn, suspended, stopped,
                         failed, answers, aired>>

SendAgain(f) ==
    /\ place[f] = "taken" /\ Take(f, carried) /\ UNCHANGED payload

Resumed ==
    /\ payload = "resuming" /\ At("taken") = {} /\ payload' = "away"
    /\ UNCHANGED <<place, filed, carried, withdrawn, suspended, stopped, failed,
                   answers, aired>>

Next ==
    \/ \E f \in Frame : Send(f) \/ Key(f) \/ GiveUp(f) \/ EndAir(f) \/ Complete(f)
                        \/ SendAgain(f)
    \/ Discard \/ Stop \/ Suspend \/ Drained \/ NotDrained \/ Resume \/ Resumed

Spec == Init /\ [][Next]_vars

----------------------------------------------------------------------------
\* suspend: "Drain admitted controls and hold later sends during payload audio."
\* While the payload has the sound card nothing of the control channel is on the
\* air, not even an identifier that was waiting for the frames before it.
PayloadHasTheCard == payload = "owns" => At("air") = {}

\* A caller that waits for its frame is told once, and the truth, when that frame
\* has been transmitted, withdrawn, refused or stopped, whichever thread had it at
\* the time.  Only a frame equal to one that is held is dropped without a word.
EveryCallerIsTold ==
    \A f \in Frame : HasCallback(f) =>
      answers[f] = IF place[f] = "over" THEN <<f \in aired>> ELSE <<>>
=============================================================================
