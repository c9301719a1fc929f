--------------------------- MODULE PayloadHandoff ---------------------------
(***************************************************************************)
(* Who owns the soundcard and the transmitter: the control channel or a    *)
(* payload.  Each transfer has a thread of its own in the VARA backend     *)
(* (payload/vara_p2p.py); the operations layer (operations.py) suspends    *)
(* and resumes the control transport, watches over transfers whose radio   *)
(* did not fall silent in time, and stops and reopens the control channel, *)
(* with a new backend each time, when the operator asks for it.            *)
(*                                                                         *)
(* The clock is left out: a probe of the radio may come too early at any   *)
(* time.  Only one delay is relied on, see Drained.                        *)
(***************************************************************************)
EXTENDS Naturals, FiniteSets

CONSTANTS Transfer,    \* payload transfers
          NoTransfer,
          MaxStops     \* bound: times the operator stops the control channel

HandoffAssumption == NoTransfer \notin Transfer /\ MaxStops \in Nat

VARIABLES
    control,    \* the control transport: "none", "on" or "suspended"
    active,     \* _payload_active
    net,        \* number of the net, and of its payload backend, in use
    stopping,   \* stop_control_channel has detached the transport
    closing,    \* the program is closing
    closed,     \* backends that were shut down
    unready,    \* backends whose _handoff_ready is cleared
    lock,       \* who has the _transfer_lock of each backend
    rf,         \* VARA's radio: "quiet", "busy", or "lost" with its socket
    pc,         \* where the thread of each transfer is
    of,         \* the backend it belongs to
    acquired,   \* transfers that have suspended the control channel
    cancelled,
    ok,         \* transfers that succeeded
    told,       \* what the session was told by done()
    resume,     \* the transfer whose continuation is retained
    probe       \* the worker that tries it

transfers == <<lock, pc, of, acquired, cancelled, ok, told>>
backends == <<net, stopping, closing, closed>>
vars == <<control, active, backends, unready, rf, transfers, resume, probe>>

Net == 0..MaxStops

Init ==
    /\ control = "on" /\ active = FALSE /\ net = 0
    /\ stopping = FALSE /\ closing = FALSE /\ closed = {} /\ unready = {}
    /\ lock = [n \in Net |-> NoTransfer] /\ rf = "quiet"
    /\ pc = [t \in Transfer |-> "idle"] /\ of = [t \in Transfer |-> 0]
    /\ acquired = {} /\ cancelled = {} /\ ok = {}
    /\ told = [t \in Transfer |-> "nothing"]
    /\ resume = NoTransfer /\ probe = "none"

Goto(t, place) == pc' = [pc EXCEPT ![t] = place]
Down(t) == of[t] \in closed
TheirTurn(t) == of[t] \notin unready \* _handoff_ready is set
Unlock(t) == lock' = [lock EXCEPT ![of[t]] = NoTransfer]

----------------------------------------------------------------------------
(* The thread of a transfer, sending or receiving                          *)

\* A session that was agreed on over the control channel.
Begin(t) ==
    /\ pc[t] = "idle" /\ control = "on" /\ ~closing /\ ~stopping
    /\ Goto(t, "waiting") /\ of' = [of EXCEPT ![t] = net]
    /\ UNCHANGED <<control, active, backends, unready, rf, lock, acquired,
                   cancelled, ok, told, resume, probe>>

\* A worker of a backend that was shut down ends without a word.
AwaitPrevious(t) ==
    /\ pc[t] = "waiting" /\ TheirTurn(t)
    /\ \/ Down(t) /\ Goto(t, "over")
       \/ ~Down(t) /\ rf = "lost" /\ Goto(t, "telling")
       \/ ~Down(t) /\ rf # "lost" /\ Goto(t, "queued")
    /\ UNCHANGED <<control, active, backends, unready, rf, lock, of, acquired,
                   cancelled, ok, told, resume, probe>>

TakeLock(t) ==
    /\ pc[t] = "queued" /\ lock[of[t]] = NoTransfer
    /\ lock' = [lock EXCEPT ![of[t]] = t] /\ Goto(t, "locked")
    /\ UNCHANGED <<control, active, backends, unready, rf, of, acquired,
                   cancelled, ok, told, resume, probe>>

\* Mutant: whoever has the lock goes ahead.
LockIsEnough(t) == TRUE
\* The transfer before may have left its handoff open while this one waited
\* for the lock.
StillTheirTurn(t) == TheirTurn(t)

Recheck(t) ==
    /\ pc[t] = "locked" /\ StillTheirTurn(t)
    /\ IF Down(t) THEN Unlock(t) /\ Goto(t, "over")
       ELSE /\ Goto(t, IF t \in cancelled THEN "unwinding" ELSE "ready")
            /\ UNCHANGED lock
    /\ UNCHANGED <<control, active, backends, unready, rf, of, acquired,
                   cancelled, ok, told, resume, probe>>

\* _suspend_control; with no transport there is nothing to suspend.
Acquire(t) ==
    /\ pc[t] = "ready"
    /\ \/ /\ ~closing
          /\ control' = IF control = "none" THEN "none" ELSE "suspended"
          /\ active' = TRUE /\ acquired' = acquired \cup {t}
          /\ Goto(t, "acquired")
       \/ /\ closing /\ Goto(t, "unwinding")
          /\ UNCHANGED <<control, active, acquired>>
       \/ /\ ~closing /\ control # "none"
          /\ control' = "on" /\ active' = FALSE
          /\ Goto(t, "unwinding") /\ UNCHANGED acquired
    /\ UNCHANGED <<backends, unready, rf, lock, of, cancelled, ok, told,
                   resume, probe>>

\* The change of frequency may fail; a cancelled transfer does not connect.
Connect(t) ==
    /\ pc[t] = "acquired"
    /\ \/ Goto(t, "unwinding") /\ UNCHANGED rf
       \/ /\ t \notin cancelled /\ rf # "lost"
          /\ Goto(t, "working") /\ rf' = "busy"
    /\ UNCHANGED <<control, active, backends, unready, lock, of, acquired,
                   cancelled, ok, told, resume, probe>>

Finish(t) ==
    /\ pc[t] = "working" /\ Goto(t, "unwinding")
    /\ \/ UNCHANGED ok
       \/ t \notin cancelled /\ ok' = ok \cup {t}
    /\ UNCHANGED <<control, active, backends, unready, rf, lock, of, acquired,
                   cancelled, told, resume, probe>>

\* Mutant: the codec is marked as free and the control audio stays closed.
MarksOnly == active' = FALSE /\ UNCHANGED control
\* _resume_control
Resumed ==
    /\ active' = FALSE
    /\ control' = IF closing \/ control = "none" THEN control ELSE "on"

\* _finish_control_handoff: the control channel gets the radio once it is
\* quiet; else the transfer keeps it beyond the lock.
Unwind(t) ==
    /\ pc[t] = "unwinding" /\ Unlock(t)
    /\ \/ /\ t \in acquired /\ rf = "quiet" /\ Resumed
          /\ Goto(t, "telling") /\ UNCHANGED unready
       \/ /\ t \notin acquired
          /\ Goto(t, "telling") /\ UNCHANGED <<unready, control, active>>
       \/ /\ t \in acquired /\ rf # "quiet"
          /\ unready' = unready \cup {of[t]}
          /\ Goto(t, "deferring") /\ UNCHANGED <<control, active>>
    /\ UNCHANGED <<backends, rf, of, acquired, cancelled, ok, told, resume, probe>>

\* A recovery is noticed by the operations layer long before a later transfer
\* has waited DISCONNECT_TIMEOUT for a quiet radio.
Drained == probe \notin {"telling", "recovered"}

\* _payload_handoff_failed: one continuation is retained, another dropped.
Defer(t) ==
    /\ pc[t] = "deferring" /\ Drained
    /\ IF closing \/ resume # NoTransfer THEN Goto(t, "dropped") /\ UNCHANGED resume
       ELSE Goto(t, "deferred") /\ resume' = t
    /\ UNCHANGED <<control, active, backends, unready, rf, lock, of, acquired,
                   cancelled, ok, told, probe>>

\* done(): cancellation counts until the very end.
Tell(t) ==
    /\ pc[t] = "telling" /\ Goto(t, "over")
    /\ told' = [told EXCEPT ![t] = IF t \in ok \ cancelled THEN "ok" ELSE "failed"]
    /\ probe' = IF probe = "telling" /\ resume = t THEN "recovered" ELSE probe
    /\ UNCHANGED <<control, active, backends, unready, rf, lock, of, acquired,
                   cancelled, ok, resume>>

----------------------------------------------------------------------------
(* The recovery of a handoff: _tick_payload_handoff and complete           *)

\* The worker looks at the radio ...
Probe ==
    /\ ~closing /\ resume # NoTransfer /\ probe = "none"
    /\ probe' = IF ~Down(resume) /\ rf = "quiet" THEN "quiet" ELSE "failed"
    /\ UNCHANGED <<control, active, backends, unready, rf, transfers, resume>>

\* Mutant: the radio is quiet, so the control channel may resume.
QuietIsEnough(t) == TRUE
\* ... and hands over, unless the backend was shut down in the meantime.
StillUp(t) == ~Down(t)

HandOver ==
    /\ probe = "quiet"
    /\ LET t == resume IN
       IF t # NoTransfer /\ StillUp(t) THEN
         /\ Resumed /\ unready' = unready \ {of[t]}
         /\ Goto(t, "telling") /\ probe' = "telling"
       ELSE probe' = "failed" /\ UNCHANGED <<active, control, unready, pc>>
    /\ UNCHANGED <<backends, rf, lock, of, acquired, cancelled, ok, told, resume>>

\* The completion of the worker, on the thread of the user interface.
Noticed ==
    /\ probe \in {"recovered", "failed"} /\ ~stopping
    /\ probe' = "none"
    /\ resume' = IF probe = "recovered" THEN NoTransfer ELSE resume
    /\ UNCHANGED <<control, active, backends, unready, rf, transfers>>

----------------------------------------------------------------------------
(* VARA's radio                                                            *)

Working == \E t \in Transfer : pc[t] = "working"

Quieten ==
    /\ rf = "busy" /\ rf' = "quiet"
    /\ UNCHANGED <<control, active, backends, unready, transfers, resume, probe>>

KeyAgain ==
    /\ rf = "quiet" /\ Working /\ rf' = "busy"
    /\ UNCHANGED <<control, active, backends, unready, transfers, resume, probe>>

\* VARA exits; the operator connects it again.
LoseSocket ==
    /\ rf = "busy" /\ rf' = "lost"
    /\ UNCHANGED <<control, active, backends, unready, transfers, resume, probe>>

Reconnect ==
    /\ rf = "lost" /\ rf' = "quiet"
    /\ UNCHANGED <<control, active, backends, unready, transfers, resume, probe>>

----------------------------------------------------------------------------
(* The operator                                                            *)

CancelTransfer(t) ==
    /\ pc[t] \notin {"idle", "over"} /\ t \notin cancelled
    /\ cancelled' = cancelled \cup {t}
    /\ UNCHANGED <<control, active, backends, unready, rf, lock, pc, of,
                   acquired, ok, told, resume, probe>>

Stop ==
    /\ ~stopping /\ control # "none" /\ net < MaxStops
    /\ control' = "none" /\ stopping' = TRUE
    /\ UNCHANGED <<active, net, closing, closed, unready, rf, transfers,
                   resume, probe>>

\* Sessions are cancelled and the backend is shut down.
ShutDown ==
    /\ stopping /\ stopping' = FALSE
    /\ cancelled' = cancelled \cup {t \in Transfer : pc[t] \notin {"idle", "over"}}
    /\ closed' = closed \cup {net} /\ unready' = unready \ {net}
    /\ UNCHANGED <<control, active, net, closing, rf, lock, pc, of, acquired, ok,
                   told, resume, probe>>

\* start_control_channel: a pending handoff postpones it.
Start ==
    /\ control = "none" /\ ~stopping /\ ~closing
    /\ resume = NoTransfer
    /\ control' = "on" /\ net' = net + 1
    /\ UNCHANGED <<active, stopping, closing, closed, unready, rf, transfers,
                   resume, probe>>

InSession(t) == pc[t] \notin {"idle", "over"} /\ t \notin cancelled

\* restart_control_channel: other devices, when nothing is going on.
Restart ==
    /\ control # "none" /\ ~stopping /\ ~closing /\ net < MaxStops
    /\ ~active /\ resume = NoTransfer
    /\ \A t \in Transfer : ~InSession(t)
    /\ control' = "on" /\ net' = net + 1
    /\ UNCHANGED <<active, stopping, closing, closed, unready, rf, transfers,
                   resume, probe>>

\* close, up to the stop of the control channel that follows.
Close ==
    /\ ~closing /\ ~stopping /\ net < MaxStops
    /\ closing' = TRUE /\ resume' = NoTransfer
    /\ closed' = closed \cup {net} /\ unready' = unready \ {net}
    /\ UNCHANGED <<control, active, net, stopping, rf, transfers, probe>>

Thread(t) ==
    \/ AwaitPrevious(t) \/ TakeLock(t) \/ Recheck(t) \/ Acquire(t) \/ Connect(t)
    \/ Finish(t) \/ Unwind(t) \/ Defer(t) \/ Tell(t)
Recovery == Probe \/ HandOver \/ Noticed
Radio == Quieten \/ Reconnect
Operator == Stop \/ ShutDown \/ Start \/ Restart \/ Close
Next ==
    \/ \E t \in Transfer : Begin(t) \/ Thread(t) \/ CancelTransfer(t)
    \/ Recovery \/ Radio \/ KeyAgain \/ LoseSocket \/ Operator

Spec == Init /\ [][Next]_vars

\* The threads of the transfers run, the operations layer ticks, and VARA's
\* radio falls silent or is connected again.
Fairness ==
    /\ WF_vars(Recovery) /\ WF_vars(Radio)
    /\ \A t \in Transfer : WF_vars(Thread(t))
FairSpec == Spec /\ Fairness

----------------------------------------------------------------------------
(* What the handoff promises                                               *)

\* A transfer has the radio from the suspension of the control channel until
\* it is given back, also when it waits for the end of its RF tail.
Owns(t) == t \in acquired
           /\ pc[t] \in {"acquired", "working", "unwinding", "deferring", "deferred"}

\* vara_p2p.py, _send: transfers of a backend have the radio one at a time,
\* and none begins before the tail of the one before has passed.
OneTransferAtATime ==
    \A t, u \in Transfer : Owns(t) /\ Owns(u) /\ of[t] = of[u] /\ ~Down(t) => t = u

\* vara_p2p.py, shutdown: a continuation that was retained neither resumes the
\* control channel, which may be a later one, nor tells its session anything,
\* though the radio fell silent just before.
RetainedStaysQuiet ==
    [][\A t \in Transfer : pc[t] = "deferred" /\ Down(t) => pc'[t] = "deferred"]_vars

\* Unless the operator stops the control channel, a payload gives the radio back
\* in the end: control resumes when VARA's radio has fallen silent.
ControlComesBack ==
    []<>(control # "suspended" \/ closing \/ stopping \/ net > 0 \/ closed # {})
=============================================================================
