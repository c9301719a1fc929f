------------------------ MODULE PayloadHandoffProofs ------------------------
(***************************************************************************)
(* Proofs about PayloadHandoff for every set of transfers and any number   *)
(* of stops.  The lock of a backend keeps its transfers apart only while    *)
(* they run; the inductive invariant HandoffInv says what keeps them apart  *)
(* when the tail of a transfer outlasts the lock: its backend is marked as  *)
(* not ready, and nobody has passed that mark.                             *)
(***************************************************************************)
EXTENDS PayloadHandoff, TLAPS

Inside == {"locked", "ready", "acquired", "working", "unwinding"}
Tail == {"deferring", "deferred"}
\* Where a transfer that has seen the handoff ready may be.
Past == (Inside \ {"locked"}) \cup Tail
Outside == {"idle", "waiting", "queued", "telling", "dropped", "over"}

Types ==
    /\ pc \in [Transfer -> Inside \cup Tail \cup Outside]
    /\ of \in [Transfer -> Net] /\ lock \in [Net -> Transfer \cup {NoTransfer}]
    /\ net \in Net /\ (control = "none" => net < MaxStops)
    /\ resume \in Transfer \cup {NoTransfer}

LockInv == \A t \in Transfer : pc[t] \in Inside => lock[of[t]] = t

TailInv ==
    \A t \in Transfer : pc[t] \in Tail /\ ~Down(t) =>
        /\ ~TheirTurn(t)
        /\ \A u \in Transfer \ {t} : of[u] = of[t] => pc[u] \notin Past

\* The retained continuation is one that waits, until it has been run.
ResumeInv ==
    resume # NoTransfer /\ Drained => pc[resume] = "deferred"

HandoffInv == Types /\ LockInv /\ TailInv /\ ResumeInv

USE DEF HandoffAssumption

\* Nothing of it is disturbed by a step that leaves the threads, their lock and
\* the marks of their backends alone.
LEMMA ThreadsRest ==
    ASSUME HandoffAssumption, HandoffInv, Types',
           UNCHANGED <<pc, of, lock, closed, unready>>, ResumeInv'
    PROVE  HandoffInv'
  BY DEF HandoffInv, LockInv, TailInv, Down, TheirTurn

\* Nor by a step of a thread outside the lock, to a place outside.
LEMMA OutsideSteps ==
    ASSUME HandoffAssumption, HandoffInv, NEW t \in Transfer,
           pc[t] \in Outside, NEW place \in Outside, Goto(t, place),
           of' \in [Transfer -> Net], \A u \in Transfer \ {t} : of'[u] = of[u],
           UNCHANGED <<lock, closed, unready, net, control, resume>>,
           Drained' => Drained
    PROVE  HandoffInv'
  <1>1. /\ pc'[t] = place /\ \A u \in Transfer \ {t} : pc'[u] = pc[u]
        /\ pc' \in [Transfer -> Inside \cup Tail \cup Outside]
    BY DEF Goto, HandoffInv, Types
  <1>2. Types'
    BY <1>1 DEF HandoffInv, Types
  <1>3. LockInv'
    BY <1>1 DEF HandoffInv, LockInv, Inside, Outside
  <1>4. TailInv'
    BY <1>1 DEF HandoffInv, TailInv, Down, TheirTurn, Past, Inside, Tail, Outside
  <1>5. ResumeInv'
    BY <1>1 DEF HandoffInv, Types, ResumeInv, Outside, Drained
  <1>6. QED  BY <1>2, <1>3, <1>4, <1>5 DEF HandoffInv

\* A thread in the lock moves on in it, past the mark only while it is ready.
LEMMA InsideSteps ==
    ASSUME HandoffAssumption, HandoffInv, NEW t \in Transfer,
           pc[t] \in Inside, NEW place \in Inside, Goto(t, place),
           pc[t] = "locked" => TheirTurn(t),
           UNCHANGED <<of, lock, closed, unready, net, resume, probe>>,
           control = "none" <=> control' = "none"
    PROVE  HandoffInv'
  <1>1. /\ pc'[t] = place /\ \A u \in Transfer \ {t} : pc'[u] = pc[u]
        /\ pc' \in [Transfer -> Inside \cup Tail \cup Outside]
    BY DEF Goto, HandoffInv, Types
  <1>2. Types'
    BY <1>1 DEF HandoffInv, Types
  <1>3. LockInv'
    BY <1>1 DEF HandoffInv, LockInv
  <1>4. TailInv'
    BY <1>1 DEF HandoffInv, TailInv, Down, TheirTurn, Past, Inside, Tail
  <1>5. ResumeInv'
    BY <1>1 DEF HandoffInv, Types, ResumeInv, Inside, Drained
  <1>6. QED  BY <1>2, <1>3, <1>4, <1>5 DEF HandoffInv

LEMMA TakeLockKeeps ==
    ASSUME HandoffAssumption, HandoffInv, NEW t \in Transfer, TakeLock(t)
    PROVE  HandoffInv'
  <1>1. /\ pc[t] = "queued" /\ pc'[t] = "locked"
        /\ \A u \in Transfer \ {t} : pc'[u] = pc[u]
        /\ pc' \in [Transfer -> Inside \cup Tail \cup Outside]
    BY DEF TakeLock, Goto, HandoffInv, Types, Inside
  <1>2. /\ lock[of[t]] = NoTransfer /\ of[t] \in Net
        /\ lock' = [lock EXCEPT ![of[t]] = t]
        /\ UNCHANGED <<of, closed, unready, net, control, resume, probe>>
    BY DEF TakeLock, HandoffInv, Types, backends
  <1>3. Types'
    BY <1>1, <1>2 DEF HandoffInv, Types
  <1>4. LockInv'
    <2>1. SUFFICES ASSUME NEW u \in Transfer, pc'[u] \in Inside
                   PROVE  lock'[of[u]] = u
      BY <1>2 DEF LockInv
    <2>2. CASE u = t
      BY <1>2, <2>2 DEF HandoffInv, Types
    <2>3. CASE u # t
      <3>1. lock[of[u]] = u
        BY <1>1, <2>1, <2>3 DEF HandoffInv, LockInv
      <3>2. of[u] # of[t]
        BY <1>2, <3>1
      <3>3. QED  BY <1>2, <3>1, <3>2 DEF HandoffInv, Types
    <2>4. QED  BY <2>2, <2>3
  <1>5. TailInv'
    BY <1>1, <1>2 DEF HandoffInv, TailInv, Down, TheirTurn, Past, Inside, Tail
  <1>6. ResumeInv'
    BY <1>1, <1>2 DEF HandoffInv, Types, ResumeInv, Drained
  <1>7. QED  BY <1>3, <1>4, <1>5, <1>6 DEF HandoffInv

\* Leaving the lock, to a place outside or, with the mark set, to the tail.
LEMMA LeaveLock ==
    ASSUME HandoffAssumption, HandoffInv, NEW t \in Transfer, pc[t] \in Inside,
           Unlock(t), NEW place, Goto(t, place),
           \/ place \in Outside /\ unready' = unready
           \/ place \in Tail /\ unready' = unready \cup {of[t]} /\ pc[t] \in Past,
           UNCHANGED <<of, closed, net, resume, probe>>,
           control' = "none" => control = "none"
    PROVE  HandoffInv'
  <1>1. /\ pc'[t] = place /\ \A u \in Transfer \ {t} : pc'[u] = pc[u]
        /\ pc' \in [Transfer -> Inside \cup Tail \cup Outside]
    BY DEF Goto, HandoffInv, Types
  <1>2. of[t] \in Net /\ lock[of[t]] = t /\ lock' = [lock EXCEPT ![of[t]] = NoTransfer]
    BY DEF Unlock, HandoffInv, Types, LockInv
  <1>3. Types'
    BY <1>1, <1>2 DEF HandoffInv, Types
  <1>4. LockInv'
    <2>1. SUFFICES ASSUME NEW u \in Transfer, pc'[u] \in Inside
                   PROVE  lock'[of[u]] = u
      BY <1>1 DEF LockInv
    <2>2. u # t /\ pc[u] \in Inside
      BY <1>1, <2>1 DEF Inside, Tail, Outside
    <2>3. lock[of[u]] = u /\ of[u] # of[t]
      BY <1>2, <2>2 DEF HandoffInv, LockInv
    <2>4. QED  BY <1>2, <2>3 DEF HandoffInv, Types
  <1>5. TailInv'
    <2>1. SUFFICES ASSUME NEW u \in Transfer, pc'[u] \in Tail, ~Down(u)
                   PROVE  /\ of[u] \in unready'
                          /\ \A v \in Transfer \ {u} : of[v] = of[u] => pc'[v] \notin Past
      BY DEF TailInv, Down, TheirTurn
    <2>2. CASE u = t
      <3>1. place \in Tail /\ of[t] \in unready' /\ pc[t] \in Past
        BY <1>1, <2>1, <2>2 DEF Inside, Tail, Outside
      <3>2. ASSUME NEW v \in Transfer \ {t}, of[v] = of[t] PROVE pc[v] \notin Past
        <4>1. pc[v] \notin Inside
          BY <1>2, <3>2 DEF HandoffInv, LockInv
        <4>2. pc[v] \notin Tail
          BY <2>1, <2>2, <3>1, <3>2 DEF HandoffInv, TailInv, Down
        <4>3. QED  BY <4>1, <4>2 DEF Past
      <3>3. QED  BY <1>1, <2>2, <3>1, <3>2
    <2>3. CASE u # t
      <3>1. pc[u] \in Tail
        BY <1>1, <2>1, <2>3
      <3>2. /\ of[u] \in unready
            /\ \A v \in Transfer \ {u} : of[v] = of[u] => pc[v] \notin Past
        BY <2>1, <3>1 DEF HandoffInv, TailInv, TheirTurn
      <3>3. of[t] = of[u] => place \notin Past
        BY <2>3, <3>2 DEF Past, Inside, Tail, Outside
      <3>4. QED  BY <1>1, <2>3, <3>2, <3>3
    <2>4. QED  BY <2>2, <2>3
  <1>6. ResumeInv'
    BY <1>1 DEF HandoffInv, Types, ResumeInv, Drained, Inside
  <1>7. QED  BY <1>3, <1>4, <1>5, <1>6 DEF HandoffInv

LEMMA DeferKeeps ==
    ASSUME HandoffAssumption, HandoffInv, NEW t \in Transfer, Defer(t)
    PROVE  HandoffInv'
  <1>1. /\ pc[t] = "deferring" /\ pc'[t] \in {"dropped", "deferred"}
        /\ \A u \in Transfer \ {t} : pc'[u] = pc[u]
        /\ pc' \in [Transfer -> Inside \cup Tail \cup Outside]
    BY DEF Defer, Goto, HandoffInv, Types, Tail, Outside
  <1>2. UNCHANGED <<of, lock, closed, unready, net, control, probe>>
    BY DEF Defer, backends
  <1>3. \/ resume' = resume
        \/ resume' = t /\ pc'[t] = "deferred"
    BY DEF Defer, Goto, HandoffInv, Types
  <1>4. Types'
    BY <1>1, <1>2, <1>3 DEF HandoffInv, Types
  <1>5. LockInv'
    BY <1>1, <1>2 DEF HandoffInv, LockInv, Inside
  <1>6. TailInv'
    BY <1>1, <1>2 DEF HandoffInv, TailInv, Down, TheirTurn, Past, Inside, Tail
  <1>7. ResumeInv'
    BY <1>1, <1>2, <1>3 DEF HandoffInv, Types, ResumeInv, Drained
  <1>8. QED  BY <1>4, <1>5, <1>6, <1>7 DEF HandoffInv

\* The tail has passed: only its own transfer was waiting behind the mark.
LEMMA HandOverKeeps ==
    ASSUME HandoffAssumption, HandoffInv, HandOver PROVE HandoffInv'
  <1>1. UNCHANGED <<of, lock, closed, net, resume>> /\ (control' = "none" => control = "none")
    BY DEF HandOver, backends, Resumed
  <1>2. CASE resume # NoTransfer /\ ~Down(resume)
    <2> DEFINE t == resume
    <2>1. /\ t \in Transfer /\ pc[t] = "deferred" /\ pc'[t] = "telling"
          /\ \A u \in Transfer \ {t} : pc'[u] = pc[u]
          /\ pc' \in [Transfer -> Inside \cup Tail \cup Outside]
          /\ unready' = unready \ {of[t]} /\ probe' = "telling"
      BY <1>2 DEF HandOver, StillUp, Goto, HandoffInv, Types, ResumeInv, Drained, Outside
    <2> HIDE DEF t
    <2>2. Types'
      BY <1>1, <2>1 DEF HandoffInv, Types
    <2>3. LockInv'
      BY <1>1, <2>1 DEF HandoffInv, LockInv, Inside
    <2>4. TailInv'
      <3>1. SUFFICES ASSUME NEW u \in Transfer, pc'[u] \in Tail, ~Down(u)
                     PROVE  /\ of[u] \in unready'
                            /\ \A v \in Transfer \ {u} :
                                 of[v] = of[u] => pc'[v] \notin Past
        BY <1>1 DEF TailInv, Down, TheirTurn
      <3>2. u # t /\ pc[u] \in Tail
        BY <2>1, <3>1 DEF Tail
      <3>3. /\ of[u] \in unready
            /\ \A v \in Transfer \ {u} : of[v] = of[u] => pc[v] \notin Past
        BY <3>1, <3>2 DEF HandoffInv, TailInv, TheirTurn
      <3>4. of[u] # of[t]
        BY <2>1, <3>2, <3>3 DEF Past, Tail
      <3>5. QED  BY <2>1, <3>2, <3>3, <3>4
    <2>5. ResumeInv'
      BY <2>1 DEF ResumeInv, Drained
    <2>6. QED  BY <2>2, <2>3, <2>4, <2>5 DEF HandoffInv
  <1>3. CASE ~(resume # NoTransfer /\ ~Down(resume))
    <2>1. UNCHANGED <<pc, unready, control>> /\ probe = "quiet" /\ probe' = "failed"
      BY <1>3 DEF HandOver, StillUp
    <2>2. Types' /\ ResumeInv'
      BY <1>1, <2>1 DEF HandoffInv, Types, ResumeInv, Drained
    <2>3. QED  BY <1>1, <2>1, <2>2, ThreadsRest
  <1>4. QED  BY <1>2, <1>3

\* A backend that is shut down drops its mark, which nobody heeds any more.
LEMMA ShutDownKeeps ==
    ASSUME HandoffAssumption, HandoffInv, UNCHANGED <<pc, of, lock, net, control>>,
           closed' = closed \cup {net}, unready' = unready \ {net}, Types', ResumeInv'
    PROVE  HandoffInv'
  <1>1. LockInv'
    BY DEF HandoffInv, LockInv
  <1>2. TailInv'
    BY DEF HandoffInv, TailInv, Down, TheirTurn
  <1>3. QED  BY <1>1, <1>2 DEF HandoffInv

----------------------------------------------------------------------------
(* The steps                                                               *)

LEMMA ThreadKeeps ==
    ASSUME HandoffAssumption, HandoffInv, NEW t \in Transfer, Begin(t) \/ Thread(t)
    PROVE  HandoffInv'
  <1>1. CASE Begin(t)
    <2>1. of' \in [Transfer -> Net] /\ \A u \in Transfer \ {t} : of'[u] = of[u]
      BY <1>1 DEF Begin, HandoffInv, Types
    <2>2. "waiting" \in Outside /\ Goto(t, "waiting") /\ pc[t] \in Outside
          /\ UNCHANGED <<lock, closed, unready, net, control, resume>> /\ probe' = probe
      BY <1>1 DEF Begin, Outside, backends
    <2>3. QED  BY <2>1, <2>2, OutsideSteps DEF Drained
  <1>2. CASE AwaitPrevious(t)
    <2>1. PICK place \in {"over", "telling", "queued"} : Goto(t, place)
      BY <1>2 DEF AwaitPrevious
    <2>2. place \in Outside /\ pc[t] \in Outside
          /\ UNCHANGED <<of, lock, closed, unready, net, control, resume>> /\ probe' = probe
      BY <1>2 DEF AwaitPrevious, Outside, backends
    <2>3. of' \in [Transfer -> Net] /\ \A u \in Transfer \ {t} : of'[u] = of[u]
      BY <2>2 DEF HandoffInv, Types
    <2>4. QED  BY <2>1, <2>2, <2>3, OutsideSteps DEF Drained
  <1>3. CASE TakeLock(t)
    BY <1>3, TakeLockKeeps
  <1>4. CASE Recheck(t)
    <2>1. pc[t] = "locked" /\ pc[t] \in Inside /\ TheirTurn(t)
          /\ UNCHANGED <<of, closed, unready, net, control, resume, probe>>
      BY <1>4 DEF Recheck, StillTheirTurn, Inside, backends
    <2>2. CASE Down(t)
      <3>1. Unlock(t) /\ Goto(t, "over") /\ "over" \in Outside
        BY <1>4, <2>2 DEF Recheck, Outside
      <3>2. QED  BY <2>1, <3>1, LeaveLock
    <2>3. CASE ~Down(t)
      <3>1. lock' = lock /\ \E place \in {"unwinding", "ready"} : Goto(t, place)
        BY <1>4, <2>3 DEF Recheck
      <3>2. {"unwinding", "ready"} \subseteq Inside
        BY DEF Inside
      <3>3. QED  BY <2>1, <3>1, <3>2, InsideSteps
    <2>4. QED  BY <2>2, <2>3
  <1>5. CASE Acquire(t)
    <2>1. \E place \in {"acquired", "unwinding"} : Goto(t, place)
      BY <1>5 DEF Acquire
    <2>2. {"acquired", "unwinding"} \subseteq Inside
      BY DEF Inside
    <2>3. /\ pc[t] \in Inside /\ pc[t] # "locked"
          /\ UNCHANGED <<of, lock, closed, unready, net, resume, probe>>
          /\ control = "none" <=> control' = "none"
      BY <1>5 DEF Acquire, Inside, backends
    <2>4. QED  BY <2>1, <2>2, <2>3, InsideSteps
  <1>6. CASE Connect(t)
    <2>1. \E place \in {"working", "unwinding"} : Goto(t, place)
      BY <1>6 DEF Connect
    <2>2. {"working", "unwinding"} \subseteq Inside
      BY DEF Inside
    <2>3. /\ pc[t] \in Inside /\ pc[t] # "locked"
          /\ UNCHANGED <<of, lock, closed, unready, net, resume, probe, control>>
      BY <1>6 DEF Connect, Inside, backends
    <2>4. QED  BY <2>1, <2>2, <2>3, InsideSteps
  <1>7. CASE Finish(t)
    <2>1. /\ pc[t] \in Inside /\ pc[t] # "locked" /\ "unwinding" \in Inside
          /\ Goto(t, "unwinding")
          /\ UNCHANGED <<of, lock, closed, unready, net, resume, probe, control>>
      BY <1>7 DEF Finish, Inside, backends
    <2>2. QED  BY <2>1, InsideSteps
  <1>8. CASE Unwind(t)
    <2>1. /\ pc[t] \in Inside /\ pc[t] \in Past /\ Unlock(t)
          /\ UNCHANGED <<of, closed, net, resume, probe>>
          /\ control' = "none" => control = "none"
      BY <1>8 DEF Unwind, Inside, Past, backends, Resumed
    <2>2. \/ Goto(t, "telling") /\ unready' = unready
          \/ Goto(t, "deferring") /\ unready' = unready \cup {of[t]}
      BY <1>8 DEF Unwind
    <2>3. "telling" \in Outside /\ "deferring" \in Tail
      BY DEF Outside, Tail
    <2>4. QED  BY <2>1, <2>2, <2>3, LeaveLock
  <1>9. CASE Defer(t)
    BY <1>9, DeferKeeps
  <1>10. CASE Tell(t)
    <2>1. /\ pc[t] \in Outside /\ "over" \in Outside /\ Goto(t, "over")
          /\ UNCHANGED <<of, lock, closed, unready, net, control, resume>>
          /\ Drained' => Drained
      BY <1>10 DEF Tell, Outside, backends, Drained
    <2>2. of' \in [Transfer -> Net] /\ \A u \in Transfer \ {t} : of'[u] = of[u]
      BY <2>1 DEF HandoffInv, Types
    <2>3. QED  BY <2>1, <2>2, OutsideSteps
  <1>11. QED
    BY <1>1, <1>2, <1>3, <1>4, <1>5, <1>6, <1>7, <1>8, <1>9, <1>10 DEF Thread

\* Probing the radio, the radio itself and most of what the operator does.
LEMMA OthersKeep ==
    ASSUME HandoffAssumption, HandoffInv,
           \/ Probe \/ Noticed \/ Radio \/ KeyAgain \/ LoseSocket
           \/ Stop \/ Start \/ Restart \/ \E t \in Transfer : CancelTransfer(t)
    PROVE  HandoffInv'
  <1>1. UNCHANGED <<pc, of, lock, closed, unready>>
    BY DEF Probe, Noticed, Radio, Quieten, Reconnect, KeyAgain, LoseSocket, Stop,
           Start, Restart, CancelTransfer, transfers, backends
  <1>2. Types'
    <2>1. CASE UNCHANGED <<net, control, resume>>
      BY <1>1, <2>1 DEF HandoffInv, Types
    <2>2. CASE Noticed
      BY <2>2, <1>1 DEF Noticed, HandoffInv, Types, backends
    <2>3. CASE Stop \/ Start \/ Restart
      BY <2>3, <1>1 DEF Stop, Start, Restart, HandoffInv, Types, Net
    <2>4. QED
      BY <2>1, <2>2, <2>3 DEF Probe, Radio, Quieten, Reconnect, KeyAgain, LoseSocket,
         CancelTransfer, transfers, backends
  <1>3. ResumeInv'
    <2>1. CASE UNCHANGED <<resume, probe>>
      BY <1>1, <2>1 DEF HandoffInv, ResumeInv, Drained
    <2>2. CASE Probe \/ Noticed
      BY <1>1, <2>2 DEF Probe, Noticed, HandoffInv, ResumeInv, Drained
    <2>3. QED
      BY <2>1, <2>2 DEF Radio, Quieten, Reconnect, KeyAgain, LoseSocket, Stop, Start,
         Restart, CancelTransfer
  <1>4. QED  BY <1>1, <1>2, <1>3, ThreadsRest

LEMMA ClosingKeeps ==
    ASSUME HandoffAssumption, HandoffInv, ShutDown \/ Close PROVE HandoffInv'
  <1>1. /\ UNCHANGED <<pc, of, lock, net, control>>
        /\ closed' = closed \cup {net} /\ unready' = unready \ {net}
        /\ resume' \in {resume, NoTransfer} /\ probe' = probe
    BY DEF ShutDown, Close, transfers
  <1>2. Types' /\ ResumeInv'
    BY <1>1 DEF HandoffInv, Types, ResumeInv, Drained
  <1>3. QED  BY <1>1, <1>2, ShutDownKeeps

\* The invariant holds whatever the threads, the operator and VARA do.
THEOREM HandoffIsGuarded ==
    ASSUME HandoffAssumption PROVE Spec => []HandoffInv
  <1>1. Init => HandoffInv
    BY DEF Init, HandoffInv, Types, LockInv, TailInv, ResumeInv, Net, Inside, Tail,
           Outside
  <1>2. HandoffInv /\ [Next]_vars => HandoffInv'
    <2>1. SUFFICES ASSUME HandoffInv, [Next]_vars PROVE HandoffInv'
      OBVIOUS
    <2>2. CASE \E t \in Transfer : Begin(t) \/ Thread(t)
      BY <2>1, <2>2, ThreadKeeps
    <2>3. CASE HandOver
      BY <2>1, <2>3, HandOverKeeps
    <2>4. CASE ShutDown \/ Close
      BY <2>1, <2>4, ClosingKeeps
    <2>5. CASE \/ Probe \/ Noticed \/ Radio \/ KeyAgain \/ LoseSocket
               \/ Stop \/ Start \/ Restart \/ \E t \in Transfer : CancelTransfer(t)
      BY <2>1, <2>5, OthersKeep
    <2>6. CASE UNCHANGED vars
      <3>1. UNCHANGED <<pc, of, lock, closed, unready, net, control, resume, probe>>
        BY <2>6 DEF vars, transfers, backends
      <3>2. Types' /\ ResumeInv'
        BY <2>1, <3>1 DEF HandoffInv, Types, ResumeInv, Drained
      <3>3. QED  BY <2>1, <3>1, <3>2, ThreadsRest
    <2>7. QED
      BY <2>1, <2>2, <2>3, <2>4, <2>5, <2>6 DEF Next, Recovery, Operator
  <1>3. QED  BY <1>1, <1>2, PTL DEF Spec

\* Two transfers of one backend never have the radio together, also when the
\* tail of the first outlasts the lock (vara_p2p.py, _send and _defer_handoff).
THEOREM TransfersAreApart ==
    ASSUME HandoffAssumption PROVE Spec => []OneTransferAtATime
  <1>1. HandoffInv => OneTransferAtATime
    <2>1. SUFFICES ASSUME HandoffInv, NEW t \in Transfer, NEW u \in Transfer,
                          Owns(t), Owns(u), of[t] = of[u], ~Down(t)
                   PROVE  t = u
      BY DEF OneTransferAtATime
    <2>2. pc[t] \in Past /\ pc[u] \in Past /\ ~Down(u)
      BY <2>1 DEF Owns, Past, Inside, Tail, Down
    <2>3. CASE pc[t] \in Tail \/ pc[u] \in Tail
      BY <2>1, <2>2, <2>3 DEF HandoffInv, TailInv
    <2>4. CASE pc[t] \in Inside /\ pc[u] \in Inside
      BY <2>1, <2>4 DEF HandoffInv, LockInv
    <2>5. QED  BY <2>2, <2>3, <2>4 DEF Past
  <1>2. Spec => []HandoffInv
    BY HandoffIsGuarded
  <1>3. QED  BY <1>1, <1>2, PTL

\* A retained continuation of a backend that was shut down is not run any more
\* (vara_p2p.py, complete in _defer_handoff).
THEOREM ShutDownSilences ==
    ASSUME HandoffAssumption PROVE Spec => RetainedStaysQuiet
  <1>1. HandoffInv /\ [Next]_vars =>
          [\A t \in Transfer : pc[t] = "deferred" /\ Down(t) => pc'[t] = "deferred"]_vars
    <2>1. SUFFICES ASSUME HandoffInv, Next, NEW t \in Transfer,
                          pc[t] = "deferred", Down(t)
                   PROVE  pc'[t] = "deferred"
      OBVIOUS
    <2>2. ASSUME NEW u \in Transfer, Begin(u) \/ Thread(u) PROVE pc'[t] = pc[t]
      BY <2>1, <2>2 DEF Begin, Thread, AwaitPrevious, TakeLock, Recheck, Acquire,
         Connect, Finish, Unwind, Defer, Tell, Goto, HandoffInv, Types
    <2>3. ASSUME HandOver PROVE pc'[t] = pc[t]
      BY <2>1, <2>3 DEF HandOver, StillUp, Goto, HandoffInv, Types
    <2>4. CASE ~HandOver /\ ~ \E u \in Transfer : Begin(u) \/ Thread(u)
      BY <2>1, <2>4 DEF Next, Recovery, Radio, Operator, Probe, Noticed, Quieten,
         Reconnect, KeyAgain, LoseSocket, CancelTransfer, Stop, ShutDown, Start,
         Restart, Close, transfers
    <2>5. QED  BY <2>1, <2>2, <2>3, <2>4
  <1>2. Spec => []HandoffInv
    BY HandoffIsGuarded
  <1>3. QED  BY <1>1, <1>2, PTL DEF Spec, RetainedStaysQuiet
=============================================================================
