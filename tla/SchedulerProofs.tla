-------------------------- MODULE SchedulerProofs --------------------------
(***************************************************************************)
(* Safety of the scheduler for every number of handles, threads and        *)
(* watchers, every delay and every clock bound; and of run_until_complete  *)
(* over it, for every set of futures.                                      *)
(***************************************************************************)
EXTENDS RunUntilComplete, TLAPS


\* Taking a timer out of the heap leaves a heap of timers.
LEMMA WithoutType ==
    ASSUME NEW S, NEW s \in Seq(S), NEW i \in DOMAIN s
    PROVE  Without(s, i) \in Seq(S)
  <1>1. i \in 1..Len(s)
    OBVIOUS
  <1>2. SubSeq(s, 1, i-1) \in Seq(S) /\ SubSeq(s, i+1, Len(s)) \in Seq(S)
    BY <1>1
  <1> QED BY <1>2 DEF Without

\* What the heap holds.
LEMMA TimerType ==
    ASSUME timers \in Seq(TimerEntry), NEW i \in DOMAIN timers
    PROVE  timers[i].h \in Handle /\ timers[i].when \in Int
  <1>1. timers[i] \in TimerEntry
    OBVIOUS
  <1> QED BY <1>1 DEF TimerEntry

\* A new loop is well typed.
LEMMA TypeInit == Init => TypeOK
  <1> SUFFICES ASSUME Init PROVE TypeOK
    OBVIOUS
  <1>1. cancelled \in [Handle -> BOOLEAN]
    BY Zenon DEF Init
  <1>2. slot \in [Watcher -> {"free", "live", "dead"}]
    BY DEF Init
  <1>3. tpc \in [Thread -> {"out", "notify"}]
    BY DEF Init
  <1>4. running \in BOOLEAN /\ stop_requested \in BOOLEAN /\ closed \in BOOLEAN
           /\ permit \in BOOLEAN
    BY Zenon DEF Init
  <1>5. ready \in Seq(Handle) /\ timers \in Seq(TimerEntry) /\ io \in Seq(Watcher)
    BY DEF Init
  <1>6. /\ pc \in Control /\ cur \in Handle \cup Watcher \cup {Nobody}
        /\ todo \in Nat /\ now \in Int /\ clock \in Nat
        /\ deadline \in Int \cup {Never} /\ fresh \subseteq Handle
    BY DEF Init, Control
  <1> QED BY <1>1, <1>2, <1>3, <1>4, <1>5, <1>6 DEF TypeOK

\* Calls of the loop's own thread keep the types.
LEMMA TypeOwner == TypeOK /\ OwnerStep => TypeOK'
  <1> SUFFICES ASSUME TypeOK, OwnerStep PROVE TypeOK'
    OBVIOUS
  <1> USE LoopConstants DEF TypeOK, Control, BatchPhase, ParkPhase, queues, flags, batch
  <1>1. ASSUME NEW h \in Handle, call_soon(h) PROVE TypeOK'
    BY <1>1 DEF call_soon, Scheduled
  <1>2. ASSUME NEW h \in Handle, NEW when \in Int, call_at(h, when) PROVE TypeOK'
    <2>1. [h |-> h, when |-> when] \in TimerEntry
      BY DEF TimerEntry
    <2> QED BY <1>2, <2>1 DEF call_at, Scheduled
  <1>3. ASSUME NEW h \in Handle, NEW delay \in Delays, call_later(h, delay) PROVE TypeOK'
    <2>1. clock + delay \in Int
      OBVIOUS
    <2> QED BY <1>2, <1>3, <2>1 DEF call_later
  <1>4. ASSUME NEW w \in Watcher, add_watcher(w) PROVE TypeOK'
    BY <1>4 DEF add_watcher
  <1>5. ASSUME NEW w \in Watcher, detach_watcher(w) PROVE TypeOK'
    BY <1>5 DEF detach_watcher
  <1>6. CASE stop
    BY <1>6 DEF stop
  <1>7. CASE close
    BY <1>7 DEF close
  <1>8. CASE run_forever
    BY <1>8, Zenon DEF run_forever
  <1> QED BY <1>1, <1>2, <1>3, <1>4, <1>5, <1>6, <1>7, <1>8 DEF OwnerStep

\* Calls of foreign threads keep the types.
LEMMA TypeForeign == TypeOK /\ ForeignStep => TypeOK'
  <1> SUFFICES ASSUME TypeOK, ForeignStep PROVE TypeOK'
    OBVIOUS
  <1> USE DEF TypeOK, queues, flags, batch
  <1>1. ASSUME NEW t \in Thread, NEW h \in Handle, call_soon_threadsafe(t, h)
        PROVE  TypeOK'
    BY <1>1 DEF call_soon_threadsafe, Scheduled
  <1>2. ASSUME NEW t \in Thread, stop_from(t) PROVE TypeOK'
    BY <1>2 DEF stop_from
  <1>3. ASSUME NEW t \in Thread, notify_one(t) PROVE TypeOK'
    BY <1>3 DEF notify_one
  <1>4. ASSUME NEW h \in Handle, cancel(h) PROVE TypeOK'
    BY <1>4 DEF cancel
  <1> QED BY <1>1, <1>2, <1>3, <1>4 DEF ForeignStep

\* A move of the control point alone keeps the types.
LEMMA TypeGoto ==
    ASSUME TypeOK, NEW control \in Control, Goto(control)
    PROVE  TypeOK'
  BY DEF TypeOK, Goto, queues, flags, batch

\* Parking with a deadline of the right type keeps the types.
LEMMA TypePark ==
    ASSUME TypeOK, NEW d \in Int \cup {Never}, Park(d)
    PROVE  TypeOK'
  BY DEF TypeOK, Park, Control, queues, flags, batch

-----------------------------------------------------------------------------
(* The inductive invariant, in three parts.                                *)

\* The first todo ready entries are the snapshot, older than the batch.
SnapshotInv ==
    pc = "ready" => /\ todo <= Len(ready)
                    /\ \A i \in 1..todo : ready[i] \notin fresh
                    /\ cur \notin fresh

\* Callbacks run inside batches, batches inside runs, runs on open loops.
LifeInv ==
    /\ InCallback => pc \in BatchPhase
    /\ pc # "idle" => running
    /\ ClosedIsDrained

\* From each check on the way to the park until the wakeup, what the check
\* did not see has a notification behind it.
ParkInv ==
    /\ pc \in {"checkTimers", "deadline", "parked"} /\ ready # <<>>
          => permit \/ NotifyInFlight
    /\ pc \in {"checkReady", "checkTimers", "deadline", "parked"} /\ stop_requested
          => permit \/ NotifyInFlight
    /\ pc = "deadline" => io = <<>>
    /\ pc = "parked" /\ io # <<>> => permit
    /\ pc = "parked" =>
          IF timers = <<>> THEN deadline = Never
          ELSE \E i \in DOMAIN timers : IsTop(i) /\ deadline = timers[i].when

Inv == TypeOK /\ SnapshotInv /\ LifeInv /\ ParkInv

\* Steps of the loop's thread keep the types; the snapshot is what makes a
\* pop find an entry.
LEMMA TypeLoop == TypeOK /\ SnapshotInv /\ LoopStep => TypeOK'
  <1> SUFFICES ASSUME TypeOK, SnapshotInv, LoopStep PROVE TypeOK'
    OBVIOUS
  <1> USE LoopConstants DEF queues, flags, batch
  <1>1. CASE BeginBatch
    BY <1>1 DEF TypeOK, BeginBatch, Control, BatchPhase
  <1>2. CASE RunReady
    <2>1. CASE todo > 0 /\ TakeReady
      <3>1. ready # <<>>
        BY <1>2, <2>1 DEF TypeOK, SnapshotInv, RunReady
      <3>2. Head(ready) \in Handle /\ Tail(ready) \in Seq(Handle)
        BY <3>1 DEF TypeOK
      <3> QED BY <2>1, <3>2 DEF TypeOK, TakeReady
    <2>2. CASE todo = 0 /\ EnterTimers
      BY <2>2 DEF TypeOK, EnterTimers, Control, BatchPhase
    <2> QED BY <1>2, <2>1, <2>2 DEF RunReady
  <1>3. CASE RunTimers
    <2>1. ASSUME NEW i \in DOMAIN timers,
                 timers' = Without(timers, i),
                 cur' = IF cancelled[timers[i].h] THEN Nobody ELSE timers[i].h,
                 UNCHANGED pc
          PROVE  TypeOK'
      <3>1. timers' \in Seq(TimerEntry)
        BY <2>1, WithoutType DEF TypeOK
      <3>2. timers[i].h \in Handle
        BY TimerType DEF TypeOK
      <3> QED BY <1>3, <2>1, <3>1, <3>2 DEF TypeOK, RunTimers
    <2>2. CASE pc' = "io" /\ UNCHANGED <<timers, cur>>
      BY <1>3, <2>2 DEF TypeOK, RunTimers, Control, BatchPhase
    <2> QED BY <1>3, <2>1, <2>2 DEF RunTimers
  <1>4. CASE RunIo
    <2>1. CASE io # <<>> /\ io' = Tail(io) /\ UNCHANGED pc
               /\ cur' = IF slot[Head(io)] = "live" THEN Head(io) ELSE Nobody
      <3>1. Head(io) \in Watcher /\ Tail(io) \in Seq(Watcher)
        BY <2>1 DEF TypeOK
      <3> QED BY <1>4, <2>1, <3>1 DEF TypeOK, RunIo
    <2>2. CASE pc' = "checkStop" /\ UNCHANGED <<io, cur>>
      BY <1>4, <2>2 DEF TypeOK, RunIo, Control, ParkPhase
    <2> QED BY <1>4, <2>1, <2>2 DEF RunIo
  <1>5. CASE Return
    BY <1>5 DEF TypeOK, Return
  <1>6. CASE CheckStop
    BY <1>6, TypeGoto DEF CheckStop, Control, ParkPhase
  <1>7. CASE CheckReady
    BY <1>7, TypeGoto DEF CheckReady, Respin, Control, ParkPhase
  <1>8. CASE CheckTimers
    BY <1>8, TypeGoto DEF CheckTimers, Respin, Control, ParkPhase
  <1>9. CASE NextDeadline
    <2>1. \A i \in DOMAIN timers : timers[i].when \in Int
      BY TimerType DEF TypeOK
    <2> QED BY <1>9, <2>1, TypeGoto, TypePark, Zenon DEF NextDeadline, Control
  <1>10. CASE Yielded
    BY <1>10, TypeGoto DEF Yielded, Control
  <1>11. CASE Wake
    BY <1>11, Zenon DEF TypeOK, Wake, Control
  <1>12. CASE Timeout
    BY <1>12 DEF TypeOK, Timeout, Control
  <1>13. CASE run_forever_cleanup
    BY <1>13, Zenon DEF TypeOK, run_forever_cleanup, Control
  <1> QED BY <1>1, <1>2, <1>3, <1>4, <1>5, <1>6, <1>7, <1>8, <1>9, <1>10,
             <1>11, <1>12, <1>13 DEF LoopStep

\* Every step keeps the types.
LEMMA TypeNext == TypeOK /\ SnapshotInv /\ [Next]_vars => TypeOK'
  <1> SUFFICES ASSUME TypeOK, SnapshotInv, [Next]_vars PROVE TypeOK'
    OBVIOUS
  <1>1. ASSUME NEW w \in Watcher, TaskFires(w) PROVE TypeOK'
    BY <1>1 DEF TypeOK, TaskFires, flags, batch
  <1>2. CASE Tick
    BY <1>2 DEF TypeOK, Tick, queues, flags, batch
  <1>3. CASE UNCHANGED vars
    BY <1>3 DEF TypeOK, vars, queues, flags, batch
  <1> QED BY <1>1, <1>2, <1>3, TypeOwner, TypeForeign, TypeLoop DEF Next

\* The snapshot survives every step: nothing but the batch pops the queue,
\* and a handle scheduled during the batch is not one of the queued ones.
LEMMA SnapshotNext ==
    TypeOK /\ SnapshotInv /\ LifeInv /\ [Next]_vars => SnapshotInv'
  <1> SUFFICES ASSUME TypeOK, SnapshotInv, LifeInv, [Next]_vars
               PROVE  SnapshotInv'
    OBVIOUS
  <1> USE DEF queues, flags, batch
  <1>1. ASSUME NEW h \in Handle, Unused(h), ready' = Append(ready, h),
               Scheduled(h), UNCHANGED <<todo, pc, cur>>
        PROVE  SnapshotInv'
    <2> SUFFICES ASSUME pc = "ready" PROVE SnapshotInv'
      BY <1>1, Zenon DEF SnapshotInv
    <2>1. todo <= Len(ready) /\ Len(ready') = Len(ready) + 1
      BY <1>1 DEF SnapshotInv, TypeOK
    <2>2. \A i \in 1..todo : ready'[i] = ready[i] /\ ready[i] # h
      BY <1>1, <2>1 DEF Unused, Queued, TypeOK
    <2>3. fresh' = fresh \cup {h} /\ cur # h
      BY <1>1 DEF Scheduled, BatchPhase, Unused
    <2> QED BY <1>1, <2>1, <2>2, <2>3 DEF SnapshotInv, TypeOK
  <1>2. ASSUME NEW h \in Handle, Unused(h), Scheduled(h),
               UNCHANGED <<ready, todo, pc, cur>>
        PROVE  SnapshotInv'
    <2> SUFFICES ASSUME pc = "ready" PROVE SnapshotInv'
      BY <1>2 DEF SnapshotInv
    <2>1. \A i \in 1..todo : ready[i] # h
      BY <1>2 DEF Unused, Queued, SnapshotInv, TypeOK
    <2>2. fresh' = fresh \cup {h} /\ cur # h
      BY <1>2 DEF Scheduled, BatchPhase, Unused
    <2> QED BY <1>2, <2>1, <2>2 DEF SnapshotInv
  <1>3. CASE UNCHANGED <<ready, todo, fresh, pc, cur>>
    BY <1>3 DEF SnapshotInv
  <1>4. CASE pc' # "ready"
    BY <1>4 DEF SnapshotInv
  <1>5. CASE OwnerStep
    <2>1. ASSUME NEW h \in Handle, NEW when, call_at(h, when) PROVE SnapshotInv'
      BY <1>2, <2>1 DEF call_at
    <2>2. ASSUME NEW h \in Handle, NEW delay \in Delays, call_later(h, delay)
          PROVE  SnapshotInv'
      BY <2>1, <2>2 DEF call_later
    <2>3. ASSUME NEW h \in Handle, call_soon(h) PROVE SnapshotInv'
      BY <1>1, <2>3 DEF call_soon
    <2>4. ASSUME NEW w \in Watcher, add_watcher(w) \/ detach_watcher(w)
          PROVE  SnapshotInv'
      BY <1>3, <2>4 DEF add_watcher, detach_watcher
    <2>5. CASE stop \/ run_forever
      BY <1>3, <1>4, <2>5 DEF stop, run_forever
    <2>6. CASE close
      BY <1>4, <2>6 DEF close, LifeInv
    <2> QED BY <1>5, <2>1, <2>2, <2>3, <2>4, <2>5, <2>6 DEF OwnerStep
  <1>6. CASE ForeignStep
    <2>1. ASSUME NEW t \in Thread, NEW h \in Handle, call_soon_threadsafe(t, h)
          PROVE  SnapshotInv'
      BY <1>1, <2>1 DEF call_soon_threadsafe
    <2>2. ASSUME NEW t \in Thread, stop_from(t) \/ notify_one(t)
          PROVE  SnapshotInv'
      BY <1>3, <2>2 DEF stop_from, notify_one
    <2>3. ASSUME NEW h \in Handle, cancel(h) PROVE SnapshotInv'
      BY <1>3, <2>3 DEF cancel
    <2> QED BY <1>6, <2>1, <2>2, <2>3 DEF ForeignStep
  <1>7. CASE LoopStep
    <2>1. CASE BeginBatch
      <3>1. cur = Nobody
        BY <2>1 DEF BeginBatch, LifeInv, InCallback, BatchPhase
      <3> QED BY <2>1, <3>1 DEF BeginBatch, SnapshotInv, TypeOK
    <2>2. CASE RunReady
      <3>1. CASE todo > 0 /\ TakeReady
        <4>1. pc = "ready" /\ ready # <<>> /\ todo \in Nat /\ todo <= Len(ready)
          BY <2>2, <3>1 DEF RunReady, SnapshotInv, TypeOK
        <4>2. Len(ready') = Len(ready) - 1 /\ todo' = todo - 1
          BY <3>1, <4>1 DEF TakeReady, TypeOK
        <4>3. \A i \in 1..todo' : ready'[i] = ready[i + 1] /\ i + 1 \in 1..todo
          BY <3>1, <4>1, <4>2 DEF TakeReady, TypeOK
        <4>4. cur' = Nobody \/ cur' = ready[1]
          BY <3>1, <4>1 DEF TakeReady, TypeOK
        <4>5. cur' \notin fresh
          BY <3>1, <4>1, <4>4, LoopConstants DEF SnapshotInv, TypeOK
        <4> QED BY <3>1, <4>1, <4>2, <4>3, <4>5 DEF TakeReady, SnapshotInv, TypeOK
      <3>2. CASE todo = 0 /\ EnterTimers
        BY <1>4, <3>2 DEF EnterTimers
      <3> QED BY <2>2, <3>1, <3>2 DEF RunReady
    <2>3. CASE RunTimers \/ RunIo
      BY <1>4, <2>3 DEF RunTimers, RunIo
    <2>4. CASE Return
      BY <2>4, LoopConstants DEF Return, SnapshotInv, TypeOK
    <2>5. CASE CheckStop \/ CheckReady \/ CheckTimers \/ Yielded
      BY <1>4, <2>5, Zenon DEF CheckStop, CheckReady, CheckTimers, Yielded, Respin, Goto
    <2>6. CASE NextDeadline
      BY <1>4, <2>6 DEF NextDeadline, Goto, Park
    <2>7. CASE Wake \/ Timeout \/ run_forever_cleanup
      BY <1>4, <2>7, Zenon DEF Wake, Timeout, run_forever_cleanup
    <2> QED BY <1>7, <2>1, <2>2, <2>3, <2>4, <2>5, <2>6, <2>7 DEF LoopStep
  <1>8. ASSUME NEW w \in Watcher, TaskFires(w) PROVE SnapshotInv'
    BY <1>3, <1>8 DEF TaskFires
  <1>9. CASE Tick \/ UNCHANGED vars
    BY <1>3, <1>9 DEF Tick, vars
  <1> QED BY <1>5, <1>6, <1>7, <1>8, <1>9 DEF Next

\* A step that leaves the life cycle alone and queues nothing keeps LifeInv.
LEMMA LifeNext == TypeOK /\ LifeInv /\ [Next]_vars => LifeInv'
  <1> SUFFICES ASSUME TypeOK, LifeInv, [Next]_vars PROVE LifeInv'
    BY Zenon
  <1> USE DEF queues, flags, batch, LifeInv, InCallback, ClosedIsDrained, check_closed
  <1>1. CASE OwnerStep
    <2>1. ASSUME NEW h \in Handle, call_soon(h) PROVE LifeInv'
      BY <2>1 DEF call_soon
    <2>2. ASSUME NEW h \in Handle, NEW when, call_at(h, when) PROVE LifeInv'
      BY <2>2, Zenon DEF call_at
    <2>3. ASSUME NEW h \in Handle, NEW delay \in Delays, call_later(h, delay)
          PROVE  LifeInv'
      BY <2>2, <2>3 DEF call_later
    <2>4. ASSUME NEW w \in Watcher, add_watcher(w) \/ detach_watcher(w)
          PROVE  LifeInv'
      BY <2>4 DEF add_watcher, detach_watcher
    <2>5. CASE stop
      BY <2>5 DEF stop
    <2>6. CASE close
      BY <2>6 DEF close
    <2>7. CASE run_forever
      BY <2>7 DEF run_forever, BatchPhase
    <2> QED BY <1>1, <2>1, <2>2, <2>3, <2>4, <2>5, <2>6, <2>7 DEF OwnerStep
  <1>2. CASE ForeignStep
    <2>1. ASSUME NEW t \in Thread, NEW h \in Handle, call_soon_threadsafe(t, h)
          PROVE  LifeInv'
      BY <2>1 DEF call_soon_threadsafe
    <2>2. ASSUME NEW t \in Thread, stop_from(t) \/ notify_one(t) PROVE LifeInv'
      BY <2>2 DEF stop_from, notify_one
    <2>3. ASSUME NEW h \in Handle, cancel(h) PROVE LifeInv'
      BY <2>3, Zenon DEF cancel
    <2> QED BY <1>2, <2>1, <2>2, <2>3 DEF ForeignStep
  <1>3. CASE LoopStep
    <2>1. CASE BeginBatch \/ Return
      BY <2>1 DEF BeginBatch, Return, BatchPhase
    <2>2. CASE RunReady
      <3>1. running /\ ~closed /\ UNCHANGED flags
        BY <2>2, Zenon DEF RunReady, TakeReady, EnterTimers
      <3>2. pc' \in {"ready", "timers"}
        BY <2>2, Zenon DEF RunReady, TakeReady, EnterTimers
      <3> QED BY <3>1, <3>2 DEF BatchPhase
    <2>3. CASE RunTimers
      BY <2>3 DEF RunTimers, BatchPhase
    <2>4. CASE RunIo
      BY <2>4 DEF RunIo, BatchPhase
    <2>5. CASE CheckStop \/ CheckReady \/ CheckTimers \/ Yielded
      BY <2>5 DEF CheckStop, CheckReady, CheckTimers, Yielded, Respin, Goto, BatchPhase
    <2>6. CASE NextDeadline
      <3>1. running /\ ~closed /\ ~InCallback
        BY <2>6, Zenon DEF NextDeadline, BatchPhase
      <3>2. UNCHANGED <<flags, cur>>
        BY <2>6, Zenon DEF NextDeadline, Goto, Park
      <3> QED BY <3>1, <3>2
    <2>7. CASE Wake \/ Timeout
      BY <2>7 DEF Wake, Timeout, BatchPhase
    <2>8. CASE run_forever_cleanup
      BY <2>8 DEF run_forever_cleanup, BatchPhase
    <2> QED BY <1>3, <2>1, <2>2, <2>3, <2>4, <2>5, <2>6, <2>7, <2>8 DEF LoopStep
  <1>4. ASSUME NEW w \in Watcher, TaskFires(w) PROVE LifeInv'
    BY <1>4 DEF TaskFires
  <1>5. CASE Tick \/ UNCHANGED vars
    BY <1>5 DEF Tick, vars
  <1> QED BY <1>1, <1>2, <1>3, <1>4, <1>5 DEF Next

\* What the loop has not seen on its way to the park has a notification
\* behind it, because whoever queues work outside a batch notifies.
LEMMA ParkNext == Inv /\ [Next]_vars => ParkInv'
  <1> SUFFICES ASSUME Inv, [Next]_vars PROVE ParkInv'
    OBVIOUS
  <1> USE DEF queues, flags, batch, Inv
  <1> DEFINE Sleepy == {"checkReady", "checkTimers", "deadline", "parked"}
  \* The loop's thread calls into the loop only away from the park.
  <1>1. OwnerCalls => pc \notin Sleepy
    BY DEF OwnerCalls, LifeInv, BatchPhase
  <1>2. CASE pc' \notin Sleepy
    BY <1>2 DEF ParkInv
  \* A step that only adds work and wakes, or only wakes.
  <1>3. CASE /\ UNCHANGED <<pc, timers, deadline>>
             /\ (io' = io /\ (permit => permit')) \/ (permit' /\ pc # "deadline")
             /\ \/ UNCHANGED <<ready, stop_requested, tpc>> /\ (permit => permit')
                \/ permit' \/ NotifyInFlight'
    <2>1. permit \/ NotifyInFlight => permit' \/ NotifyInFlight' \/ tpc' # tpc
      BY <1>3 DEF NotifyInFlight
    <2>2. \A i : IsTop(i)' <=> IsTop(i)
      BY <1>3, Zenon DEF IsTop
    <2> QED BY <1>3, <2>1, <2>2 DEF ParkInv
  <1>4. CASE OwnerStep
    BY <1>1, <1>2, <1>4, Zenon DEF OwnerStep, call_soon, call_at, call_later, add_watcher,
       detach_watcher, stop, close, run_forever
  <1>5. CASE ForeignStep
    <2>1. ASSUME NEW t \in Thread, NEW h \in Handle, call_soon_threadsafe(t, h)
          PROVE  ParkInv'
      <3>1. NotifyInFlight'
        BY <2>1 DEF call_soon_threadsafe, NotifyInFlight, TypeOK
      <3> QED BY <1>3, <2>1, <3>1 DEF call_soon_threadsafe
    <2>2. ASSUME NEW t \in Thread, stop_from(t) PROVE ParkInv'
      <3>1. NotifyInFlight'
        BY <2>2 DEF stop_from, NotifyInFlight, TypeOK
      <3> QED BY <1>3, <2>2, <3>1 DEF stop_from
    <2>3. ASSUME NEW t \in Thread, notify_one(t) PROVE ParkInv'
      BY <1>3, <2>3 DEF notify_one
    <2>4. ASSUME NEW h \in Handle, cancel(h) PROVE ParkInv'
      BY <1>3, <2>4 DEF cancel
    <2> QED BY <1>5, <2>1, <2>2, <2>3, <2>4 DEF ForeignStep
  <1>6. CASE LoopStep
    <2>1. CASE BeginBatch
      BY <1>2, <2>1 DEF BeginBatch
    <2>2. CASE RunReady
      BY <1>2, <2>2, Zenon DEF RunReady, TakeReady, EnterTimers
    <2>3. CASE RunTimers \/ RunIo
      BY <1>2, <2>3 DEF RunTimers, RunIo
    <2>4. CASE Return
      BY <1>2, <2>4 DEF Return, LifeInv, BatchPhase
    <2>5. CASE CheckStop
      BY <2>5 DEF CheckStop, Goto, ParkInv
    <2>6. CASE CheckReady
      BY <2>6 DEF CheckReady, Respin, Goto, ParkInv, NotifyInFlight
    <2>7. CASE CheckTimers
      BY <2>7 DEF CheckTimers, Respin, Goto, ParkInv, NotifyInFlight
    <2>8. CASE NextDeadline
      <3>1. CASE pc' = "idle" \/ pc' = "yield"
        BY <1>2, <3>1, Zenon
      <3>2. CASE timers = <<>> /\ Park(Never)
        BY <2>8, <3>2, Zenon DEF NextDeadline, Park, ParkInv, NotifyInFlight
      <3>3. ASSUME NEW i \in DOMAIN timers, IsTop(i), Park(timers[i].when)
            PROVE  ParkInv'
        <4>1. timers # <<>> /\ IsTop(i)' /\ deadline' = timers'[i].when
          BY <3>3 DEF Park, IsTop, TypeOK
        <4>2. i \in DOMAIN timers'
          BY <3>3, Zenon DEF Park
        <4> QED BY <2>8, <3>3, <4>1, <4>2, Zenon DEF NextDeadline, Park, ParkInv, NotifyInFlight
      <3> QED BY <2>8, <3>1, <3>2, <3>3 DEF NextDeadline, Goto
    <2>9. CASE Yielded \/ Wake \/ Timeout \/ run_forever_cleanup
      BY <1>2, <2>9, Zenon DEF Yielded, Goto, Wake, Timeout, run_forever_cleanup
    <2> QED BY <1>6, <2>1, <2>2, <2>3, <2>4, <2>5, <2>6, <2>7, <2>8, <2>9 DEF LoopStep
  <1>7. ASSUME NEW w \in Watcher, TaskFires(w) PROVE ParkInv'
    BY <1>3, <1>7, Zenon DEF TaskFires
  <1>8. CASE Tick \/ UNCHANGED vars
    BY <1>3, <1>8 DEF Tick, vars
  <1> QED BY <1>4, <1>5, <1>6, <1>7, <1>8 DEF Next

-----------------------------------------------------------------------------
\* The scheduler keeps the inductive invariant.
THEOREM SchedulerInvariant == Spec => []Inv
  <1>1. Init => Inv
    <2> SUFFICES ASSUME Init PROVE Inv
      OBVIOUS
    <2>1. SnapshotInv /\ ParkInv
      BY DEF Init, SnapshotInv, ParkInv
    <2>2. LifeInv
      BY DEF Init, LifeInv, InCallback, ClosedIsDrained
    <2> QED BY TypeInit, <2>1, <2>2 DEF Inv
  <1>2. Inv /\ [Next]_vars => Inv'
    BY TypeNext, SnapshotNext, LifeNext, ParkNext DEF Inv
  <1> QED BY <1>1, <1>2, PTL DEF Spec

\* LoopState's fields keep their types: queues hold handles, timers and
\* watchers, and the batch never pops more entries than its snapshot has.
THEOREM TypeCorrect == Spec => []TypeOK
  <1>1. Inv => TypeOK
    BY DEF Inv
  <1> QED BY <1>1, SchedulerInvariant, PTL

\* No lost wakeup: whatever other threads and watcher tasks queue between
\* the loop's checks and its park, run_main does not sleep over it.
THEOREM NoLostWakeup == Spec => []SleepsOnlyWhenIdle
  <1>1. Inv => SleepsOnlyWhenIdle
    BY DEF Inv, ParkInv, SleepsOnlyWhenIdle
  <1> QED BY <1>1, SchedulerInvariant, PTL

\* The ready phase of run_batch runs no callback scheduled during the batch.
THEOREM SnapshotRuns == Spec => []SnapshotOnly
  <1>1. Inv => SnapshotOnly
    BY DEF Inv, SnapshotInv, SnapshotOnly
  <1> QED BY <1>1, SchedulerInvariant, PTL

\* close() drains the loop for good.
THEOREM CloseDrains == Spec => []ClosedIsDrained
  <1>1. Inv => ClosedIsDrained
    BY DEF Inv, LifeInv
  <1> QED BY <1>1, SchedulerInvariant, PTL

-----------------------------------------------------------------------------
(* run_until_complete uses the scheduler by its own operations only, so    *)
(* that what is proved of EventLoop holds under it; and the callback it    *)
(* leaves behind stops no run of a future it has not answered for.         *)


\* Every step of the composition is a step of the scheduler, or none.
LEMMA AwaitStep == NextAwait => [Next]_vars
<1> SUFFICES ASSUME NextAwait PROVE Next \/ UNCHANGED vars
    OBVIOUS
<1>1. ASSUME NEW f \in Fut, call_soon(f) PROVE Next
    BY <1>1, AwaitConstants DEF Next, OwnerStep
<1>2. ASSUME NEW f \in Fut, run_until_complete(f) \/ complete(f)
      PROVE  Next \/ UNCHANGED vars
    BY <1>1, <1>2 DEF run_until_complete, complete
<1>3. CASE run_until_complete_cb
    BY <1>3 DEF run_until_complete_cb, Next, OwnerStep
<1>4. CASE CallbackReturns \/ run_returns
    BY <1>4, Zenon DEF CallbackReturns, run_returns, Next, LoopStep
<1>5. CASE Others
    BY <1>5 DEF Others, LoopGoesOn, Next
<1> QED BY <1>2, <1>3, <1>4, <1>5 DEF NextAwait, Finishing

\* run_until_complete takes the scheduler's own steps on the scheduler's state.
THEOREM UsesScheduler == AwaitSpec => Spec
<1>1. InitAwait => Init
    BY DEF InitAwait
<1>2. [NextAwait]_allVars => [Next]_vars
    BY AwaitStep DEF allVars
<1> QED BY <1>1, <1>2, PTL DEF AwaitSpec, Spec

\* No wakeup is lost in a run of run_until_complete either.
THEOREM NoLostWakeupAwait == AwaitSpec => []SleepsOnlyWhenIdle
    BY UsesScheduler, NoLostWakeup

-----------------------------------------------------------------------------
(* The callback.                                                           *)

\* A future's callback is scheduled, or runs, only when the future is done,
\* and then its call is in progress or has returned the result.
Answers ==
    \A f \in Fut : Queued(f) \/ cur = f =>
        /\ fut[f] # "pending"
        /\ call = f \/ f \in answered

\* The inductive invariant of the calls, on top of the scheduler's.
AwaitInv ==
    /\ fut \in [Fut -> {"pending", "done", "exit"}]
    /\ hooked \subseteq Fut /\ \A f \in hooked : call = f
    /\ Answers

\* It holds before the first call.
LEMMA AwaitInit == InitAwait => AwaitInv
<1> SUFFICES ASSUME InitAwait PROVE AwaitInv
    OBVIOUS
<1>1. ready = <<>> /\ timers = <<>> /\ io = <<>>
    BY Zenon DEF InitAwait, Init
<1> QED BY <1>1, AwaitConstants, LoopConstants, SMTT(20)
        DEF InitAwait, Init, AwaitInv, Answers, Queued

\* A callback on the stack came off a queue.
LEMMA Started ==
    ASSUME Inv, Next, NEW f \in Fut, cur' = f, cur # f
    PROVE  Queued(f)
<1> USE AwaitConstants, LoopConstants DEF Inv, TypeOK
<1>1. CASE RunReady
    <2>1. pc = "ready" /\ todo > 0 /\ TakeReady
        BY <1>1, Zenon DEF RunReady, EnterTimers
    <2>2. ready # <<>> /\ Head(ready) = f
        BY <2>1 DEF TakeReady, SnapshotInv
    <2> QED BY <2>2 DEF Queued
<1>2. CASE RunTimers
    BY <1>2 DEF RunTimers, Queued
<1>3. CASE RunIo
    BY <1>3 DEF RunIo
<1>4. CASE Return
    BY <1>4 DEF Return
<1> QED BY <1>1, <1>2, <1>3, <1>4, Zenon
        DEF Next, OwnerStep, ForeignStep, LoopStep, call_soon, call_later, call_at,
            add_watcher, detach_watcher, stop, close, run_forever, cancel,
            call_soon_threadsafe, stop_from, notify_one, run_forever_cleanup, BeginBatch,
            CheckStop, CheckReady, CheckTimers, NextDeadline, Park, Respin, Goto, Yielded,
            Wake, Timeout, TaskFires, Tick

\* Scheduling the callback of a future that is done.
LEMMA Schedules ==
    ASSUME Inv, NEW f \in Fut, call_soon(f)
    PROVE  cur' = cur /\ \A g \in Fut : Queued(g)' => Queued(g) \/ g = f
<1>1. /\ ready' = Append(ready, f) /\ UNCHANGED <<timers, cur>>
      /\ ready \in Seq(Handle) /\ f \in Handle
    BY AwaitConstants DEF call_soon, Inv, TypeOK
<1> QED BY <1>1 DEF Queued

\* Every step keeps the invariant.
LEMMA AwaitInvStep == Inv /\ AwaitInv /\ [NextAwait]_allVars => AwaitInv'
<1> SUFFICES ASSUME Inv, AwaitInv, NextAwait \/ UNCHANGED allVars PROVE AwaitInv'
    BY Zenon
<1> USE AwaitConstants, LoopConstants
<1>0. UNCHANGED vars => cur' = cur /\ \A g \in Fut : Queued(g)' <=> Queued(g)
    BY DEF vars, queues, Queued
<1>1. ASSUME NEW f \in Fut, run_until_complete(f) PROVE AwaitInv'
    <2>1. /\ call = Nobody /\ call' = f /\ UNCHANGED <<fut, answered>>
          /\ hooked = {} /\ Nobody \notin Fut
        BY <1>1 DEF run_until_complete, AwaitInv
    <2>2. CASE UNCHANGED vars
        BY <1>0, <1>1, <2>1, <2>2 DEF run_until_complete, AwaitInv, Answers
    <2>3. CASE fut[f] # "pending" /\ call_soon(f) /\ UNCHANGED hooked
        BY <2>1, <2>3, Schedules DEF AwaitInv, Answers
    <2> QED BY <1>1, <2>2, <2>3 DEF run_until_complete
<1>2. ASSUME NEW f \in Fut, complete(f) PROVE AwaitInv'
    <2>1. /\ fut[f] = "pending" /\ UNCHANGED <<call, answered>> /\ hooked' = hooked \ {f}
          /\ fut' \in [Fut -> {"pending", "done", "exit"}] /\ fut'[f] # "pending"
          /\ \A g \in Fut : g # f => fut'[g] = fut[g]
        BY <1>2 DEF complete, Outcome, AwaitInv
    <2>2. CASE UNCHANGED vars
        BY <1>0, <2>1, <2>2 DEF AwaitInv, Answers
    <2>3. CASE f \in hooked /\ call_soon(f)
        BY <2>1, <2>3, Schedules DEF AwaitInv, Answers
    <2> QED BY <1>2, <2>2, <2>3 DEF complete
<1>3. ASSUME cur' = Nobody \/ cur' = cur,
             \A f \in Fut : Queued(f)' => Queued(f), UNCHANGED <<fut, hooked, call, answered>>
      PROVE  AwaitInv'
    BY <1>3, Zenon DEF AwaitInv, Answers
<1>4. CASE run_until_complete_cb
    BY <1>3, <1>4, Zenon DEF run_until_complete_cb, stop, queues, await, Queued
<1>5. CASE CallbackReturns
    BY <1>3, <1>5 DEF CallbackReturns, Return, queues, await, Queued
<1>6. CASE run_returns
    <2>1. /\ UNCHANGED <<ready, timers, cur, fut>> /\ call' = Nobody /\ call # Nobody
          /\ hooked' = hooked \ {call}
          /\ answered' = answered \cup {f \in {call} : fut[f] # "pending"}
        BY <1>6 DEF run_returns, run_forever_cleanup, remove_done_callback, queues
    <2>2. hooked' = {}
        BY <2>1 DEF AwaitInv
    <2>3. \A f \in Fut : Queued(f)' <=> Queued(f)
        BY <2>1 DEF Queued
    <2> QED BY <2>1, <2>2, <2>3, Zenon DEF AwaitInv, Answers
<1>7. CASE Others
    <2>1. Next /\ (\A f \in Fut : Queued(f)' => Queued(f)) /\ UNCHANGED await
        BY <1>7 DEF Others, LoopGoesOn, Next
    <2>2. \A f \in Fut : cur' = f => cur = f \/ Queued(f)
        BY <2>1, Started
    <2> QED BY <2>1, <2>2, Zenon DEF AwaitInv, Answers, await
<1>8. CASE UNCHANGED allVars
    BY <1>0, <1>3, <1>8 DEF allVars, await
<1> QED BY <1>1, <1>2, <1>4, <1>5, <1>6, <1>7, <1>8 DEF NextAwait, Finishing

\* The invariant of the calls.
THEOREM AwaitInvariant == AwaitSpec => []AwaitInv
<1>1. AwaitSpec => []Inv
    BY UsesScheduler, SchedulerInvariant
<1> QED BY <1>1, AwaitInit, AwaitInvStep, PTL DEF AwaitSpec

\* The callback of a future whose call was stopped early stops no later run,
\* for any number of futures, handles and threads.
THEOREM StopsOwnRun == AwaitSpec => []StopsNobodyElse
<1>1. AwaitInv => StopsNobodyElse
    BY DEF AwaitInv, Answers, StopsNobodyElse
<1> QED BY <1>1, AwaitInvariant, PTL
=============================================================================
