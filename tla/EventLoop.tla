----------------------------- MODULE EventLoop -----------------------------
(***************************************************************************)
(* The scheduler of tokioop: the queues of LoopState, one iteration        *)
(* (run_batch), the parked loop future (run_main), the run/stop/close      *)
(* life cycle, and the foreign threads that call into the loop.            *)
(*                                                                         *)
(* The GIL is modelled by who may take a step.  The loop's thread holds it *)
(* inside a batch, except that a running Python callback may lose it       *)
(* between two calls; a foreign thread holds it from the first to the last *)
(* step of a call.  Everything run_main does outside run_batch happens     *)
(* without the GIL and interleaves with the steps of foreign threads.      *)
(***************************************************************************)
EXTENDS Integers, Sequences, FiniteSets

CONSTANTS
    Handle,       \* scheduled callbacks (ReadyHandle / TimerHandle objects)
    Thread,       \* threads other than the loop's
    Watcher,      \* fd registrations, each with its Tokio task
    Delays,       \* the delays call_later is called with
    Instants,     \* the times call_at is called with
    MaxTime,      \* bound: the clock stops there, no later call_later deadline
    MaxDuration,  \* the first delay Duration::from_secs_f64 cannot represent
    Nobody,       \* no callback is running
    Never         \* the park has no deadline

ASSUME LoopConstants ==
    /\ Delays \subseteq Int /\ Instants \subseteq Int
    /\ MaxTime \in Nat
    /\ MaxDuration \in Nat \ {0}
    /\ Nobody \notin Handle \cup Watcher
    /\ Never \notin Int

VARIABLES
    ready,           \* LoopState.ready, oldest first
    timers,          \* LoopState.timers; the position stands for seq
    io,              \* LoopState.io: watchers whose completion is queued
    cancelled,       \* the flag each handle shares with its entry
    slot,            \* registration state of each watcher
    running, stop_requested, closed,
    permit,          \* the permit stored in LoopState.notify
    pc,              \* where the loop's thread is
    cur,             \* the callback on the stack of the batch
    todo,            \* ready entries left in this batch's snapshot
    now,             \* the time the batch compares deadlines with
    deadline,        \* when the timeout of the park expires
    clock,           \* LoopState::now
    tpc,             \* where each foreign thread is
    fresh            \* history: handles scheduled since the batch began

queues  == <<ready, timers, io>>
flags   == <<running, stop_requested, closed>>
batch   == <<todo, now, fresh>>
vars    == <<queues, flags, batch, cancelled, slot, permit, pc, cur,
             deadline, clock, tpc>>

BatchPhase == {"ready", "timers", "io"}
ParkPhase  == {"checkStop", "checkReady", "checkTimers", "deadline"}
Control    == {"idle", "attach", "yield", "parked", "cleanup"}
                \cup BatchPhase \cup ParkPhase

TimerEntry == [h : Handle, when : Int]

\* Every variable of the scheduler stays in its range; in particular the ready
\* snapshot of run_batch never counts below zero.
TypeOK ==
    /\ ready \in Seq(Handle)
    /\ timers \in Seq(TimerEntry)
    /\ io \in Seq(Watcher)
    /\ cancelled \in [Handle -> BOOLEAN]
    /\ slot \in [Watcher -> {"free", "live", "dead"}]
    /\ running \in BOOLEAN /\ stop_requested \in BOOLEAN /\ closed \in BOOLEAN
    /\ permit \in BOOLEAN
    /\ pc \in Control
    /\ cur \in Handle \cup Watcher \cup {Nobody}
    /\ todo \in Nat
    /\ now \in Int
    /\ deadline \in Int \cup {Never}
    /\ clock \in Nat
    /\ tpc \in [Thread -> {"out", "notify"}]
    /\ fresh \subseteq Handle

Init ==
    /\ ready = <<>> /\ timers = <<>> /\ io = <<>>
    /\ cancelled = [h \in Handle |-> FALSE]
    /\ slot = [w \in Watcher |-> "free"]
    /\ running = FALSE /\ stop_requested = FALSE /\ closed = FALSE
    /\ permit = FALSE
    /\ pc = "idle" /\ cur = Nobody
    /\ todo = 0 /\ now = 0 /\ deadline = Never /\ clock = 0
    /\ tpc = [t \in Thread |-> "out"]
    /\ fresh = {}

-----------------------------------------------------------------------------
(* Who may run Python code.                                                *)

InCallback == cur # Nobody

\* No foreign thread is inside a call.
GilFree == \A t \in Thread : tpc[t] = "out"

\* The GIL can change hands: the batch gives it up only inside a callback.
PythonMayRun == GilFree /\ (pc \in BatchPhase => InCallback)

\* The loop's own thread is executing Python: before or after a run, or in a
\* callback.
OwnerCalls == GilFree /\ (pc = "idle" \/ InCallback)

\* A panic unwound run_forever_impl while the timers mutex was held.
Poisoned == running /\ pc = "idle"

Queued(h) == \/ \E i \in DOMAIN ready : ready[i] = h
             \/ \E i \in DOMAIN timers : timers[i].h = h

\* A handle the program holds no entry for; every schedule makes a new one.
Unused(h) == ~Queued(h) /\ cur # h

\* History: a handle scheduled while a batch is in progress.
Scheduled(h) == fresh' = IF pc \in BatchPhase THEN fresh \cup {h} ELSE fresh

-----------------------------------------------------------------------------
(* Timers, ordered by (when, seq).                                         *)

IsTop(i) ==
    /\ i \in DOMAIN timers
    /\ \A j \in DOMAIN timers :
          \/ timers[i].when < timers[j].when
          \/ timers[i].when = timers[j].when /\ i <= j

\* timers_due: the earliest deadline has passed.
TimersDue == \E i \in DOMAIN timers : timers[i].when <= clock

-----------------------------------------------------------------------------
(* Calls made by the loop's own thread.                                    *)

\* Seeded fault: the closed flag is not looked at.
NoCheck == TRUE

check_closed == ~closed

call_soon(h) ==
    /\ OwnerCalls /\ check_closed /\ Unused(h)
    /\ ready' = Append(ready, h)
    /\ cancelled' = [cancelled EXCEPT ![h] = FALSE]
    /\ Scheduled(h)
    /\ UNCHANGED <<timers, io, flags, todo, now, slot, permit, pc, cur,
                   deadline, clock, tpc>>

\* No wakeup: the loop's thread is not parked.
call_at(h, when) ==
    /\ OwnerCalls /\ check_closed /\ ~Poisoned /\ Unused(h)
    /\ timers' = Append(timers, [h |-> h, when |-> when])
    /\ cancelled' = [cancelled EXCEPT ![h] = FALSE]
    /\ Scheduled(h)
    /\ UNCHANGED <<ready, io, flags, todo, now, slot, permit, pc, cur,
                   deadline, clock, tpc>>

call_later(h, delay) ==
    /\ clock + delay <= MaxTime \/ delay >= MaxDuration
    /\ call_at(h, clock + delay)

\* add_reader / add_writer on a direction that is not registered.
add_watcher(w) ==
    /\ OwnerCalls /\ check_closed /\ slot[w] = "free"
    /\ slot' = [slot EXCEPT ![w] = "live"]
    /\ UNCHANGED <<queues, flags, batch, cancelled, permit, pc, cur,
                   deadline, clock, tpc>>

\* remove_reader / remove_writer; a completion already queued stays queued.
detach_watcher(w) ==
    /\ OwnerCalls /\ ~closed /\ slot[w] = "live"
    /\ slot' = [slot EXCEPT ![w] = "dead"]
    /\ UNCHANGED <<queues, flags, batch, cancelled, permit, pc, cur,
                   deadline, clock, tpc>>

\* stop() on the loop's thread: flag and notify without interruption.
stop ==
    /\ OwnerCalls
    /\ stop_requested' = TRUE
    /\ permit' = TRUE
    /\ UNCHANGED <<queues, running, closed, batch, cancelled, slot, pc, cur,
                   deadline, clock, tpc>>

\* close(): refused while running, a no-op the second time.
close ==
    /\ OwnerCalls /\ ~running /\ ~closed
    /\ closed' = TRUE
    /\ slot' = [w \in Watcher |-> IF slot[w] = "live" THEN "dead" ELSE slot[w]]
    /\ ready' = <<>> /\ timers' = <<>> /\ io' = <<>>
    /\ UNCHANGED <<running, stop_requested, batch, cancelled, permit, pc, cur,
                   deadline, clock, tpc>>

\* Handle.cancel() from any thread: an atomic swap, under the GIL.
cancel(h) ==
    /\ PythonMayRun /\ Queued(h) /\ ~cancelled[h]
    /\ cancelled' = [cancelled EXCEPT ![h] = TRUE]
    /\ UNCHANGED <<queues, flags, batch, slot, permit, pc, cur, deadline,
                   clock, tpc>>

-----------------------------------------------------------------------------
(* Calls made by foreign threads: a push or a store, then notify_one.      *)

call_soon_threadsafe(t, h) ==
    /\ PythonMayRun /\ check_closed /\ Unused(h)
    /\ ready' = Append(ready, h)
    /\ cancelled' = [cancelled EXCEPT ![h] = FALSE]
    /\ Scheduled(h)
    /\ tpc' = [tpc EXCEPT ![t] = "notify"]
    /\ UNCHANGED <<timers, io, flags, todo, now, slot, permit, pc, cur,
                   deadline, clock>>

stop_from(t) ==
    /\ PythonMayRun
    /\ stop_requested' = TRUE
    /\ tpc' = [tpc EXCEPT ![t] = "notify"]
    /\ UNCHANGED <<queues, running, closed, batch, cancelled, slot, permit,
                   pc, cur, deadline, clock>>

\* Seeded fault: a wakeup with no permit, which only reaches a parked loop.
PermitlessNotify(t) ==
    /\ tpc[t] = "notify"
    /\ permit' = (pc = "parked")
    /\ tpc' = [tpc EXCEPT ![t] = "out"]
    /\ UNCHANGED <<queues, flags, batch, cancelled, slot, pc, cur, deadline,
                   clock>>

notify_one(t) ==
    /\ tpc[t] = "notify"
    /\ permit' = TRUE
    /\ tpc' = [tpc EXCEPT ![t] = "out"]
    /\ UNCHANGED <<queues, flags, batch, cancelled, slot, pc, cur, deadline,
                   clock>>

-----------------------------------------------------------------------------
(* run_forever_impl                                                        *)

\* Both checks, the set-up and the two stores run under the GIL.
run_forever ==
    /\ GilFree /\ pc = "idle" /\ check_closed /\ ~running
    /\ stop_requested' = FALSE
    /\ running' = TRUE
    /\ pc' = "attach"
    /\ UNCHANGED <<queues, closed, batch, cancelled, slot, permit, cur,
                   deadline, clock, tpc>>

run_forever_cleanup ==
    /\ GilFree /\ pc = "cleanup"
    /\ running' = FALSE /\ stop_requested' = FALSE
    /\ pc' = "idle"
    /\ UNCHANGED <<queues, closed, batch, cancelled, slot, permit, cur,
                   deadline, clock, tpc>>

-----------------------------------------------------------------------------
(* run_batch: ready snapshot, expired timers, I/O completions.             *)

\* Python::attach takes the GIL; the queue length is sampled.
BeginBatch ==
    /\ GilFree /\ pc = "attach"
    /\ pc' = "ready"
    /\ todo' = Len(ready)
    /\ fresh' = {}
    /\ UNCHANGED <<queues, flags, now, cancelled, slot, permit, cur,
                   deadline, clock, tpc>>

\* Pop a ready entry; a cancelled one is dropped, any other one is invoked.
TakeReady ==
    /\ ready' = Tail(ready)
    /\ todo' = todo - 1
    /\ cur' = IF cancelled[Head(ready)] THEN Nobody ELSE Head(ready)
    /\ UNCHANGED <<timers, io, flags, now, fresh, cancelled, slot, permit, pc,
                   deadline, clock, tpc>>

\* The snapshot is used up: the time is sampled once for all the timers.
EnterTimers ==
    /\ pc' = "timers"
    /\ now' = clock
    /\ UNCHANGED <<queues, flags, todo, fresh, cancelled, slot, permit, cur,
                   deadline, clock, tpc>>

\* Seeded fault: the queue itself is drained, not its snapshot.
DrainReady ==
    /\ pc = "ready" /\ ~InCallback
    /\ \/ ready # <<>> /\ TakeReady
       \/ ready = <<>> /\ EnterTimers

RunReady ==
    /\ pc = "ready" /\ ~InCallback
    /\ \/ todo > 0 /\ TakeReady
       \/ todo = 0 /\ EnterTimers

\* What the heap holds once its entry i is popped.
Without(s, i) == SubSeq(s, 1, i - 1) \o SubSeq(s, i + 1, Len(s))

\* Pop and invoke the earliest timer while it is due at the sampled time.
RunTimers ==
    /\ pc = "timers" /\ ~InCallback
    /\ \/ \E i \in DOMAIN timers :
            /\ IsTop(i) /\ timers[i].when <= now
            /\ timers' = Without(timers, i)
            /\ cur' = IF cancelled[timers[i].h] THEN Nobody ELSE timers[i].h
            /\ UNCHANGED pc
       \/ /\ \A i \in DOMAIN timers : timers[i].when > now
          /\ pc' = "io"
          /\ UNCHANGED <<timers, cur>>
    /\ UNCHANGED <<ready, io, flags, batch, cancelled, slot, permit, deadline,
                   clock, tpc>>

\* Pop completions until the queue is empty; a detached slot has no callback.
RunIo ==
    /\ pc = "io" /\ ~InCallback
    /\ \/ /\ io # <<>>
          /\ io' = Tail(io)
          /\ cur' = IF slot[Head(io)] = "live" THEN Head(io) ELSE Nobody
          /\ UNCHANGED pc
       \/ /\ io = <<>>
          /\ pc' = "checkStop"
          /\ UNCHANGED <<io, cur>>
    /\ UNCHANGED <<ready, timers, flags, batch, cancelled, slot, permit,
                   deadline, clock, tpc>>

\* The callback returns or raises; an exception is reported and dropped.
\* For a completion this is also where its task is released.
Return ==
    /\ GilFree /\ InCallback
    /\ cur' = Nobody
    /\ UNCHANGED <<queues, flags, batch, cancelled, slot, permit, pc,
                   deadline, clock, tpc>>

-----------------------------------------------------------------------------
(* run_main between two batches, without the GIL.                          *)

Goto(control) ==
    /\ pc' = control
    /\ UNCHANGED <<queues, flags, batch, cancelled, slot, permit, cur,
                   deadline, clock, tpc>>

\* Work is left: go round again, through yield_now if a watcher exists.
Respin == Goto(IF \E w \in Watcher : slot[w] = "live" THEN "yield" ELSE "attach")

CheckStop ==
    /\ pc = "checkStop"
    /\ Goto(IF stop_requested \/ closed THEN "cleanup" ELSE "checkReady")

CheckReady ==
    /\ pc = "checkReady"
    /\ \/ ready # <<>> /\ Respin
       \/ ready = <<>> /\ Goto("checkTimers")

CheckTimers ==
    /\ pc = "checkTimers"
    /\ \/ (io # <<>> \/ TimersDue) /\ Respin
       \/ io = <<>> /\ ~TimersDue /\ Goto("deadline")

\* Seeded fault: the park has no timeout.
ParkForever(d) ==
    /\ pc' = "parked"
    /\ deadline' = Never
    /\ UNCHANGED <<queues, flags, batch, cancelled, slot, permit, cur, clock,
                   tpc>>

Park(d) ==
    /\ pc' = "parked"
    /\ deadline' = d
    /\ UNCHANGED <<queues, flags, batch, cancelled, slot, permit, cur, clock,
                   tpc>>

\* next_deadline, then the park it selects.  A delay that no Duration can
\* represent panics: the unwinding skips run_forever's clean-up.
NextDeadline ==
    /\ pc = "deadline"
    /\ \/ timers = <<>> /\ Park(Never)
       \/ \E i \in DOMAIN timers :
            /\ IsTop(i)
            /\ LET dt == timers[i].when - clock IN
               \/ dt <= 0 /\ Goto("yield")
               \/ 0 < dt /\ dt < MaxDuration /\ Park(timers[i].when)
               \/ dt >= MaxDuration /\ Goto("idle")

\* yield_now().await completes.
Yielded == pc = "yield" /\ Goto("attach")

\* notified().await: takes the permit, whenever it was stored.
Wake ==
    /\ pc = "parked" /\ permit
    /\ permit' = FALSE
    /\ pc' = "attach" /\ deadline' = Never
    /\ UNCHANGED <<queues, flags, batch, cancelled, slot, cur, clock, tpc>>

\* timeout() polls the notification first, then the deadline.
Timeout ==
    /\ pc = "parked" /\ ~permit
    /\ deadline # Never /\ deadline <= clock
    /\ pc' = "attach" /\ deadline' = Never
    /\ UNCHANGED <<queues, flags, batch, cancelled, slot, permit, cur, clock,
                   tpc>>

-----------------------------------------------------------------------------
(* The environment.                                                        *)

\* A watcher task is polled, which the runtime does only while the loop
\* future is pending; it has at most one completion outstanding.
TaskFires(w) ==
    /\ pc \in {"yield", "parked"}
    /\ slot[w] = "live" /\ \A i \in DOMAIN io : io[i] # w
    /\ io' = Append(io, w)
    /\ permit' = TRUE
    /\ UNCHANGED <<ready, timers, flags, batch, cancelled, slot, pc, cur,
                   deadline, clock, tpc>>

Tick ==
    /\ clock < MaxTime
    /\ clock' = clock + 1
    /\ UNCHANGED <<queues, flags, batch, cancelled, slot, permit, pc, cur,
                   deadline, tpc>>

-----------------------------------------------------------------------------
OwnerStep ==
    \/ \E h \in Handle : \/ call_soon(h)
                         \/ \E delay \in Delays : call_later(h, delay)
                         \/ \E when \in Instants : call_at(h, when)
    \/ \E w \in Watcher : add_watcher(w) \/ detach_watcher(w)
    \/ stop \/ close \/ run_forever

ForeignStep ==
    \/ \E t \in Thread :
         \/ \E h \in Handle : call_soon_threadsafe(t, h)
         \/ stop_from(t)
         \/ notify_one(t)
    \/ \E h \in Handle : cancel(h)

LoopStep ==
    \/ BeginBatch \/ RunReady \/ RunTimers \/ RunIo \/ Return
    \/ CheckStop \/ CheckReady \/ CheckTimers \/ NextDeadline
    \/ Yielded \/ Wake \/ Timeout \/ run_forever_cleanup

Next ==
    \/ OwnerStep \/ ForeignStep \/ LoopStep
    \/ \E w \in Watcher : TaskFires(w)
    \/ Tick

Spec == Init /\ [][Next]_vars

\* The runtime keeps polling the loop future and CPython hands the GIL to a
\* waiting thread, however often others take it; callbacks return; a foreign
\* call that has begun ends; time passes.
Fairness ==
    /\ SF_vars(LoopStep)
    /\ \A t \in Thread : WF_vars(notify_one(t))
    /\ WF_vars(Tick)

FairSpec == Spec /\ Fairness

-----------------------------------------------------------------------------
(* Properties.                                                             *)

\* Some foreign call has changed the state and not notified yet.
NotifyInFlight == \E t \in Thread : tpc[t] = "notify"

\* run_main parks only when nothing is left to do: a parked loop that no
\* stored permit and no notification in flight is about to wake has no ready
\* callback, no completion and no stop request, and its timeout is the
\* earliest timer's deadline.
SleepsOnlyWhenIdle ==
    pc = "parked" /\ ~permit /\ ~NotifyInFlight =>
        /\ ready = <<>> /\ io = <<>> /\ ~stop_requested
        /\ IF timers = <<>> THEN deadline = Never
           ELSE \E i \in DOMAIN timers : IsTop(i) /\ deadline = timers[i].when

\* run_batch: the ready phase runs only its snapshot, so a callback scheduled
\* during the batch, by a callback or by another thread, waits for a later one.
SnapshotOnly == pc = "ready" => cur \notin fresh

\* is_running() is true exactly while run_forever is on the stack.
RunningIffOnStack == running <=> pc # "idle"

\* close() leaves nothing queued or registered, and nothing is queued after
\* it: a closed loop stays empty and does not run.
ClosedIsDrained ==
    closed => /\ ready = <<>> /\ timers = <<>> /\ io = <<>>
              /\ \A w \in Watcher : slot[w] # "live"
              /\ ~running

\* A queued callback, whichever thread queued it, and a timer that has expired
\* are run or dropped unless the run ends, whatever the other callbacks keep
\* scheduling.
WorkServed ==
    \A h \in Handle :
        /\ running /\ (\E i \in DOMAIN ready : ready[i] = h)
               ~> ~running \/ ~\E i \in DOMAIN ready : ready[i] = h
        /\ running /\ (\E i \in DOMAIN timers : timers[i].h = h /\ timers[i].when <= clock)
               ~> ~running \/ ~\E i \in DOMAIN timers : timers[i].h = h
=============================================================================
