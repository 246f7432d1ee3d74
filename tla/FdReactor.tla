----------------------------- MODULE FdReactor -----------------------------
(***************************************************************************)
(* The fd reactor in callback mode: the registry behind add_reader and     *)
(* add_writer, the FdHandle each registration returns, and the watcher     *)
(* task (fd_task) that turns Tokio's edge-triggered readiness into the     *)
(* level-triggered callbacks asyncio promises.                             *)
(*                                                                         *)
(* Watcher tasks and Python callbacks share the loop's thread: the runtime *)
(* polls tasks and turns its I/O driver only while the loop future is      *)
(* pending (phase "tasks"), and a registration, removal or cancellation    *)
(* made by Python is one step for every task.  The scheduler itself is     *)
(* EventLoop; here it is the order of the phases.                          *)
(***************************************************************************)
EXTENDS Integers, Sequences, FiniteSets

CONSTANTS
    Fd,        \* file descriptors
    Reg,       \* registrations; each add_watcher call makes a new one
    None       \* no registration

\* A process has finitely many descriptors.
ASSUME ReactorConstants == None \notin Reg /\ IsFiniteSet(Fd)

\* The directions that can be watched.
Dir == Fd \X {"read", "write"}

VARIABLES
    fds,         \* the registry: the registration of each direction
    dirOf,       \* the direction a registration was made for
    cb,          \* its slot holds a callback
    cancelled,   \* the flag its slot shares with its FdHandle
    task,        \* its watcher task
    guard,       \* the readiness guard the task holds: none, or whether the
                 \* tick of its AsyncFd has moved since it was taken
    hs,          \* the permit of its rendezvous
    flag,        \* the Tokio readiness flag of its AsyncFd
    edge,        \* epoll holds an event the driver has not fetched
    level,       \* the kernel would report the direction ready
    io,          \* LoopState.io: registrations with a completion queued
    n_watchers,  \* LoopState.n_watchers
    phase, cur,  \* what the loop's thread does; the callback it is in
    idle         \* history: fires without I/O since the driver last had an
                 \* event for the AsyncFd

slots == <<dirOf, cb, cancelled>>
tokio == <<guard, hs, flag, edge>>
vars  == <<fds, slots, task, tokio, level, io, n_watchers, phase, cur, idle>>

Running == {"python", "io", "tasks"}
Polled  == {"spawned", "parked", "hs"}

\* Every variable of the reactor stays in its range; in particular the counter
\* n_watchers, an unsigned one in the code, never drops below zero.
TypeOK ==
    /\ fds \in [Dir -> Reg \cup {None}]
    /\ dirOf \in [Reg -> Dir]
    /\ cb \in [Reg -> BOOLEAN] /\ cancelled \in [Reg -> BOOLEAN]
    /\ task \in [Reg -> {"none", "aborted", "gone"} \cup Polled]
    /\ guard \in [Reg -> {"none", "fresh", "stale"}]
    /\ hs \in [Reg -> BOOLEAN]
    /\ flag \in [Reg -> BOOLEAN] /\ edge \in [Reg -> BOOLEAN]
    /\ level \in [Dir -> BOOLEAN]
    /\ io \in Seq(Reg)
    /\ n_watchers \in Nat
    /\ phase \in {"stopped", "closed"} \cup Running
    /\ cur \in Reg \cup {None}
    /\ idle \in [Reg -> Nat]

Init ==
    /\ fds = [d \in Dir |-> None]
    /\ dirOf \in [Reg -> Dir]
    /\ cb = [r \in Reg |-> FALSE] /\ cancelled = [r \in Reg |-> FALSE]
    /\ task = [r \in Reg |-> "none"]
    /\ guard = [r \in Reg |-> "none"]
    /\ hs = [r \in Reg |-> FALSE]
    /\ flag = [r \in Reg |-> FALSE] /\ edge = [r \in Reg |-> FALSE]
    /\ level \in [Dir -> BOOLEAN]
    /\ io = <<>> /\ n_watchers = 0
    /\ phase = "stopped" /\ cur = None
    /\ idle = [r \in Reg |-> 0]

-----------------------------------------------------------------------------
(* Registration, by Python code on the loop's thread.                      *)

\* A ready callback, a timer, an fd callback, or code outside a run.
PythonRuns == phase \in {"stopped", "python"} \/ cur # None

\* The tasks after those of R are aborted.
Aborted(R) == [r \in Reg |-> IF r \in R THEN "aborted" ELSE task[r]]

\* Seeded fault: the handles of the removed registrations stay live.
CancelNothing(R) == UNCHANGED cancelled

CancelHandles(R) == cancelled' = [r \in Reg |-> cancelled[r] \/ r \in R]

Counted(old) == IF old = {} THEN 1 ELSE 0

\* A direction of r's descriptor.  AsyncFd::new registers the dup'd fd for
\* reading and for writing, whichever the watcher is for.
SameFd(r, d) == dirOf[r][1] = d[1]

\* epoll has something to report for the AsyncFd.
Reported(r) == \E d \in Dir : SameFd(r, d) /\ level[d]

\* Dup the fd, register it with epoll (which reports what is ready already),
\* spawn the task, take the place of a previous watcher.
add_watcher(r) ==
    LET d == dirOf[r]
        old == {fds[d]} \ {None} IN
    /\ PythonRuns /\ task[r] = "none"
    /\ fds' = [fds EXCEPT ![d] = r]
    /\ task' = [Aborted(old) EXCEPT ![r] = "spawned"]
    /\ CancelHandles(old)
    /\ cb' = [q \in Reg |-> (cb[q] \/ q = r) /\ q \notin old]
    /\ edge' = [edge EXCEPT ![r] = Reported(r)]
    /\ n_watchers' = n_watchers + Counted(old)
    /\ UNCHANGED <<dirOf, guard, hs, flag, level, io, phase, cur, idle>>

\* Abort the tasks and clear the slots of the registrations in R.
Detach(R) ==
    /\ task' = Aborted(R)
    /\ CancelHandles(R)
    /\ cb' = [r \in Reg |-> cb[r] /\ r \notin R]

\* remove_reader / remove_writer.  A completion already queued stays queued.
detach_watcher(d) ==
    /\ PythonRuns /\ fds[d] # None
    /\ fds' = [fds EXCEPT ![d] = None]
    /\ Detach({fds[d]})
    /\ n_watchers' = n_watchers - 1
    /\ UNCHANGED <<dirOf, tokio, level, io, phase, cur, idle>>

\* FdHandle.cancel: the swap guards a removal by direction, not by identity.
cancel(r) ==
    /\ task[r] # "none" /\ ~cancelled[r]
    /\ detach_watcher(dirOf[r])

\* close(): abort_all, then the queued completions are dropped.
close ==
    /\ phase = "stopped"
    /\ phase' = "closed"
    /\ fds' = [d \in Dir |-> None]
    /\ Detach({fds[d] : d \in Dir} \ {None})
    /\ n_watchers' = 0
    /\ io' = <<>>
    /\ UNCHANGED <<dirOf, tokio, level, cur, idle>>

-----------------------------------------------------------------------------
(* fd_task                                                                 *)

\* Seeded fault: the probe reports nothing pending.
BlindPoll(r) == FALSE

\* The zero-timeout poll(2) on the dup'd fd.
poll_ready(r) == level[dirOf[r]]

\* Queue a completion and wake the loop.  The task returns instead when its
\* slot has no callback, which never happens (SlotLive of FdReactorProofs).
Fire(r) ==
    /\ cb[r]
    /\ io' = Append(io, r)
    /\ task' = [task EXCEPT ![r] = "hs"]
    /\ idle' = [idle EXCEPT ![r] = IF level[dirOf[r]] THEN @ ELSE @ + 1]

\* The priming poll covers I/O that was pending before the registration.
Prime(r) ==
    /\ phase = "tasks" /\ task[r] = "spawned"
    /\ \/ poll_ready(r) /\ Fire(r)
       \/ /\ ~poll_ready(r)
          /\ task' = [task EXCEPT ![r] = "parked"]
          /\ UNCHANGED <<io, idle>>
    /\ UNCHANGED <<fds, slots, tokio, level, n_watchers, phase, cur>>

\* readable().await / writable().await completes with a guard.
Readable(r) ==
    /\ phase = "tasks" /\ task[r] = "parked" /\ flag[r]
    /\ Fire(r)
    /\ guard' = [guard EXCEPT ![r] = "fresh"]
    /\ UNCHANGED <<fds, slots, hs, flag, edge, level, n_watchers, phase, cur>>

\* Seeded fault: a drained fd keeps its flag.
KeepFlag(r) == UNCHANGED flag

\* clear_ready does nothing when the tick has moved since the guard was taken;
\* without a guard try_io clears whatever is set.
ClearReady(r) == flag' = [flag EXCEPT ![r] = @ /\ guard[r] = "stale"]

\* The callback has run: probe, then fire again or clear the flag and park.
Rendezvous(r) ==
    /\ phase = "tasks" /\ task[r] = "hs" /\ hs[r]
    /\ hs' = [hs EXCEPT ![r] = FALSE]
    /\ \/ poll_ready(r) /\ Fire(r) /\ UNCHANGED <<guard, flag>>
       \/ /\ ~poll_ready(r)
          /\ ClearReady(r)
          /\ guard' = [guard EXCEPT ![r] = "none"]
          /\ task' = [task EXCEPT ![r] = "parked"]
          /\ UNCHANGED <<io, idle>>
    /\ UNCHANGED <<fds, slots, edge, level, n_watchers, phase, cur>>

\* The runtime drops an aborted task: its AsyncFd closes the dup'd fd.
Reap(r) ==
    /\ phase = "tasks" /\ task[r] = "aborted"
    /\ task' = [task EXCEPT ![r] = "gone"]
    /\ edge' = [edge EXCEPT ![r] = FALSE]
    /\ UNCHANGED <<fds, slots, guard, hs, flag, level, io, n_watchers, phase,
                   cur, idle>>

-----------------------------------------------------------------------------
(* The I/O driver and the kernel.                                          *)

\* The driver fetches an event; epoll reports it if the fd is ready still.  The
\* flag is that of the watched direction, the tick that of the AsyncFd: it moves
\* for an event of the other direction too.
DriverTurn(r) ==
    /\ phase = "tasks" /\ edge[r]
    /\ edge' = [edge EXCEPT ![r] = FALSE]
    /\ IF Reported(r)
       THEN /\ flag' = [flag EXCEPT ![r] = @ \/ level[dirOf[r]]]
            /\ guard' = [guard EXCEPT ![r] = IF @ = "none" THEN @ ELSE "stale"]
            /\ idle' = [idle EXCEPT ![r] = 0]
       ELSE UNCHANGED <<flag, guard, idle>>
    /\ UNCHANGED <<fds, slots, task, hs, level, io, n_watchers, phase, cur>>

\* Data or buffer space arrives: an event for every AsyncFd on the descriptor.
Arrive(d) ==
    /\ level' = [level EXCEPT ![d] = TRUE]
    /\ edge' = [r \in Reg |-> \/ edge[r]
                              \/ SameFd(r, d) /\ task[r] \in Polled \cup {"aborted"}]
    /\ UNCHANGED <<fds, slots, task, guard, hs, flag, io, n_watchers, phase, cur, idle>>

\* Python code reads the fd dry, or fills its send buffer.
Consume(d) ==
    /\ PythonRuns /\ level[d]
    /\ level' = [level EXCEPT ![d] = FALSE]
    /\ UNCHANGED <<fds, slots, task, tokio, io, n_watchers, phase, cur, idle>>

-----------------------------------------------------------------------------
(* The loop's thread.                                                      *)

Goto(p) ==
    /\ phase' = p
    /\ UNCHANGED <<fds, slots, task, tokio, level, io, n_watchers, cur, idle>>

run_forever == phase = "stopped" /\ Goto("python")

\* The ready and timer phases of the batch are over.
EnterIo == phase = "python" /\ Goto("io")

\* Seeded fault: the completion of a removed watcher still runs its callback.
AnyCallback(r) == TRUE

SlotCallback(r) == cb[r]

\* Seeded fault: the task is left waiting.
ReleaseNothing(r) == UNCHANGED hs

Release(r) == hs' = [hs EXCEPT ![r] = TRUE]

\* Pop a completion and run the callback its slot holds, if it holds one;
\* otherwise release the task at once.
RunIo ==
    /\ phase = "io" /\ cur = None /\ io # <<>>
    /\ io' = Tail(io)
    /\ \/ SlotCallback(Head(io)) /\ cur' = Head(io) /\ UNCHANGED hs
       \/ ~SlotCallback(Head(io)) /\ Release(Head(io)) /\ UNCHANGED cur
    /\ UNCHANGED <<fds, slots, task, guard, flag, edge, level, n_watchers,
                   phase, idle>>

\* The callback returns or raises; either way the task is released.
Return ==
    /\ cur # None
    /\ cur' = None
    /\ Release(cur)
    /\ UNCHANGED <<fds, slots, task, guard, flag, edge, level, io, n_watchers,
                   phase, idle>>

\* Seeded fault: the loop spins without yielding, watchers or not.
NeverYields == TRUE

\* Skipping the yield is sound when no watcher task can have work.
SkipsYield == n_watchers = 0

\* The batch is over: stop, spin again without yielding, or let tasks run.
EndBatch ==
    /\ phase = "io" /\ cur = None /\ io = <<>>
    /\ \/ Goto("stopped")
       \/ SkipsYield /\ Goto("python")
       \/ Goto("tasks")

BeginBatch == phase = "tasks" /\ Goto("python")

Poll(r) == Prime(r) \/ Readable(r) \/ Rendezvous(r) \/ Reap(r)

Next ==
    \/ \E r \in Reg : add_watcher(r) \/ cancel(r) \/ Poll(r) \/ DriverTurn(r)
    \/ \E d \in Dir : detach_watcher(d) \/ Arrive(d) \/ Consume(d)
    \/ close \/ run_forever \/ EnterIo \/ RunIo \/ Return \/ EndBatch \/ BeginBatch

Spec == Init /\ [][Next]_vars

\* The batch ends; a notified loop future is polled; between batches the
\* runtime gets round to every woken task and to its driver.
Fairness ==
    /\ WF_vars(EnterIo \/ RunIo \/ Return \/ EndBatch)
    /\ WF_vars(BeginBatch /\ io # <<>>)
    /\ \A r \in Reg : SF_vars(Poll(r)) /\ SF_vars(DriverTurn(r))

FairSpec == Spec /\ Fairness

-----------------------------------------------------------------------------
(* Properties.                                                             *)

\* The registry, the handles and the counter agree.  A handle is uncancelled
\* exactly while it is the registered one, so that FdHandle.cancel, which
\* removes by direction, never removes a successor; and n_watchers, which
\* decides whether the loop yields, counts the registered ones.
RegistryAgrees ==
    /\ \A r \in Reg : task[r] # "none" /\ ~cancelled[r] <=> fds[dirOf[r]] = r
    /\ n_watchers = Cardinality({d \in Dir : fds[d] # None})

\* The rendezvous is one to one: a waiting task has one completion queued, or
\* its callback on the stack, or its permit stored, and never two of them.
OneOutstanding ==
    \A r \in Reg : task[r] = "hs" =>
        Cardinality({i \in DOMAIN io : io[i] = r})
          + (IF cur = r THEN 1 ELSE 0) + (IF hs[r] THEN 1 ELSE 0) = 1

\* The reactor does not spin: a flag left over by I/O already consumed makes the
\* task fire at most once before the driver has another event for its AsyncFd.
\* An event of the other direction, which keeps clear_ready from clearing the
\* flag, costs at most one such fire.
SpuriousBounded == \A r \in Reg : idle[r] <= 1

\* Only the callback registered at that moment starts: a queued completion
\* of a removed or replaced watcher runs nothing.
RunsRegistered ==
    [][\A r \in Reg : cur' = r /\ cur # r => fds[dirOf[r]] = r]_vars

\* Level triggering: while a watched direction stays ready its callback is
\* called, whatever edges came and went before, unless the run ends.
LevelTriggered ==
    \A r \in Reg :
        phase \in Running /\ fds[dirOf[r]] = r /\ level[dirOf[r]]
            ~> cur = r \/ fds[dirOf[r]] # r \/ ~level[dirOf[r]] \/ phase \notin Running

\* The task of a removed watcher is dropped, and its descriptor closed, as
\* long as the loop runs and has a watcher that makes it yield.
AbortedReleased ==
    \A r \in Reg :
        task[r] = "aborted" ~> task[r] = "gone" \/ phase \notin Running \/ n_watchers = 0
=============================================================================
