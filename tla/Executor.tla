------------------------------ MODULE Executor ------------------------------
(***************************************************************************)
(* The default executor: run_in_executor, set_default_executor, the        *)
(* shutdown with its joining thread and timeout, and what closing the loop *)
(* does to them.  The thread pool and wrap_future are external: a pool     *)
(* runs what was submitted, its shutdown stops submission and, with        *)
(* wait=True, joins; a result reaches the loop by call_soon_threadsafe     *)
(* (EventLoop).                                                            *)
(*                                                                         *)
(* The joining thread looks at the loop's state without a lock, and runs   *)
(* on when the coroutine that started it is cancelled or timed out.        *)
(***************************************************************************)
EXTENDS Integers, Sequences, FiniteSets

CONSTANTS
    Job,      \* calls of run_in_executor
    Shut      \* the joining thread's message to the loop

ASSUME ExecutorConstants == Shut \notin Job

VARIABLES
    dflt,        \* _default_executor: 0 is None, 1 made by the loop, 2 set by the user
    down,        \* pools whose shutdown was called
    shutCalled,  \* _executor_shutdown_called
    job,         \* the concurrent future of each job
    own,         \* the pool it was submitted to
    fut,         \* the asyncio future that wraps it
    posted,      \* messages of other threads in the ready queue
    shut,        \* the coroutine shutdown_default_executor
    thread,      \* its joining thread
    joined,      \* the pool that thread shuts down
    closed,      \* the loop is closed
    spurious     \* history: the thread failed on a loop that was not closed

pool     == <<dflt, down, shutCalled, own, spurious>>
shutdown == <<shut, thread, joined>>
executor == <<pool, job, fut, posted, shutdown, closed>>

TypeExecutor ==
    /\ dflt \in 0..2 /\ down \subseteq 1..2 /\ shutCalled \in BOOLEAN
    /\ job \in [Job -> {"none", "queued", "running"}]
    /\ own \in [Job -> 0..2]
    /\ fut \in [Job -> {"none", "pending"}]
    /\ posted \subseteq Job \cup {Shut}
    /\ shut \in {"no", "waiting", "returned", "timedout", "cancelled"}
    /\ thread \in {"no", "started", "joining", "joined", "notifying", "ended"}
    /\ joined \in 0..2 /\ closed \in {"no", "marked", "yes"} /\ spurious \in BOOLEAN

InitExecutor ==
    /\ dflt = 0 /\ down = {} /\ shutCalled = FALSE
    /\ job = [j \in Job |-> "none"] /\ own = [j \in Job |-> 0]
    /\ fut = [j \in Job |-> "none"] /\ posted = {}
    /\ shut = "no" /\ thread = "no" /\ joined = 0
    /\ closed = "no" /\ spurious = FALSE

Active(j) == job[j] # "none"
is_closed == closed # "no"

-----------------------------------------------------------------------------
(* Jobs.                                                                   *)

\* Seeded fault: a job is taken after the shutdown.
NoCheck == TRUE

\* _check_default_executor.
Accepting == ~shutCalled

\* run_in_executor is not refused.
MayRun == ~is_closed /\ Accepting

\* The pool is made by the first job that needs it.
run_in_executor(j) ==
    /\ MayRun /\ ~Active(j) /\ fut[j] = "none" /\ j \notin posted
    /\ LET e == IF dflt = 0 THEN 1 ELSE dflt IN
       dflt' = e /\ own' = [own EXCEPT ![j] = e]
    /\ job' = [job EXCEPT ![j] = "queued"]
    /\ fut' = [fut EXCEPT ![j] = "pending"]
    /\ UNCHANGED <<down, shutCalled, spurious, posted, shutdown, closed>>

\* A worker takes the job.
Begin(j) ==
    /\ job[j] = "queued" /\ job' = [job EXCEPT ![j] = "running"]
    /\ UNCHANGED <<pool, fut, posted, shutdown, closed>>

\* Seeded fault: the worker does not tell the loop.
TellNobody(m) == posted

\* call_soon_threadsafe, which a closed loop refuses.
Told(m) == IF is_closed THEN posted ELSE posted \cup {m}

\* The worker is done and hands over the result.
End(j) ==
    /\ job[j] = "running" /\ job' = [job EXCEPT ![j] = "none"]
    /\ own' = [own EXCEPT ![j] = 0]
    /\ posted' = IF fut[j] = "pending" THEN Told(j) ELSE posted
    /\ UNCHANGED <<dflt, down, shutCalled, spurious, fut, shutdown, closed>>

\* The loop sets the result of the asyncio future.
Deliver(j) ==
    /\ j \in posted /\ ~is_closed
    /\ posted' = posted \ {j} /\ fut' = [fut EXCEPT ![j] = "none"]
    /\ UNCHANGED <<pool, job, shutdown, closed>>

\* The asyncio future is cancelled: a job that has not begun never will, one
\* that runs goes on.
Cancel(j) ==
    /\ fut[j] = "pending" /\ fut' = [fut EXCEPT ![j] = "none"]
    /\ job' = [job EXCEPT ![j] = IF @ = "queued" THEN "none" ELSE @]
    /\ own' = [own EXCEPT ![j] = IF job[j] = "queued" THEN 0 ELSE @]
    /\ posted' = posted \ {j}
    /\ UNCHANGED <<dflt, down, shutCalled, spurious, shutdown, closed>>

set_default_executor ==
    /\ ~is_closed /\ dflt # 2 /\ dflt' = 2
    /\ UNCHANGED <<down, shutCalled, own, spurious, job, fut, posted, shutdown, closed>>

-----------------------------------------------------------------------------
(* Shutdown.                                                               *)

shutdown_default_executor ==
    /\ shut = "no" /\ ~is_closed
    /\ shutCalled' = TRUE
    /\ IF dflt = 0 THEN shut' = "returned" /\ UNCHANGED thread
                   ELSE shut' = "waiting" /\ thread' = "started"
    /\ UNCHANGED <<dflt, down, own, spurious, job, fut, posted, joined, closed>>

\* _do_shutdown: the thread reads the attribute now.  If close() has set it to
\* None meanwhile, the call fails, and the handler looks whether the loop is
\* closed.
thread_begins ==
    /\ thread = "started"
    /\ IF dflt = 0
       THEN /\ thread' = "ended" /\ spurious' = ~is_closed
            /\ UNCHANGED <<joined, down>>
       ELSE /\ thread' = "joining" /\ joined' = dflt /\ down' = down \cup {dflt}
            /\ UNCHANGED spurious
    /\ UNCHANGED <<dflt, shutCalled, own, job, fut, posted, shut, closed>>

\* shutdown(wait=True) returns.
Joined == \A j \in Job : Active(j) => own[j] # joined

thread_joins ==
    /\ thread = "joining" /\ Joined /\ thread' = "joined"
    /\ UNCHANGED <<pool, job, fut, posted, shut, joined, closed>>

\* if not self.is_closed() ...
thread_looks ==
    /\ thread = "joined"
    /\ thread' = IF is_closed THEN "ended" ELSE "notifying"
    /\ UNCHANGED <<pool, job, fut, posted, shut, joined, closed>>

\* ... call_soon_threadsafe, which fails if the loop was closed in between; the
\* handler looks again and leaves it at that.
thread_notifies ==
    /\ thread = "notifying" /\ thread' = "ended"
    /\ posted' = Told(Shut)
    /\ UNCHANGED <<pool, job, fut, shut, joined, closed>>

\* The coroutine goes on with the result, the timeout, or a cancellation.
shutdown_returns ==
    /\ shut = "waiting" /\ Shut \in posted /\ ~is_closed
    /\ shut' = "returned" /\ posted' = posted \ {Shut}
    /\ UNCHANGED <<pool, job, fut, thread, joined, closed>>

shutdown_times_out ==
    /\ shut = "waiting" /\ ~is_closed
    /\ shut' = "timedout" /\ down' = down \cup {dflt}
    /\ UNCHANGED <<dflt, shutCalled, own, spurious, job, fut, posted, thread, joined, closed>>

shutdown_cancelled ==
    /\ shut = "waiting" /\ ~is_closed /\ shut' = "cancelled"
    /\ UNCHANGED <<pool, job, fut, posted, thread, joined, closed>>

\* Seeded fault: the executor is given up before the loop counts as closed.
DropFirst ==
    /\ closed = "no" /\ dflt' = 0 /\ shutCalled' = TRUE
    /\ UNCHANGED <<down, own, spurious, job, fut, posted, shutdown, closed>>

\* close(): the loop is closed and its queue emptied; then the executor is
\* given up and shut down without waiting.
close_mark ==
    /\ closed = "no" /\ closed' = "marked" /\ posted' = {}
    /\ UNCHANGED <<dflt, down, shutCalled, own, spurious, job, fut, shutdown>>

close_executor ==
    /\ closed = "marked" /\ closed' = "yes" /\ shutCalled' = TRUE
    /\ dflt' = 0 /\ down' = down \cup ({dflt} \ {0})
    /\ UNCHANGED <<own, spurious, job, fut, posted, shutdown>>

ThreadStep == thread_begins \/ thread_joins \/ thread_looks \/ thread_notifies

ExecutorNext ==
    \/ \E j \in Job : \/ run_in_executor(j) \/ Begin(j) \/ End(j) \/ Deliver(j)
                      \/ Cancel(j)
    \/ set_default_executor \/ shutdown_default_executor \/ ThreadStep
    \/ shutdown_returns \/ shutdown_times_out \/ shutdown_cancelled
    \/ close_mark \/ close_executor

ExecutorSpec == InitExecutor /\ [][ExecutorNext]_executor

-----------------------------------------------------------------------------
(* Properties.                                                             *)

\* When shutdown_default_executor returns without a timeout, no job runs or
\* waits in the pool it joined, and none is started later; only a pool that
\* set_default_executor replaced may go on.
JoinedIsQuiet ==
    shut = "returned" =>
        \A j \in Job : Active(j) => joined = 2 /\ own[j] = 1

\* The joining thread does not fail on a loop that is still open, although
\* close() takes the executor away from under it.
ThreadNeverSpurious == ~spurious

\* A shutdown ends even without a timeout, or the loop is closed.
ShutdownEnds == shut = "waiting" ~> (shut # "waiting" \/ is_closed)

=============================================================================
