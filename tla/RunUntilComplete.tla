-------------------------- MODULE RunUntilComplete --------------------------
(***************************************************************************)
(* run_until_complete over the scheduler of EventLoop: the done callback   *)
(* it gives the future (asyncio's _run_until_complete_cb), the run, and    *)
(* what is left of the callback when the run ends in another way.          *)
(*                                                                         *)
(* A future stands for the handle of its callback too: a member of Handle  *)
(* that nothing but the future's completion schedules.                     *)
(***************************************************************************)
EXTENDS EventLoop

CONSTANTS
    Fut,      \* the futures run_until_complete is called with
    Exits     \* a future may end with SystemExit or KeyboardInterrupt

ASSUME AwaitConstants ==
    Fut \subseteq Handle /\ Fut \cap Watcher = {} /\ Exits \in BOOLEAN

VARIABLES
    fut,        \* the state of each future
    hooked,     \* the futures that hold the callback
    call,       \* the future of the call in progress, or Nobody
    answered    \* history: the futures some call has returned the result of

\* A result, an exception or a cancellation; or one of the two exceptions.
Outcome == {"done"} \cup {s \in {"exit"} : Exits}

await   == <<fut, hooked, call, answered>>
allVars == <<vars, await>>

\* The futures stay in their ranges, and only the future of the call in
\* progress holds the callback.
TypeAwait ==
    /\ fut \in [Fut -> {"pending"} \cup Outcome]
    /\ call \in Fut \cup {Nobody}
    /\ hooked \subseteq {call} /\ answered \subseteq Fut

InitAwait ==
    /\ Init
    /\ fut = [f \in Fut |-> "pending"]
    /\ hooked = {} /\ call = Nobody /\ answered = {}

-----------------------------------------------------------------------------
\* The call up to run_forever_impl: add_done_callback keeps the callback, or
\* schedules it at once when the future is done.  The bound: not while an
\* earlier callback of the same future is still queued.
run_until_complete(f) ==
    /\ pc = "idle" /\ GilFree /\ check_closed /\ ~running
    /\ call = Nobody /\ Unused(f)
    /\ call' = f
    /\ \/ /\ fut[f] = "pending"
          /\ hooked' = hooked \cup {f}
          /\ UNCHANGED vars
       \/ /\ fut[f] # "pending"
          /\ call_soon(f)
          /\ UNCHANGED hooked
    /\ UNCHANGED <<fut, answered>>

\* Code on the loop's thread completes a future: its callback is scheduled.
complete(f) ==
    /\ OwnerCalls /\ cur \notin Fut /\ fut[f] = "pending"
    /\ call # Nobody => InCallback
    /\ \E s \in Outcome : fut' = [fut EXCEPT ![f] = s]
    /\ hooked' = hooked \ {f}
    /\ IF f \in hooked THEN call_soon(f) ELSE UNCHANGED vars
    /\ UNCHANGED <<call, answered>>

\* The callback stops the loop, unless the exception of the future is one that
\* CPython's loop lets through.
run_until_complete_cb == cur \in Fut /\ fut[cur] = "done" /\ stop /\ UNCHANGED await

\* It returns after it has called stop(), whose two stores nothing undoes before.
CallbackReturns ==
    /\ cur \in Fut /\ (fut[cur] = "done" => stop_requested /\ permit)
    /\ Return
    /\ UNCHANGED await

\* Seeded fault: the future keeps the callback.
KeepHook(f) == UNCHANGED hooked

remove_done_callback(f) == hooked' = hooked \ {f}

\* The run is over: the callback is detached and the future's state decides
\* between its result and "Event loop stopped before Future completed".
run_returns ==
    /\ call # Nobody
    /\ run_forever_cleanup
    /\ remove_done_callback(call)
    /\ answered' = answered \cup {f \in {call} : fut[f] # "pending"}
    /\ call' = Nobody
    /\ UNCHANGED fut

-----------------------------------------------------------------------------
\* What the loop's thread does by itself, but for the end of a call or callback.
LoopGoesOn ==
    /\ LoopStep
    /\ cur \in Fut => cur' = cur
    /\ call # Nobody => running' = running

\* The steps that concern no future.
Others ==
    /\ \/ OwnerStep /\ cur \notin Fut /\ (call # Nobody => InCallback \/ run_forever)
       \/ ForeignStep \/ LoopGoesOn \/ Tick
       \/ \E w \in Watcher : TaskFires(w)
    /\ \A f \in Fut : (Queued(f)' => Queued(f)) /\ cancelled'[f] = cancelled[f]
    /\ UNCHANGED await

Finishing == run_until_complete_cb \/ CallbackReturns \/ run_returns

NextAwait ==
    \/ \E f \in Fut : run_until_complete(f) \/ complete(f)
    \/ Finishing \/ Others

AwaitSpec == InitAwait /\ [][NextAwait]_allVars

\* As in EventLoop: the loop's thread goes on, a foreign call that has begun
\* ends, time passes.
FairAwait ==
    /\ AwaitSpec
    /\ SF_allVars(Finishing \/ (LoopGoesOn /\ UNCHANGED await))
    /\ \A t \in Thread : WF_allVars(notify_one(t) /\ UNCHANGED await)
    /\ WF_allVars(Tick /\ UNCHANGED await)

-----------------------------------------------------------------------------
(* Properties.                                                             *)

\* stop(), from a callback or from another thread, ends the run in progress,
\* and so does the completion of the future the run is for, before the run or
\* in it.
StopStops ==
    running /\ (stop_requested \/ \E f \in {call} \cap Fut : fut[f] # "pending")
        ~> ~running

\* The callback of a future stops a run of somebody else only if its own call
\* has returned the future's result: a future that completes after its call
\* was stopped stops nobody.
StopsNobodyElse == cur \in Fut /\ call # cur => cur \in answered
=============================================================================
