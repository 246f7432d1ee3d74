------------------------------ MODULE Signals ------------------------------
(***************************************************************************)
(* add_signal_handler and remove_signal_handler.  The interpreter's C      *)
(* handler only records a signal; the Python handler, which calls          *)
(* call_soon_threadsafe, runs when the main thread next executes Python.   *)
(* The loop runs in the main thread: in run_batch it executes Python, in   *)
(* its park (EventLoop) it waits in Tokio without the GIL, and no wakeup   *)
(* descriptor connects the recorded signal to Tokio.                       *)
(***************************************************************************)
EXTENDS Naturals, FiniteSets

CONSTANT Sig     \* signals

VARIABLES
    handlers,    \* _signal_handlers: the signals with a handler
    recorded,    \* signals the C handler recorded
    ready,       \* signal callbacks in the ready queue
    loop,        \* "python" in a batch or outside the loop, "parked", "closed"
    failed       \* the Python handler raised, because the loop was closed

vars == <<handlers, recorded, ready, loop, failed>>

\* The variables of the signal handling stay in their ranges.
TypeOK ==
    /\ handlers \subseteq Sig /\ recorded \subseteq Sig /\ ready \subseteq Sig
    /\ loop \in {"python", "parked", "closed"} /\ failed \in BOOLEAN

Init ==
    /\ handlers = {} /\ recorded = {} /\ ready = {}
    /\ loop = "python" /\ failed = FALSE

add_signal_handler(s) ==
    /\ loop = "python" /\ handlers' = handlers \cup {s}
    /\ UNCHANGED <<recorded, ready, loop, failed>>

\* signal.signal(sig, SIG_DFL): also possible on a closed loop.
remove_signal_handler(s) ==
    /\ loop # "parked" /\ s \in handlers /\ handlers' = handlers \ {s}
    /\ UNCHANGED <<recorded, ready, loop, failed>>

\* A signal that has a handler arrives.
Arrive(s) ==
    /\ s \in handlers /\ recorded' = recorded \cup {s}
    /\ UNCHANGED <<handlers, ready, loop, failed>>

\* The interpreter calls the Python handler between two bytecodes; one that was
\* removed meanwhile is not called.
handler(s) ==
    /\ loop # "parked" /\ s \in recorded /\ recorded' = recorded \ {s}
    /\ ready' = IF s \in handlers /\ loop = "python" THEN ready \cup {s} ELSE ready
    /\ failed' = (failed \/ (s \in handlers /\ loop = "closed"))
    /\ UNCHANGED <<handlers, loop>>

\* A batch runs the callback.
RunCallback(s) ==
    /\ loop = "python" /\ s \in ready /\ ready' = ready \ {s}
    /\ UNCHANGED <<handlers, recorded, loop, failed>>

\* run_main parks when its queues are empty; recorded signals are not among
\* them.
Park ==
    /\ loop = "python" /\ ready = {} /\ loop' = "parked"
    /\ UNCHANGED <<handlers, recorded, ready, failed>>

\* A timer, a descriptor or another thread wakes the loop; none may come.
Wake ==
    /\ loop = "parked" /\ loop' = "python"
    /\ UNCHANGED <<handlers, recorded, ready, failed>>

\* close() leaves the handlers installed and drops the queue.
close ==
    /\ loop = "python" /\ loop' = "closed" /\ ready' = {}
    /\ UNCHANGED <<handlers, recorded, failed>>

Next ==
    \/ \E s \in Sig : \/ add_signal_handler(s) \/ remove_signal_handler(s)
                      \/ Arrive(s) \/ handler(s) \/ RunCallback(s)
    \/ Park \/ Wake \/ close

\* A batch that runs again and again lets the interpreter call the handler, and
\* calls what is in the queue.  Nothing has to wake the loop.
Spec ==
    /\ Init /\ [][Next]_vars
    /\ \A s \in Sig : SF_vars(handler(s)) /\ SF_vars(RunCallback(s))

\* A signal with a handler that arrives while the loop is open is passed on to
\* the loop, whether or not anything else happens in the process.
SignalServed ==
    \A s \in Sig : s \in recorded ~> s \notin recorded

=============================================================================
