------------------------------- MODULE Serve -------------------------------
(***************************************************************************)
(* A server with one listening socket: the reader that accepts a burst of  *)
(* connections, the back-off when the process is out of descriptors, the   *)
(* task that opens a transport for each connection, close() and            *)
(* wait_closed().                                                          *)
(*                                                                         *)
(* asyncio's Server object is external: it counts the transports attached  *)
(* to it, refuses one when it is closed already, and wakes wait_closed     *)
(* when it is closed and the last transport detached.                      *)
(*                                                                         *)
(* A registered reader owns a duplicate of its descriptor (FdReactor), and *)
(* the process runs out of descriptors with those counted.  A duplicate is *)
(* taken to be closed when the step that removes the reader ends.          *)
(***************************************************************************)
EXTENDS Opening

CONSTANTS
    Backlog,     \* the argument of create_server
    FreeFds,     \* how many descriptors the process may have for its readers
                 \* and its connections; one of each fits
    Peers,       \* bound: connections that arrive
    MaxTimers    \* bound: retry timers pending at a time

ASSUME ServeConstants ==
    Backlog \in Nat /\ FreeFds \subseteq Nat \ {0, 1} /\ Peers \in 0..N
    /\ MaxTimers \in Nat

VARIABLES
    backlog,     \* the kernel's queue of connections
    aborted,     \* those the peer gave up
    listening,   \* the listening socket is open
    accepting,   \* _accept_connection is registered as its reader
    timers,      \* pending calls of _start_serving
    clients,     \* the transports attached to the server
    limit,       \* that number in this process
    deaf,        \* history: a retry raised, and no other one is pending
    wait         \* wait_closed: not called, waiting, returned

server == <<backlog, aborted, listening, accepting, timers, clients, limit, deaf, wait>>

TypeServe ==
    /\ backlog \in Seq(Conn) /\ aborted \subseteq Conn
    /\ listening \in BOOLEAN /\ accepting \in BOOLEAN
    /\ timers \in 0..MaxTimers /\ clients \subseteq Conn
    /\ limit \in FreeFds /\ deaf \in BOOLEAN
    /\ wait \in {"no", "waiting", "returned"}

InitServe ==
    /\ backlog = <<>> /\ aborted = {} /\ listening = TRUE /\ accepting = TRUE
    /\ timers = 0 /\ clients = {} /\ limit \in FreeFds /\ deaf = FALSE
    /\ wait = "no"

-----------------------------------------------------------------------------
(* The listening socket.                                                   *)

\* A peer connects; it may give up before the connection is accepted.
Arrive(c) ==
    /\ c <= Peers /\ listening /\ sock[c] = "none"
    /\ sock' = [sock EXCEPT ![c] = "backlog"]
    /\ backlog' = Append(backlog, c)
    /\ UNCHANGED <<tr, reader, waiter, task, cancelling, calls, ready>>
    /\ UNCHANGED <<aborted, listening, accepting, timers, clients, limit, deaf, wait>>

GiveUp(c) ==
    /\ sock[c] = "backlog" /\ c \notin aborted /\ aborted' = aborted \cup {c}
    /\ UNCHANGED <<opening, backlog, listening, accepting, timers, clients, limit, deaf, wait>>

\* The descriptors in use: connections, and the duplicates of the readers.
Used ==
    Cardinality({c \in Conn : sock[c] = "open"}) + Cardinality(reader)
        + (IF accepting THEN 1 ELSE 0)

\* Seeded fault: no retry is scheduled.
NoRetry(s) == [s EXCEPT !.off = TRUE]

\* The reader is removed, and a timer will register it again.
BackOff(s) == [s EXCEPT !.off = TRUE, !.timers = @ + 1]

\* One turn of the accept loop: out of descriptors, a retry is scheduled and
\* the loop goes on; an aborted connection is skipped; an empty queue ends it.
Turn(s) ==
    CASE Used + Cardinality(s.got) >= limit -> BackOff(s)
      [] Used + Cardinality(s.got) < limit /\ s.queue = <<>> -> s
      [] OTHER ->
           LET c == Head(s.queue) IN
           IF c \in aborted
           THEN [s EXCEPT !.queue = Tail(@), !.skipped = @ \cup {c}]
           ELSE [s EXCEPT !.queue = Tail(@), !.got = @ \cup {c},
                          !.new = Append(@, Entry("step", c))]

Burst[n \in 0..Backlog + 1] ==
    IF n = 0
    THEN [queue |-> backlog, got |-> {}, skipped |-> {}, new |-> <<>>,
          off |-> FALSE, timers |-> 0]
    ELSE Turn(Burst[n - 1])

\* _accept_connection, called while the listening socket is readable.  Any
\* other error of accept() ends the burst early.
accept_connection ==
    /\ accepting /\ backlog # <<>>
    /\ \E n \in 1..Backlog + 1 :
       LET s == Burst[n] IN
       /\ timers + s.timers <= MaxTimers
       /\ backlog' = s.queue /\ aborted' = aborted \ s.skipped
       /\ timers' = timers + s.timers
       /\ accepting' = ~s.off
       /\ sock' = [c \in Conn |-> IF c \in s.got THEN "open"
                                  ELSE IF c \in s.skipped THEN "closed"
                                  ELSE sock[c]]
       /\ task' = [c \in Conn |-> IF c \in s.got THEN "new" ELSE task[c]]
       /\ ready' = ready \o s.new
    /\ UNCHANGED <<tr, reader, waiter, cancelling, calls>>
    /\ UNCHANGED <<listening, clients, limit, deaf, wait>>

\* Seeded fault: the timer registers the descriptor it was scheduled with.
OldDescriptor == TRUE

\* sock.fileno() of a closed socket is -1, which _add_reader refuses.
HasDescriptor == listening

\* dup() of the listening descriptor; out of descriptors _add_reader raises.
Duplicated == Used < limit

\* A retry timer calls _start_serving.  When that raises, the loop's exception
\* handler is called and nothing schedules another retry.
start_serving ==
    /\ timers > 0 /\ timers' = timers - 1
    /\ accepting' = (accepting \/ (HasDescriptor /\ Duplicated))
    /\ deaf' = (listening /\ ~accepting' /\ timers' = 0)
    /\ UNCHANGED <<opening, backlog, aborted, listening, clients, limit, wait>>

-----------------------------------------------------------------------------
(* _accept_connection2, a task per connection.                             *)

\* Seeded fault: a closed server takes another transport.
AttachAny == TRUE

\* Server._attach: a closed server refuses.
Attachable == listening

\* The first step of the task.  A task cancelled before it never runs, a
\* factory may raise, a closed server refuses: the connection is dropped.
accept_step ==
    /\ IsNext("step")
    /\ LET c == First IN
       \/ /\ c \notin cancelling /\ Attachable
          /\ MakeTransport(c, Rest)
          /\ clients' = clients \cup {c} /\ UNCHANGED <<sock, wait>>
       \/ /\ task' = [task EXCEPT ![c] = "failed"] /\ ready' = Rest
          /\ sock' = [sock EXCEPT ![c] = "dropped"]
          /\ cancelling' = cancelling \ {c}
          /\ UNCHANGED <<tr, reader, waiter, calls, clients, wait>>
    /\ UNCHANGED <<backlog, aborted, listening, accepting, timers, limit, deaf>>

\* The task is cancelled before its first step.
CancelNew(c) ==
    /\ task[c] = "new" /\ cancelling' = cancelling \cup {c}
    /\ UNCHANGED <<sock, tr, reader, waiter, task, calls, ready, server>>

\* Seeded fault: the last transport leaves a closed server without a word.
NoDetachWakeup(left) == wait

\* Server._detach and Server.close wake the waiter when nothing is attached.
Woken(left) == IF wait = "waiting" /\ left = {} THEN "returned" ELSE wait

detach ==
    /\ connection_lost
    /\ clients' = clients \ {First}
    /\ wait' = IF listening THEN wait ELSE Woken(clients')
    /\ UNCHANGED <<backlog, aborted, listening, accepting, timers, limit, deaf>>

-----------------------------------------------------------------------------
(* The server object.                                                      *)

\* Server.close() and _stop_serving: the kernel resets what was not accepted.
close_server ==
    /\ listening /\ listening' = FALSE /\ accepting' = FALSE
    /\ sock' = [c \in Conn |-> IF sock[c] = "backlog" THEN "closed" ELSE sock[c]]
    /\ backlog' = <<>> /\ aborted' = {}
    /\ wait' = Woken(clients)
    /\ UNCHANGED <<tr, reader, waiter, task, cancelling, calls, ready>>
    /\ UNCHANGED <<timers, clients, limit, deaf>>

wait_closed ==
    /\ wait = "no"
    /\ wait' = IF ~listening /\ clients = {} THEN "returned" ELSE "waiting"
    /\ UNCHANGED <<opening, backlog, aborted, listening, accepting, timers, clients, limit, deaf>>

\* A transport's reader is registered only if a descriptor is left.
ServeCallback == (Callback /\ UNCHANGED server /\ Used' <= limit) \/ detach \/ accept_step

ServeNext ==
    \/ \E c \in Conn :
        \/ Arrive(c) \/ GiveUp(c) \/ CancelNew(c)
        \/ (CancelOpening(c) \/ Hangup(c) \/ Handshake(c)) /\ UNCHANGED server
    \/ accept_connection \/ start_serving \/ close_server \/ wait_closed
    \/ ServeCallback

\* What goes on by itself: the loop runs its timers and reports a readable
\* socket; ...
ListenProgress == accept_connection \/ start_serving

\* ... it runs its queue, a handshake ends or times out, and a connection does
\* not last for ever.
ConnectionProgress ==
    \/ ServeCallback
    \/ \E c \in Conn : (Handshake(c) \/ Hangup(c)) /\ UNCHANGED server

-----------------------------------------------------------------------------
(* Properties.                                                             *)

\* A closed server accepts nothing any more, even if a retry timer of an
\* earlier back-off fires after the close.
ClosedStaysClosed == ~listening => ~accepting

\* wait_closed returns only when the server is closed and no connection of it
\* is left, and none is opened later by a task that was already scheduled.
WaitedOut ==
    wait = "returned" => /\ ~listening
                         /\ \A c \in Conn : tr[c] \notin {"open", "closing"}

\* A connection in the kernel's queue is opened, or closed with the server or
\* by its failing task, although descriptors run out: a retry is pending while
\* nothing is accepted, until the last one pending finds no descriptor for the
\* reader and raises.
Accepted ==
    \A c \in Conn : sock[c] = "backlog" ~>
        task[c] = "done" \/ sock[c] \in {"closed", "dropped"} \/ deaf

\* wait_closed returns once the server is closed.
WaitReturns == wait = "waiting" /\ ~listening ~> wait = "returned"

=============================================================================
