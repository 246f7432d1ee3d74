------------------------------ MODULE SockOps ------------------------------
(***************************************************************************)
(* The sock_* coroutines on one socket: sock_recv and its three siblings,  *)
(* sock_accept, sock_sendall, sock_sendto and sock_connect.  Each tries    *)
(* the system call at once and otherwise makes a future, registers a       *)
(* reader or writer that retries the call, and leaves the removal of the   *)
(* registration to a callback of the future.                               *)
(*                                                                         *)
(* A registration is known to the loop only by its descriptor.  What could *)
(* go wrong is a late callback: it runs after the future is done, when a   *)
(* new operation, a new socket with the same number, or a transport may    *)
(* hold the descriptor.  The reactor (FdReactor) calls a registered        *)
(* callback while the descriptor is ready, and may call it once more when  *)
(* it no longer is.                                                        *)
(***************************************************************************)
EXTENDS Integers, Sequences, FiniteSets

CONSTANTS
    Task,      \* coroutines that use the socket
    Fut,       \* futures; one is used again once nothing refers to it
    None,
    Size,      \* length of the data of a sock_sendall; bound: room for sending
    Buffer,    \* bound: items the kernel holds for reading
    Retries    \* bound: how often one sock_accept registers

ASSUME SockConstants ==
    /\ None \notin Fut
    /\ Size \in Nat \ {0} /\ Buffer \in Nat \ {0} /\ Retries \in Nat \ {0}

VARIABLES
    cur,        \* the future a task awaits
    fut,        \* the state of each future
    op,         \* the operation it belongs to
    pos,        \* sock_sendall: bytes sent so far
    cbs,        \* the callbacks of a pending future
    fds,        \* the handle registered for each direction
    transport,  \* a transport that is not closing owns the descriptor
    ready,      \* the loop's ready queue
    peer,       \* the kernel: what the socket is, and its connection attempt
    inq, room,  \* the kernel: items to read or accept, room to send
    wire,       \* history: the bytes of the sock_sendall of each future
    displaced   \* history: pending futures whose watcher was replaced

futures == <<cur, fut, op, pos, cbs>>
kernel  == <<peer, inq, room>>
others  == <<futures, fds, transport, ready, wire, displaced>>
vars    == <<others, kernel>>

Reading == {"recv", "accept"}
Writing == {"sendall", "sendto", "connect"}
Dir(k)  == IF k \in Reading THEN "r" ELSE "w"

\* A listening socket, a datagram socket, and a stream socket: not connected,
\* connecting, connected, refused.
Opened  == {"listener", "datagram", "idle", "ok"}
Sockets == Opened \cup {"pending", "failed"}

\* The n-th registration an operation made; the transport's own.
Handle      == [f : Fut, d : {"r", "w"}, n : 1..Retries]
TransportFd == [f |-> None, d |-> "r", n |-> 1]
NoHandle    == [f |-> None, d |-> "r", n |-> 0]

\* Entries of the ready queue: the callback that removes handle h, the wakeup
\* of the task that awaits f, a transport's _register_reader.
Done(h)   == h
Wakeup(f) == [f |-> f, d |-> "r", n |-> 0]
Register  == Wakeup(None)

\* The variables of the socket operations stay in their ranges.
TypeOK ==
    /\ cur \in [Task -> Fut \cup {None}]
    /\ fut \in [Fut -> {"free", "pending", "result", "error", "cancelled"}]
    /\ op \in [Fut -> Reading \cup Writing]
    /\ pos \in [Fut -> 0..Size]
    /\ \A f \in Fut : cbs[f] \in Seq(Handle \cup {Wakeup(f)})
    /\ fds \in [{"r", "w"} -> Handle \cup {NoHandle, TransportFd}]
    /\ transport \in BOOLEAN
    /\ ready \in Seq(Handle \cup {Wakeup(f) : f \in Fut} \cup {Register})
    /\ inq \in 0..Buffer /\ room \in 0..Size
    /\ peer \in Sockets
    /\ wire \in [Fut -> Seq(1..Size)]
    /\ displaced \subseteq Fut

Init ==
    /\ cur = [t \in Task |-> None]
    /\ fut = [f \in Fut |-> "free"] /\ op = [f \in Fut |-> "recv"]
    /\ pos = [f \in Fut |-> 0] /\ cbs = [f \in Fut |-> <<>>]
    /\ fds = [d \in {"r", "w"} |-> NoHandle]
    /\ transport = FALSE /\ ready = <<>>
    /\ inq = 0 /\ room = Size /\ peer \in Opened
    /\ wire = [f \in Fut |-> <<>>] /\ displaced = {}

-----------------------------------------------------------------------------
(* Futures and registrations.                                              *)

InUse(f) ==
    \/ \E t \in Task : cur[t] = f
    \/ \E d \in {"r", "w"} : fds[d].f = f
    \/ \E i \in DOMAIN ready : ready[i].f = f

\* A handle counts as cancelled once another took its place or it was removed.
cancelled(h) == fds[h.d] # h

\* Registering a handle takes the place of the one that was there.
add_watcher(d, h) ==
    /\ fds' = [fds EXCEPT ![d] = h]
    /\ displaced' = (displaced \ {h.f}) \cup
           {f \in Fut \ {h.f} : f = fds[d].f /\ fut[f] = "pending"}

\* set_result, set_exception or cancel: the callbacks move to the ready queue
\* in the order they were added.
Finish(f, outcome) ==
    /\ fut' = [fut EXCEPT ![f] = outcome]
    /\ ready' = ready \o cbs[f]
    /\ cbs' = [cbs EXCEPT ![f] = <<>>]

-----------------------------------------------------------------------------
(* The coroutines.  A call that succeeds at once makes no future.          *)

\* _ensure_fd_no_transport: otherwise the coroutine raises.
FreeFd == ~transport

\* Seeded fault: the bytes sent by the first try are not counted.
RestFromStart(n) == 0

\* Where sock_sendall goes on when n bytes went out at once.
Rest(n) == n

\* The callbacks of a new future: the one that ends the registration is added
\* before the await.
Callbacks(h) == <<Done(h), Wakeup(h.f)>>

\* The call would block: a future, a registration that retries the call, and
\* the callback that ends the registration.
Wait(t, k, n) ==
    /\ FreeFd
    /\ \E f \in Fut : ~InUse(f)
    /\ LET f == CHOOSE g \in Fut : ~InUse(g)
           h == [f |-> f, d |-> Dir(k), n |-> 1] IN
       /\ cur' = [cur EXCEPT ![t] = f]
       /\ fut' = [fut EXCEPT ![f] = "pending"]
       /\ op' = [op EXCEPT ![f] = k]
       /\ pos' = [pos EXCEPT ![f] = Rest(n)]
       /\ wire' = [wire EXCEPT ![f] = [i \in 1..n |-> i]]
       /\ add_watcher(Dir(k), h)
       /\ cbs' = [cbs EXCEPT ![f] = Callbacks(h)]
    /\ UNCHANGED <<transport, ready>>

\* One item is read at once, or the coroutine waits for one.
Take(t, k) ==
    /\ cur[t] = None
    /\ \/ inq > 0 /\ inq' = inq - 1 /\ UNCHANGED <<others, room, peer>>
       \/ inq = 0 /\ Wait(t, k, 0) /\ UNCHANGED kernel

\* sock_recv, sock_recv_into, sock_recvfrom and sock_recvfrom_into differ in
\* the system call only.
sock_recv(t) == peer \in {"ok", "datagram"} /\ Take(t, "recv")

sock_accept(t) == peer = "listener" /\ Take(t, "accept")

sock_sendall(t) ==
    /\ cur[t] = None /\ peer = "ok"
    /\ \E n \in 0..Size :
       /\ n <= room /\ (n = 0 => room = 0)
       /\ room' = room - n
       /\ \/ n = Size /\ UNCHANGED others
          \/ n < Size /\ Wait(t, "sendall", n)
    /\ UNCHANGED <<inq, peer>>

sock_sendto(t) ==
    /\ cur[t] = None /\ peer = "datagram"
    /\ \/ room > 0 /\ room' = room - 1 /\ UNCHANGED <<others, inq, peer>>
       \/ room = 0 /\ Wait(t, "sendto", 0) /\ UNCHANGED kernel

\* The resolved address is connected to at once, refused at once, or the
\* attempt goes on in the kernel (also when an earlier one still does).
sock_connect(t) ==
    /\ cur[t] = None /\ peer \in {"idle", "pending"}
    /\ \/ peer = "idle" /\ peer' \in {"ok", "failed"} /\ UNCHANGED others
       \/ peer' = "pending" /\ Wait(t, "connect", 0)
    /\ UNCHANGED <<inq, room>>

-----------------------------------------------------------------------------
(* The registered callbacks, called by the reactor.  One whose future is   *)
(* done returns at once; so does one that would block again, except        *)
(* sock_accept's, which registers anew.                                    *)

Fired(d, k) ==
    /\ fds[d].f \in Fut /\ fut[fds[d].f] = "pending" /\ op[fds[d].f] = k

\* The call ends the future, with its result or with an exception.
Ends(d, outcome) ==
    /\ Finish(fds[d].f, outcome)
    /\ UNCHANGED <<cur, op, pos, fds, transport, wire, displaced>>

Fails(d, k) == Fired(d, k) /\ Ends(d, "error") /\ UNCHANGED kernel

\* An item was read or accepted.
Taken(d, k) ==
    /\ Fired(d, k) /\ inq > 0
    /\ inq' = inq - 1 /\ Ends(d, "result") /\ UNCHANGED <<room, peer>>

recv_ready(d)   == Taken(d, "recv") \/ Fails(d, "recv")
accept_ready(d) == Taken(d, "accept") \/ Fails(d, "accept")

\* The connection is gone again: another reader, another callback to end it.
\* The wakeup of the task is among the callbacks already.
accept_again(d) ==
    LET f == fds[d].f
        h == [fds[d] EXCEPT !.n = @ + 1] IN
    /\ Fired(d, "accept") /\ inq = 0 /\ FreeFd /\ fds[d].n < Retries
    /\ add_watcher(d, h)
    /\ cbs' = [cbs EXCEPT ![f] = Append(@, Done(h))]
    /\ UNCHANGED <<cur, fut, op, pos, transport, ready, kernel, wire>>

sendall_ready(d) ==
    LET f == fds[d].f IN
    \/ /\ Fired(d, "sendall")
       /\ \E n \in 1..Size :
          /\ n <= room /\ n <= Size - pos[f]
          /\ room' = room - n
          /\ wire' = [wire EXCEPT ![f] = @ \o [i \in 1..n |-> pos[f] + i]]
          /\ IF pos[f] + n = Size
             THEN Finish(f, "result") /\ UNCHANGED pos
             ELSE /\ pos' = [pos EXCEPT ![f] = @ + n]
                  /\ UNCHANGED <<fut, cbs, ready>>
       /\ UNCHANGED <<cur, op, fds, transport, inq, peer, displaced>>
    \/ Fails(d, "sendall")

sendto_ready(d) ==
    \/ /\ Fired(d, "sendto") /\ room > 0
       /\ room' = room - 1 /\ Ends(d, "result") /\ UNCHANGED <<inq, peer>>
    \/ Fails(d, "sendto")

\* SO_ERROR tells how the attempt ended.
connect_ready(d) ==
    /\ Fired(d, "connect") /\ peer \in {"ok", "failed"}
    /\ Ends(d, IF peer = "ok" THEN "result" ELSE "error")
    /\ UNCHANGED kernel

-----------------------------------------------------------------------------
(* The ready queue.                                                        *)

\* Seeded fault: the registration is removed whoever holds the slot.
RemoveAny(h) == TRUE

\* Seeded fault: the registration is never removed.
RemoveNone(h) == FALSE

\* _sock_read_done and _sock_write_done: only a handle that was not replaced,
\* and remove_reader raises when a transport holds the descriptor.
Removes(h) == ~cancelled(h) /\ ~transport

sock_done ==
    /\ ready # <<>> /\ Head(ready).f \in Fut /\ Head(ready).n > 0
    /\ LET h == Head(ready) IN
       fds' = IF Removes(h) THEN [fds EXCEPT ![h.d] = NoHandle] ELSE fds
    /\ ready' = Tail(ready)
    /\ UNCHANGED <<futures, transport, kernel, wire, displaced>>

\* The awaiting task goes on; the coroutine is over and drops its future.
wakeup ==
    /\ ready # <<>> /\ Head(ready).f \in Fut /\ Head(ready).n = 0
    /\ LET f == Head(ready).f IN
       /\ cur' = [t \in Task |-> IF cur[t] = f THEN None ELSE cur[t]]
       /\ fut' = [fut EXCEPT ![f] = "free"] /\ op' = [op EXCEPT ![f] = "recv"]
       /\ pos' = [pos EXCEPT ![f] = 0] /\ wire' = [wire EXCEPT ![f] = <<>>]
       /\ displaced' = displaced \ {f}
    /\ ready' = Tail(ready)
    /\ UNCHANGED <<cbs, fds, transport, kernel>>

\* A transport registers its reader, unless it is closing already.
register_reader ==
    /\ ready # <<>> /\ Head(ready) = Register
    /\ IF transport THEN add_watcher("r", TransportFd) ELSE UNCHANGED <<fds, displaced>>
    /\ ready' = Tail(ready)
    /\ UNCHANGED <<futures, transport, kernel, wire>>

-----------------------------------------------------------------------------
(* The callers, the kernel and the peer.                                   *)

\* A task is cancelled, by its user or by a timeout; the future it awaits is
\* cancelled if it is not done yet.
cancel(t) ==
    /\ cur[t] # None /\ fut[cur[t]] = "pending"
    /\ Finish(cur[t], "cancelled")
    /\ UNCHANGED <<cur, op, pos, fds, transport, kernel, wire, displaced>>

Idle == \A t \in Task : cur[t] = None

\* The socket is closed when no coroutine uses it, and the next one that is
\* opened gets the same descriptor.
Reopen ==
    /\ Idle /\ ~transport
    /\ inq' = 0 /\ room' = Size /\ peer' \in Opened
    /\ UNCHANGED others

\* A transport is made for the descriptor, or the one there is closed.
MakeTransport ==
    /\ Idle /\ ~transport
    /\ \A i \in DOMAIN ready : ready[i] # Register
    /\ transport' = TRUE /\ ready' = Append(ready, Register)
    /\ UNCHANGED <<futures, fds, kernel, wire, displaced>>

CloseTransport ==
    /\ transport /\ transport' = FALSE
    /\ fds' = [d \in {"r", "w"} |-> NoHandle]
    /\ UNCHANGED <<futures, ready, kernel, wire, displaced>>

\* The peer sends or connects, or another process accepts before this one;
\* the peer reads; the connection attempt ends.
Arrive == /\ peer \in {"ok", "datagram", "listener"} /\ inq < Buffer
          /\ inq' = inq + 1 /\ UNCHANGED <<room, peer>>
Steal  == peer = "listener" /\ inq > 0 /\ inq' = inq - 1 /\ UNCHANGED <<room, peer>>
Drain  == room < Size /\ room' = room + 1 /\ UNCHANGED <<inq, peer>>
Settle == peer = "pending" /\ peer' \in {"ok", "failed"} /\ UNCHANGED <<inq, room>>
Kernel == /\ Arrive \/ Steal \/ Drain \/ Settle
          /\ UNCHANGED others

Start(t) == sock_recv(t) \/ sock_accept(t) \/ sock_sendall(t) \/ sock_sendto(t)
            \/ sock_connect(t)
Ready(d) == recv_ready(d) \/ accept_ready(d) \/ sendall_ready(d)
            \/ sendto_ready(d) \/ connect_ready(d)
RunReady == sock_done \/ wakeup \/ register_reader

Next ==
    \/ \E t \in Task : Start(t) \/ cancel(t)
    \/ \E d \in {"r", "w"} : Ready(d) \/ accept_again(d)
    \/ RunReady \/ Kernel \/ Reopen \/ MakeTransport \/ CloseTransport

Spec == Init /\ [][Next]_vars

\* A callback that finds the descriptor ready: data moves, or the connection
\* attempt is over.
Served(d) == Ready(d) /\ (kernel' # kernel \/ connect_ready(d))

\* The loop runs its queue; the reactor is level-triggered (FdReactor), so a
\* descriptor that is ready again and again has its callback called; the peer
\* goes on.  No call has to fail.
Fairness ==
    /\ WF_vars(RunReady)
    /\ \A d \in {"r", "w"} : SF_vars(Served(d))
    /\ WF_vars(Arrive /\ Kernel) /\ WF_vars(Drain /\ Kernel) /\ WF_vars(Settle /\ Kernel)

FairSpec == Spec /\ Fairness

-----------------------------------------------------------------------------
(* Properties.                                                             *)

\* A coroutine that waits has its own watcher on the descriptor unless a later
\* operation on the same direction took it: the late callback of an operation
\* that was cancelled or finished never removes the reader or writer of its
\* successor.
PendingWatched ==
    \A f \in Fut \ displaced :
        fut[f] = "pending" => fds[Dir(op[f])].f = f

\* No watcher is left behind: one whose future is done has the callback that
\* removes it in the ready queue, or a transport whose own registration or
\* close is due takes the slot.
WatchEnds ==
    \A d \in {"r", "w"} :
        fds[d].f \in Fut /\ fut[fds[d].f] # "pending" =>
            \/ \E i \in DOMAIN ready : ready[i] = fds[d]
            \/ d = "r" /\ transport

\* sock_sendall sends each byte of its data once and in order, across the
\* first try and the retries, and ends with success only when all are sent.
SendsAll ==
    \A f \in Fut :
        /\ wire[f] = [i \in 1..Len(wire[f]) |-> i]
        /\ fut[f] = "result" /\ op[f] = "sendall" => Len(wire[f]) = Size

\* Every coroutine comes to an end, unless a later operation on the same
\* direction took its watcher.
EveryOpEnds ==
    \A t \in Task, f \in Fut :
        cur[t] = f ~> (cur[t] # f \/ f \in displaced)

=============================================================================
