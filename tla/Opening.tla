------------------------------ MODULE Opening ------------------------------
(***************************************************************************)
(* How a transport is opened and closed.  A coroutine has a socket: it     *)
(* makes the protocol and the transport, whose constructor schedules       *)
(* connection_made, the registration of the reader and the end of the      *)
(* coroutine's waiter, and awaits the waiter.  With TLS the handshake ends *)
(* the waiter.  Meanwhile the coroutine may be cancelled, the protocol may *)
(* close the transport, and the transport's own callbacks are queued among *)
(* the others.                                                             *)
(*                                                                         *)
(* Connect opens transports on sockets it connected, Serve on connections  *)
(* it accepted.  The write buffer is empty (WriteTransport has the close   *)
(* that waits for it).  With TLS what the coroutine closes is the          *)
(* transport of asyncio.sslproto, taken here to close the one below it at  *)
(* once.                                                                   *)
(***************************************************************************)
EXTENDS Integers, Sequences, FiniteSets

CONSTANT N     \* number of addresses, or of connections

ASSUME OpeningConstants == N \in Nat \ {0}

VARIABLES
    sock,       \* the state of each socket
    tr,         \* the state of its transport
    reader,     \* sockets with a registered reader
    waiter,     \* the future its coroutine awaits
    task,       \* the coroutine that opens the transport
    cancelling, \* coroutines cancelled after their waiter was done
    calls,      \* history: what the protocol was told
    ready       \* the loop's ready queue

opening == <<sock, tr, reader, waiter, task, cancelling, calls, ready>>

Conn == 1..N

\* "dropped": the last reference went away and the socket's finaliser closed
\* it.
SockState == {"none", "backlog", "open", "closed", "dropped"}
Kinds     == {"step", "made", "register", "waiter", "resume", "lost"}
Entry(k, c) == [k |-> k, c |-> c]

TypeOpening ==
    /\ sock \in [Conn -> SockState]
    /\ tr \in [Conn -> {"none", "open", "closing", "lost"}]
    /\ reader \subseteq Conn
    /\ waiter \in [Conn -> {"none", "pending", "handshake", "result", "error", "cancelled"}]
    /\ task \in [Conn -> {"none", "new", "waiting", "done", "failed"}]
    /\ cancelling \subseteq Conn
    /\ \A c \in Conn : calls[c] \in Seq({"made", "lost"})
    /\ ready \in Seq([k : Kinds, c : Conn])

InitOpening ==
    /\ sock = [c \in Conn |-> "none"] /\ tr = [c \in Conn |-> "none"]
    /\ reader = {} /\ waiter = [c \in Conn |-> "none"]
    /\ task = [c \in Conn |-> "none"] /\ cancelling = {}
    /\ calls = [c \in Conn |-> <<>>] /\ ready = <<>>

-----------------------------------------------------------------------------
(* Operators that the coroutines are made of.                              *)

\* Seeded fault: a waiter that is passed is not woken.
WithoutWaiter(c, tls) == <<Entry("made", c), Entry("register", c)>>

\* The entries a transport's constructor schedules.
Scheduled(c, tls) ==
    <<Entry("made", c), Entry("register", c)>>
        \o (IF tls THEN <<>> ELSE <<Entry("waiter", c)>>)

\* _make_socket_transport, _make_ssl_transport and _make_datagram_transport,
\* called with the rest q of the queue.
MakeTransport(c, q) ==
    \E tls \in BOOLEAN :
        /\ tr' = [tr EXCEPT ![c] = "open"]
        /\ waiter' = [waiter EXCEPT ![c] = IF tls THEN "handshake" ELSE "pending"]
        /\ task' = [task EXCEPT ![c] = "waiting"]
        /\ ready' = q \o Scheduled(c, tls)
        /\ UNCHANGED <<reader, cancelling, calls>>

\* The protocol factory, or the constructor of the transport, raised.
MakeNothing(c, q) ==
    /\ task' = [task EXCEPT ![c] = "failed"] /\ ready' = q
    /\ UNCHANGED <<tr, reader, waiter, cancelling, calls>>

\* Seeded fault: a second close is not noticed.
EveryClose(c) == tr[c] # "lost"

\* if self._closing: return.
FirstClose(c) == tr[c] = "open"

\* call_soon(self._call_connection_lost).
LostScheduled(c) == <<Entry("lost", c)>>

\* transport.close() and abort().
close(c, q) ==
    /\ tr' = [tr EXCEPT ![c] = IF @ = "open" THEN "closing" ELSE @]
    /\ reader' = reader \ {c}
    /\ ready' = IF FirstClose(c) THEN q \o LostScheduled(c) ELSE q

IsNext(k) == ready # <<>> /\ Head(ready).k = k
First     == Head(ready).c
Rest      == Tail(ready)

-----------------------------------------------------------------------------
(* Steps.                                                                  *)

\* connection_made, in which the protocol may close the transport.
connection_made ==
    /\ IsNext("made")
    /\ calls' = [calls EXCEPT ![First] = Append(@, "made")]
    /\ \/ close(First, Rest)
       \/ ready' = Rest /\ UNCHANGED <<tr, reader>>
    /\ UNCHANGED <<sock, waiter, task, cancelling>>

\* Seeded fault: the reader is registered on a closing transport.
RegistersAlways(c) == TRUE

\* A closing transport does not start to read.
Registers(c) == tr[c] = "open"

\* _add_reader, which duplicates the descriptor and may raise: the transport
\* stays open without a reader.
register_reader ==
    /\ IsNext("register")
    /\ \/ reader' = IF Registers(First) THEN reader \cup {First} ELSE reader
       \/ UNCHANGED reader
    /\ ready' = Rest
    /\ UNCHANGED <<sock, tr, waiter, task, cancelling, calls>>

\* _set_result_unless_cancelled.
set_result ==
    /\ IsNext("waiter")
    /\ IF waiter[First] = "pending"
       THEN /\ waiter' = [waiter EXCEPT ![First] = "result"]
            /\ ready' = Append(Rest, Entry("resume", First))
       ELSE ready' = Rest /\ UNCHANGED waiter
    /\ UNCHANGED <<sock, tr, reader, task, cancelling, calls>>

\* The TLS handshake succeeds, fails or times out.
Handshake(c) ==
    /\ waiter[c] = "handshake" /\ calls[c] # <<>>
    /\ \E end \in {"result", "error"} : waiter' = [waiter EXCEPT ![c] = end]
    /\ ready' = Append(ready, Entry("resume", c))
    /\ UNCHANGED <<sock, tr, reader, task, cancelling, calls>>

\* Seeded fault: a failing opening keeps its transport.
KeepTransport(c, q) == ready' = q /\ UNCHANGED <<tr, reader>>

\* except BaseException: transport.close().
Abandon(c, q) == close(c, q)

\* The coroutine goes on after the waiter.
resume ==
    /\ IsNext("resume")
    /\ IF waiter[First] = "result" /\ First \notin cancelling
       THEN /\ task' = [task EXCEPT ![First] = "done"]
            /\ ready' = Rest /\ UNCHANGED <<tr, reader>>
       ELSE /\ task' = [task EXCEPT ![First] = "failed"]
            /\ Abandon(First, Rest)
    /\ cancelling' = cancelling \ {First}
    /\ waiter' = [waiter EXCEPT ![First] = "none"]
    /\ UNCHANGED <<sock, calls>>

\* The coroutine is cancelled while it awaits the waiter, or when the waiter is
\* done and the coroutine has not gone on yet.
CancelOpening(c) ==
    /\ task[c] = "waiting"
    /\ IF waiter[c] \in {"pending", "handshake"}
       THEN /\ waiter' = [waiter EXCEPT ![c] = "cancelled"]
            /\ ready' = Append(ready, Entry("resume", c))
            /\ UNCHANGED cancelling
       ELSE cancelling' = cancelling \cup {c} /\ UNCHANGED <<waiter, ready>>
    /\ UNCHANGED <<sock, tr, reader, task, calls>>

\* The protocol closes the transport, or the connection breaks.
Hangup(c) ==
    /\ tr[c] = "open" /\ calls[c] # <<>>
    /\ close(c, ready)
    /\ UNCHANGED <<sock, waiter, task, cancelling, calls>>

\* _call_connection_lost: the last call to the protocol, and the socket closes.
connection_lost ==
    /\ IsNext("lost")
    /\ calls' = [calls EXCEPT ![First] = Append(@, "lost")]
    /\ sock' = [sock EXCEPT ![First] = "closed"]
    /\ tr' = [tr EXCEPT ![First] = "lost"]
    /\ ready' = Rest
    /\ UNCHANGED <<reader, waiter, task, cancelling>>

\* The steps the loop takes; connection_lost, which a server hears of, is
\* taken by Connect and Serve.
Callback == connection_made \/ register_reader \/ set_result \/ resume

-----------------------------------------------------------------------------
(* Properties.                                                             *)

\* A protocol hears connection_made once, then connection_lost once, whatever
\* closes the transport while it is being opened.
MadeThenLost ==
    \A c \in Conn : calls[c] \in {<<>>, <<"made">>, <<"made", "lost">>}

\* A reader is registered only for an open socket whose transport, if it has
\* one, is not closing: none survives a close although its registration was
\* scheduled before.
ReaderIsOpen == \A c \in reader : sock[c] = "open" /\ tr[c] \in {"none", "open"}

\* A coroutine that fails or is cancelled after it made a transport leaves it
\* closing or closed: nobody else has a reference to it.
FailedIsClosed ==
    \A c \in Conn : task[c] = "failed" => tr[c] # "open"

=============================================================================
