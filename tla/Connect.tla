------------------------------ MODULE Connect ------------------------------
(***************************************************************************)
(* The coroutines that create an endpoint.  create_connection tries the    *)
(* addresses one after the other, or races them (happy eyeballs);          *)
(* create_datagram_endpoint tries one after the other;                     *)
(* create_unix_connection has one; connect_accepted_socket and a caller    *)
(* with a socket of its own have none.  Then a transport is opened         *)
(* (Opening).  create_server and create_unix_server bind listening sockets.*)
(*                                                                         *)
(* One call is modelled.  Each of its awaits may fail or be cancelled, and *)
(* it holds sockets that nobody else knows of.                             *)
(***************************************************************************)
EXTENDS Opening

CONSTANT MaxErrors    \* bound: failing local addresses of one attempt

ASSUME ConnectConstants == MaxErrors \in Nat

VARIABLES
    kind,     \* which coroutine is called
    call,     \* where it is, or how it ended
    att,      \* the attempt on each address
    errs      \* the errors an attempt recorded

client == <<kind, call, att, errs>>

Sequential == {"connection", "datagram", "unix"}
Racing     == {"eyeballs"}
Binding    == {"server", "unixserver"}
Waiting    == {"connecting", "connected", "refused", "cancelling"}

TypeConnect ==
    /\ kind \in Sequential \cup Racing \cup Binding \cup {"given", "serve"}
    /\ call \in {"resolving", "connecting", "opening", "sleeping",
                 "returned", "oserror", "timeout", "unserved", "other"}
    /\ att \in [Conn -> Waiting \cup {"no", "won", "failed", "odd", "cancelled"}]
    /\ errs \in [Conn -> 0..MaxErrors + 1]

\* A path or a socket is given, and no name.
Nameless == {"unix", "unixserver", "given"}

\* A call whose arguments pass the checks.
InitConnect ==
    /\ call = IF kind \in Nameless THEN "connecting" ELSE "resolving"
    /\ att = [a \in Conn |-> "no"] /\ errs = [a \in Conn |-> 0]

\* The addresses the name resolves to.
Addrs == IF kind \in Nameless THEN {1} ELSE Conn

-----------------------------------------------------------------------------
(* The attempts.                                                           *)

\* _ensure_resolved fails, or gives the addresses.
resolve ==
    /\ call = "resolving"
    /\ call' \in {"connecting", "oserror"}
    /\ UNCHANGED <<opening, kind, att, errs>>

\* _create_connection_transport, and the end of create_datagram_endpoint.  When
\* the protocol factory raises, the socket is dropped, not closed.
OpenTransport(a) ==
    /\ call' = "opening"
    /\ \/ MakeTransport(a, ready) /\ sock' = [sock EXCEPT ![a] = "open"]
       \/ MakeNothing(a, ready) /\ sock' = [sock EXCEPT ![a] = "dropped"]

\* Seeded fault: an attempt that fails keeps its socket.
KeepSocket(s) == s

\* except BaseException: sock.close(), if there is a socket.
Released(s) == IF s = "open" THEN "closed" ELSE s

\* The for loop goes on to the next address after an OSError.
LastAddress(a) == \A b \in Addrs : b <= a

\* except OSError: my_exceptions.append(exc).
Recorded(n) == n + 1

\* An attempt whose socket is in state s ends without a connection.
Lose(a, how, s) ==
    /\ att' = [att EXCEPT ![a] = how]
    /\ sock' = [sock EXCEPT ![a] = Released(s)]
    /\ call' = IF kind \in Racing THEN call
               ELSE IF how # "failed" THEN "other"
               ELSE IF LastAddress(a) THEN "oserror" ELSE call
    /\ UNCHANGED <<tr, reader, waiter, task, cancelling, calls, ready>>

\* It ends with a connection: the call goes on to the transport, or the race
\* (staggered_race) cancels the other attempts.
Win(a) ==
    IF kind \in Racing
    THEN /\ att' = [b \in Conn |-> IF b = a THEN "won"
                                   ELSE IF att[b] \in Waiting THEN "cancelling" ELSE att[b]]
         /\ sock' = [sock EXCEPT ![a] = "open"]
         /\ UNCHANGED <<call, tr, reader, waiter, task, cancelling, calls, ready>>
    ELSE att' = [att EXCEPT ![a] = "won"] /\ OpenTransport(a)

\* One after the other; the race starts the next one when the one before has
\* failed or after a delay.
MayStart(a) ==
    /\ call = "connecting" /\ a \in Addrs /\ att[a] = "no"
    /\ \/ kind \in Sequential /\ \A b \in 1..a - 1 : att[b] = "failed"
       \/ kind \in Racing /\ \A b \in 1..a - 1 : att[b] \notin {"no", "won"}

\* The socket is made; e errors are recorded already.  The connection is made,
\* refused, fails with something else than an OSError, or is pending.
Try(a, e) ==
    \/ errs' = [errs EXCEPT ![a] = e] /\ Win(a)
    \/ errs' = [errs EXCEPT ![a] = Recorded(e)] /\ Lose(a, "failed", "open")
    \/ errs' = [errs EXCEPT ![a] = e] /\ Lose(a, "odd", "open")
    \/ /\ errs' = [errs EXCEPT ![a] = e]
       /\ att' = [att EXCEPT ![a] = "connecting"]
       /\ sock' = [sock EXCEPT ![a] = "open"]
       /\ UNCHANGED <<call, tr, reader, waiter, task, cancelling, calls, ready>>

NoSocket(a) == errs' = [errs EXCEPT ![a] = Recorded(0)] /\ Lose(a, "failed", "none")

\* _connect_sock up to its first await: socket() fails, every local address
\* fails (the last error is taken out and recorded again), or one is bound
\* after e of them failed.
connect_sock(a) ==
    /\ kind \in {"connection"} \cup Racing /\ MayStart(a) /\ UNCHANGED kind
    /\ \/ NoSocket(a)
       \/ \E e \in 1..MaxErrors :
              errs' = [errs EXCEPT ![a] = e] /\ Lose(a, "failed", "open")
       \/ \E e \in 0..MaxErrors : Try(a, e)

\* One socket per (family, protocol) pair.
create_datagram_endpoint(a) ==
    /\ kind = "datagram" /\ MayStart(a) /\ UNCHANGED kind
    /\ NoSocket(a) \/ Try(a, 0)

create_unix_connection(a) ==
    /\ kind = "unix" /\ MayStart(a) /\ UNCHANGED kind
    /\ NoSocket(a) \/ Try(a, 0)

\* The kernel ends the attempt and the future of sock_connect (SockOps) is done.
Settle(a) ==
    /\ att[a] = "connecting"
    /\ att' \in {[att EXCEPT ![a] = r] : r \in {"connected", "refused"}}
    /\ UNCHANGED <<opening, kind, call, errs>>

\* _connect_sock goes on after its await.  A cancelled one closes its socket
\* even if the connection was made meanwhile.
connect_wakeup(a) ==
    /\ UNCHANGED kind
    /\ \/ att[a] = "connected" /\ Win(a) /\ UNCHANGED errs
       \/ att[a] = "refused" /\ Lose(a, "failed", "open")
          /\ errs' = [errs EXCEPT ![a] = Recorded(@)]
       \/ att[a] = "cancelling" /\ Lose(a, "cancelled", "open") /\ UNCHANGED errs

\* The race is over when no attempt runs any more.
race_over ==
    /\ kind \in Racing /\ call = "connecting"
    /\ \A a \in Addrs : att[a] \notin Waiting
    /\ \/ \E a \in Addrs : att[a] = "won" /\ OpenTransport(a)
       \/ /\ \A a \in Addrs : att[a] \in {"failed", "odd"}
          /\ call' = IF \A a \in Addrs : errs[a] = 0 THEN "timeout" ELSE "oserror"
          /\ UNCHANGED opening
    /\ UNCHANGED <<kind, att, errs>>

\* connect_accepted_socket, or a call with sock=.
use_given ==
    /\ kind = "given" /\ call = "connecting" /\ OpenTransport(1)
    /\ UNCHANGED <<kind, att, errs>>

\* The caller is cancelled while it awaits the addresses, an attempt, the race,
\* or the step after _start_serving.
cancel_call ==
    /\ call \in {"resolving", "connecting", "sleeping"}
    /\ att' = [a \in Conn |-> IF att[a] \in Waiting THEN "cancelling" ELSE att[a]]
    /\ sock' = [a \in Conn |-> IF att[a] = "won" THEN "dropped" ELSE sock[a]]
    /\ \/ kind \in Sequential /\ call = "connecting"
          /\ (\E a \in Conn : att[a] \in Waiting) /\ UNCHANGED call
       \/ kind \in Racing /\ call = "connecting"
          /\ (\E a \in Conn : att[a] # "no") /\ call' = "other"
       \/ call # "connecting" /\ call' = "other"
    /\ UNCHANGED <<tr, reader, waiter, task, cancelling, calls, ready, kind, errs>>

-----------------------------------------------------------------------------
(* Servers.                                                                *)

\* finally: not completed, so every socket is closed.
Unbound(how) == IF how = "nosocket" THEN "none" ELSE "closed"

\* Somebody keeps the bound sockets: the caller has the server, a reader's
\* arguments hold it and with it all its sockets, or _unix_server_sockets lists
\* the one there is.
Kept(start, served, listed) ==
    ~start \/ served # {} \/ (kind = "unixserver" /\ listed)

\* The bound sockets are not started, all serve, or listen() or the reader of
\* the n-th one fails and those before it serve.
ServeOn(bound, rest) ==
    \E start \in BOOLEAN, n \in 1..N + 1, listed \in BOOLEAN :
        LET served == {a \in bound : start /\ a < n} IN
        /\ reader' = served
        /\ sock' = [a \in Conn |-> IF a \notin bound THEN rest[a]
                                  ELSE IF Kept(start, served, listed) THEN "open"
                                  ELSE "dropped"]
        /\ call' = IF ~start THEN "returned"
                   ELSE IF served = bound THEN "sleeping" ELSE "unserved"

\* An address without a socket or that is not available is skipped, any other
\* failure ends the call.  Nothing is awaited from the first bind to the start
\* of serving.
Bind ==
    /\ call = "connecting"
    /\ \E how \in [Addrs -> {"ok", "nosocket", "unavailable", "inuse"}] :
       LET bound == {a \in Addrs : how[a] = "ok"}
           rest  == [a \in Conn |-> IF a \in Addrs THEN Unbound(how[a]) ELSE "none"] IN
       IF bound = {} \/ \E a \in Addrs : how[a] = "inuse"
       THEN call' = "oserror" /\ sock' = rest /\ UNCHANGED reader
       ELSE ServeOn(bound, rest)
    /\ UNCHANGED <<tr, waiter, task, cancelling, calls, ready, kind, att, errs>>

create_server == kind = "server" /\ Bind

\* One path; whatever bind() raises, the socket is closed.
create_unix_server == kind = "unixserver" /\ Bind

\* await sleep(0) returns.
server_returned ==
    /\ call = "sleeping" /\ call' = "returned"
    /\ UNCHANGED <<opening, kind, att, errs>>

Attempt(a) == \/ connect_sock(a) \/ create_datagram_endpoint(a)
              \/ create_unix_connection(a) \/ connect_wakeup(a)
CallStep == \/ resolve \/ race_over \/ use_given
            \/ create_server \/ create_unix_server \/ server_returned
ClientCallback == (Callback \/ connection_lost) /\ UNCHANGED client

ConnectNext ==
    \/ \E a \in Conn :
        \/ Attempt(a) \/ Settle(a)
        \/ (Handshake(a) \/ CancelOpening(a) \/ Hangup(a)) /\ UNCHANGED client
    \/ CallStep \/ cancel_call \/ ClientCallback

\* What goes on by itself: the loop runs its callbacks; a name is resolved, a
\* connection attempt and a handshake end, with success or without.  There are
\* finitely many such steps.
ConnectProgress ==
    \/ CallStep \/ ClientCallback
    \/ \E a \in Conn : Attempt(a) \/ Settle(a) \/ (Handshake(a) /\ UNCHANGED client)

-----------------------------------------------------------------------------
(* Properties.                                                             *)

\* The call is over, and so are the attempts it cancelled.
Over ==
    /\ call \notin {"resolving", "connecting", "sleeping"}
    /\ \A a \in Conn : att[a] \notin Waiting /\ task[a] # "waiting"

\* When a call is over, every socket it made is closed or belongs to the one
\* transport it made, whichever attempt failed, lost the race or was cancelled.
\* A socket is dropped, and left to its finaliser, only when the protocol
\* factory raised or a race was cancelled that had a winner already.  A server
\* that could not be bound leaves none behind, although others of its addresses
\* were bound before.  When listen() fails, a socket stays open only if one
\* serves already, whose reader keeps the server and all its sockets, or if the
\* loop lists it for the removal of its path.
SocketsAccounted ==
    /\ kind \notin Binding /\ Over =>
        /\ Cardinality({a \in Conn : tr[a] # "none"}) <= 1
        /\ \A a \in Conn : sock[a] = "open" => tr[a] \in {"open", "closing"}
        /\ \A a \in Conn : sock[a] = "dropped" =>
               task[a] = "failed" \/ kind \in Racing
    /\ kind \in Binding =>
        /\ call = "oserror" => \A a \in Conn : sock[a] # "open"
        /\ call = "unserved" /\ reader = {} /\ kind = "server" =>
               \A a \in Conn : sock[a] # "open"

\* The call ends.
CallEnds == kind # "serve" ~> Over

=============================================================================
