-------------------------- MODULE EndpointsProofs --------------------------
(***************************************************************************)
(* What a closed server promises, and what an opening and a call that      *)
(* connects leave behind, for any number of connections, any backlog and   *)
(* any number of descriptors and retry timers.                             *)
(***************************************************************************)
EXTENDS OpeningProofs, FiniteSetTheorems, WellFoundedInduction

\* Only a process that serves has transports of a server.
ServerKind ==
    /\ kind # "serve" => listening /\ wait = "no"
    /\ kind = "serve" => tr \in [Conn -> {"none", "open", "closing", "lost"}]

\* Every transport that is not lost is attached, so that the server's count
\* stands for all of them; and what woke wait_closed stays true, because a
\* closed server attaches nothing.
Attached ==
    kind = "serve" =>
        /\ \A c \in Conn : tr[c] \in Live => c \in clients
        /\ wait = "returned" => ~listening /\ clients = {}

\* The inductive invariant of the server.
ServerInv == ServerKind /\ Attached /\ ClosedStaysClosed

\* A process starts with an open server that nobody waits for.
LEMMA ServerInit == Init => ServerInv
    BY DEF Init, InitOpening, InitServe, ServerInv, ServerKind, Attached,
           ClosedStaysClosed, Live

\* What the steps of Opening do to the transports.
LEMMA OpeningKeeps ==
    ASSUME ServerKind, kind = "serve", NEW c \in Conn,
           Callback \/ CancelOpening(c) \/ Hangup(c) \/ Handshake(c)
    PROVE  /\ tr' \in [Conn -> {"none", "open", "closing", "lost"}]
           /\ \A d \in Conn : tr'[d] \in Live => tr[d] \in Live
<1> USE DEF ServerKind, Live
<1>1. ASSUME NEW d, NEW q, close(d, q)
      PROVE  /\ tr' \in [Conn -> {"none", "open", "closing", "lost"}]
             /\ \A e \in Conn : tr'[e] \in Live => tr[e] \in Live
    BY <1>1, Zenon DEF close
<1>2. CASE Callback
    BY <1>1, <1>2 DEF Callback, connection_made, register_reader, set_result, resume, Abandon
<1>3. CASE CancelOpening(c) \/ Hangup(c) \/ Handshake(c)
    BY <1>1, <1>3 DEF CancelOpening, Hangup, Handshake
<1> QED BY <1>2, <1>3

\* Every step of the server preserves the invariant.
LEMMA ServeStep ==
    ASSUME ServerInv, kind = "serve", ServeNext, UNCHANGED client PROVE ServerInv'
<1> USE DEF ServerInv
<1>1. kind' = "serve" /\ tr \in [Conn -> {"none", "open", "closing", "lost"}]
    BY DEF client, ServerKind
<1>2. ASSUME NEW c \in Conn, Callback \/ CancelOpening(c) \/ Hangup(c) \/ Handshake(c),
             UNCHANGED server
      PROVE  ServerInv'
    <2>1. UNCHANGED <<listening, accepting, clients, wait>>
        BY <1>2 DEF server
    <2> QED BY <1>1, <1>2, <2>1, OpeningKeeps
            DEF ServerKind, Attached, ClosedStaysClosed
<1>3. CASE \E c \in Conn : Arrive(c) \/ GiveUp(c) \/ CancelNew(c)
    BY <1>1, <1>3 DEF Arrive, GiveUp, CancelNew, opening, server, ServerKind, Attached,
       ClosedStaysClosed
<1>4. CASE accept_connection
    <2>1. UNCHANGED <<tr, listening, clients, wait>> /\ listening
        BY <1>4 DEF accept_connection, ClosedStaysClosed
    <2> QED BY <1>1, <2>1 DEF ServerKind, Attached, ClosedStaysClosed
<1>5. CASE start_serving
    <2>1. UNCHANGED <<tr, listening, clients, wait>> /\ (accepting' => accepting \/ listening)
        BY <1>5, Zenon DEF start_serving, opening, HasDescriptor
    <2> QED BY <1>1, <2>1, Zenon DEF ServerKind, Attached, ClosedStaysClosed
<1>6. CASE close_server
    BY <1>1, <1>6 DEF close_server, Woken, ServerKind, Attached, ClosedStaysClosed
<1>7. CASE wait_closed
    BY <1>1, <1>7 DEF wait_closed, opening, ServerKind, Attached, ClosedStaysClosed
<1>8. CASE detach
    <2>1. /\ tr' = [tr EXCEPT ![First] = "lost"] /\ clients' = clients \ {First}
          /\ UNCHANGED <<listening, accepting>>
          /\ wait' = wait \/ (~listening /\ clients' = {})
        BY <1>8 DEF detach, connection_lost, Woken
    <2>2. tr' \in [Conn -> {"none", "open", "closing", "lost"}]
        BY <1>1, <2>1, Zenon
    <2>3. \A c \in Conn : tr'[c] \in Live => c \in clients'
        BY <1>1, <2>1 DEF Attached, Live
    <2> QED BY <1>1, <2>1, <2>2, <2>3 DEF ServerKind, Attached, ClosedStaysClosed
<1>9. CASE accept_step
    <2>1. CASE tr' = tr /\ clients' = clients
        BY <1>1, <1>9, <2>1 DEF accept_step, ServerKind, Attached, ClosedStaysClosed
    <2>2. CASE ~(tr' = tr /\ clients' = clients)
        <3>1. /\ listening /\ tr' = [tr EXCEPT ![First] = "open"]
              /\ clients' = clients \cup {First}
              /\ UNCHANGED <<listening, accepting, wait>>
            BY <1>9, <2>2 DEF accept_step, Attachable, MakeTransport
        <3> QED BY <1>1, <3>1, Zenon DEF ServerKind, Attached, ClosedStaysClosed, Live
    <2> QED BY <2>1, <2>2
<1>10. CASE Callback /\ UNCHANGED server
    BY <1>2, <1>10, OpeningConstants DEF Conn
<1>11. CASE \E c \in Conn : (CancelOpening(c) \/ Hangup(c) \/ Handshake(c)) /\ UNCHANGED server
    BY <1>2, <1>11
<1> QED BY <1>3, <1>4, <1>5, <1>6, <1>7, <1>8, <1>9, <1>10, <1>11
        DEF ServeNext, ServeCallback

\* Every step of the process does.
LEMMA ServerStep == ServerInv /\ [Next]_vars => ServerInv'
<1> SUFFICES ASSUME ServerInv, [Next]_vars PROVE ServerInv'
    OBVIOUS
<1>1. CASE kind = "serve" /\ ServeNext /\ UNCHANGED client
    BY <1>1, ServeStep
<1>2. CASE kind # "serve" /\ ConnectNext /\ UNCHANGED server
    <2>1. UNCHANGED <<kind, listening, accepting, wait>>
        <3>1. UNCHANGED <<listening, accepting, wait>>
            BY <1>2, Zenon DEF server
        <3>2. UNCHANGED kind
            BY <1>2 DEF ConnectNext, Attempt, CallStep, ClientCallback, client,
               connect_sock, create_datagram_endpoint, create_unix_connection,
               connect_wakeup, Settle, resolve, race_over, use_given, create_server,
               create_unix_server, Bind, server_returned, cancel_call
        <3> QED BY <3>1, <3>2
    <2> QED BY <1>2, <2>1 DEF ServerInv, ServerKind, Attached, ClosedStaysClosed
<1>3. CASE UNCHANGED vars
    BY <1>3 DEF vars, opening, client, server, ServerInv, ServerKind, Attached,
       ClosedStaysClosed
<1> QED BY <1>1, <1>2, <1>3 DEF Next

\* The invariant of the server.
THEOREM ServerInvariant == Spec => []ServerInv
<1>1. Init => ServerInv
    BY ServerInit
<1>2. ServerInv /\ [Next]_vars => ServerInv'
    BY ServerStep
<1> QED BY <1>1, <1>2, PTL DEF Spec

\* wait_closed returns only when the server is closed and all its transports
\* are lost, and no task of _accept_connection2 opens another one later.
THEOREM NoneAfterWait == Spec => []WaitedOut
<1>1. ServerInv => WaitedOut
    BY DEF ServerInv, ServerKind, Attached, WaitedOut, Live
<1> QED BY <1>1, ServerInvariant, PTL

\* No retry timer of _start_serving makes a closed server accept again.
THEOREM NoneAfterClose == Spec => []ClosedStaysClosed
<1>1. ServerInv => ClosedStaysClosed
    BY DEF ServerInv
<1> QED BY <1>1, ServerInvariant, PTL

-----------------------------------------------------------------------------
(* The calls of Connect, for any number of addresses.                       *)

Running == {"connecting", "connected", "refused"}

\* The attempts of a call.
Attempts ==
    kind # "serve" =>
        /\ \A a, b \in Conn : b < a /\ att[a] # "no" => att[b] # "no"
        /\ kind \in Binding \cup {"given"} => \A a \in Conn : att[a] = "no"
        /\ call # "connecting" => \A a \in Conn : att[a] \notin Running
        /\ kind \in Sequential => \A a, b \in Conn :
               a # b /\ att[a] \notin {"no", "failed"} => att[b] \in {"no", "failed"}
        /\ kind \in Sequential => \A a \in Conn : att[a] = "won" => call = "opening"
        /\ kind \in Racing => \A a, b \in Conn :
               a # b /\ att[a] = "won" => att[b] \notin Running \cup {"won"}

\* The one attempt that has a transport, and what the sockets are of.
Sockets ==
    /\ kind = "serve" => call = "resolving"
    /\ kind # "serve" => \A a \in Conn :
           /\ task[a] # "new"
           /\ tr[a] # "none" \/ task[a] # "none" =>
                  call = "opening" /\ (att[a] = "won" \/ (kind = "given" /\ a = 1))
    /\ kind \notin Binding \cup {"serve"} => \A a \in Conn :
           /\ sock[a] = "open" =>
                  \/ att[a] \in Waiting \/ tr[a] \in Live
                  \/ kind \in Racing /\ att[a] = "won" /\ call = "connecting"
           /\ sock[a] = "dropped" => task[a] = "failed" \/ kind \in Racing

\* A server is bound in one step; when it does not serve, only a reader or the
\* list of the unix sockets keeps a socket open.
Bound ==
    kind \in Binding =>
        /\ call # "opening"
        /\ call \in {"resolving", "connecting"} => \A a \in Conn : sock[a] = "none"
        /\ call = "oserror" => \A a \in Conn : sock[a] # "open"
        /\ call = "unserved" /\ reader = {} /\ kind = "server" =>
               \A a \in Conn : sock[a] # "open"

\* The kernel's queue: connections that are not accepted have no task yet.
Waits ==
    kind = "serve" =>
        /\ limit \in Nat /\ backlog \in Seq(Conn) /\ Distinct(backlog)
        /\ \A c \in Within(backlog) : sock[c] = "backlog"
        /\ \A c \in Conn : /\ sock[c] \in {"none", "backlog"} => tr[c] = "none" /\ task[c] = "none"
                           /\ task[c] = "new" => sock[c] = "open"

CallType ==
    /\ kind \in Sequential \cup Racing \cup Binding \cup {"given", "serve"}
    /\ att \in [Conn -> Waiting \cup {"no", "won", "failed", "odd", "cancelled"}]

CallInv == CallType /\ Attempts /\ Sockets /\ Bound

EndpointsInv == OpeningInv /\ CallInv /\ Waits

ConnectInv == OpeningInv /\ CallInv /\ kind # "serve"

\* An attempt that may take a step: it starts, or its await has ended.
Acting(a) ==
    /\ kind \in Sequential \cup Racing
    /\ MayStart(a) \/ att[a] \in {"connected", "refused", "cancelling"}

\* Its socket has no transport and no reader.
LEMMA ActingAlone ==
    ASSUME ConnectInv, NEW a \in Conn, Acting(a)
    PROVE  /\ tr[a] = "none" /\ task[a] = "none" /\ a \notin reader
           /\ att[a] \in {"no", "connected", "refused", "cancelling"}
           /\ \A b \in Conn : b < a => att[b] # "no"
           /\ kind \in Sequential => \A b \in Conn : b # a => att[b] \in {"no", "failed"}
           /\ kind \in Racing /\ att[a] # "cancelling" => \A b \in Conn : att[b] # "won"
<1> USE DEF ConnectInv, CallInv, Conn, Sequential, Racing, Binding
<1>1. att[a] \in {"no", "connected", "refused", "cancelling"}
    BY DEF Acting, MayStart
<1>2. tr[a] = "none" /\ task[a] = "none" /\ a \notin reader
    BY <1>1 DEF Sockets, OpeningInv, Owned, Acting
<1>3. \A b \in Conn : b < a => att[b] # "no"
    <2>1. CASE att[a] = "no"
        BY <2>1 DEF Acting, MayStart
    <2>2. CASE att[a] # "no"
        BY <2>2 DEF Attempts
    <2> QED BY <2>1, <2>2
<1>4. ASSUME kind \in Sequential, NEW b \in Conn, b # a PROVE att[b] \in {"no", "failed"}
    <2>1. CASE att[a] # "no"
        BY <1>1, <1>4, <2>1 DEF Attempts
    <2>2. CASE att[a] = "no" /\ b < a
        BY <1>4, <2>2 DEF Acting, MayStart
    <2>3. CASE att[a] = "no" /\ a < b
        BY <2>3 DEF Attempts
    <2> QED BY <1>4, <2>1, <2>2, <2>3, OpeningConstants
<1>5. ASSUME kind \in Racing, att[a] # "cancelling", NEW b \in Conn, att[b] = "won" PROVE FALSE
    <2>1. CASE att[a] \in {"connected", "refused"}
        BY <1>5, <2>1 DEF Attempts, Running
    <2>2. CASE att[a] = "no" /\ b < a
        BY <1>5, <2>2 DEF Acting, MayStart
    <2>3. CASE att[a] = "no" /\ a < b
        BY <1>5, <2>3 DEF Attempts
    <2> QED BY <1>1, <1>5, <2>1, <2>2, <2>3, OpeningConstants
<1> QED BY <1>1, <1>2, <1>3, <1>4, <1>5

\* An attempt that ends without a connection closes its socket.
LEMMA LoseKeeps ==
    ASSUME ConnectInv, kind' = kind, NEW a \in Conn, Acting(a),
           NEW how \in {"failed", "odd", "cancelled"}, NEW s \in {"open", "none"},
           Lose(a, how, s)
    PROVE  ConnectInv'
<1> USE DEF ConnectInv, CallInv
<1>1. /\ att' = [att EXCEPT ![a] = how] /\ sock' = [sock EXCEPT ![a] = Released(s)]
      /\ call' = call \/ (kind \in Sequential /\ call' \in {"other", "oserror"})
      /\ UNCHANGED <<tr, reader, waiter, task, cancelling, calls, ready>>
    BY DEF Lose, Acting
<1>2. /\ tr[a] = "none" /\ task[a] = "none" /\ a \notin reader
      /\ att[a] \in {"no", "connected", "refused", "cancelling"}
      /\ \A b \in Conn : b < a => att[b] # "no"
      /\ kind \in Sequential => \A b \in Conn : b # a => att[b] \in {"no", "failed"}
    BY ActingAlone
<1>3. Released(s) \in {"none", "closed"}
    BY DEF Released
<1>4. /\ sock' \in [Conn -> SockState] /\ sock'[a] \in {"none", "closed"}
      /\ \A b \in Conn \ {a} : sock'[b] = sock[b]
      /\ att'[a] = how /\ (\A b \in Conn \ {a} : att'[b] = att[b])
    BY <1>1, <1>3 DEF OpeningInv, TypeOpening, SockState, CallType
<1>5. OpeningInv'
    <2>1. /\ cancelling' \subseteq Conn
          /\ task' \in [Conn -> {"none", "new", "waiting", "done", "failed"}]
        BY <1>1 DEF OpeningInv, TypeOpening
    <2> QED BY <1>1, <1>2, <1>4, <2>1, NoTransport, Zenon DEF Live
<1>6. CallType'
    BY <1>1 DEF CallType
<1>7. Attempts'
    BY <1>1, <1>2, <1>4 DEF Attempts, Acting, Running, Sequential, Racing, Binding, Conn
<1>8. Sockets'
    BY <1>1, <1>2, <1>4 DEF Sockets, Acting, Attempts, Waiting, Sequential, Racing, Binding, Live
<1>9. Bound'
    BY DEF Bound, Acting, Sequential, Racing, Binding
<1> QED BY <1>5, <1>6, <1>7, <1>8, <1>9

\* The attempt is under way.
LEMMA PendingKeeps ==
    ASSUME ConnectInv, kind' = kind, NEW a \in Conn, Acting(a), MayStart(a),
           att' = [att EXCEPT ![a] = "connecting"], sock' = [sock EXCEPT ![a] = "open"],
           UNCHANGED <<call, tr, reader, waiter, task, cancelling, calls, ready>>
    PROVE  ConnectInv'
<1> USE DEF ConnectInv, CallInv
<1>1. /\ tr[a] = "none" /\ task[a] = "none" /\ a \notin reader /\ call = "connecting"
      /\ \A b \in Conn : b < a => att[b] # "no"
      /\ kind \in Sequential => \A b \in Conn : b # a => att[b] \in {"no", "failed"}
      /\ kind \in Racing => \A b \in Conn : att[b] # "won"
    BY ActingAlone DEF MayStart
<1>2. /\ sock' \in [Conn -> SockState] /\ sock'[a] = "open"
      /\ \A b \in Conn \ {a} : sock'[b] = sock[b]
      /\ att'[a] = "connecting" /\ (\A b \in Conn \ {a} : att'[b] = att[b])
    BY DEF OpeningInv, TypeOpening, SockState, CallType
<1>3. OpeningInv'
    <2>1. /\ cancelling' \subseteq Conn
          /\ task' \in [Conn -> {"none", "new", "waiting", "done", "failed"}]
        BY DEF OpeningInv, TypeOpening
    <2> QED BY <1>1, <1>2, <2>1, NoTransport DEF Live
<1>4. CallType'
    BY DEF CallType, Waiting
<1>5. Attempts'
    BY <1>1, <1>2 DEF Attempts, Acting, Running, Sequential, Racing, Binding, Conn
<1>6. Sockets'
    BY <1>1, <1>2 DEF Sockets, Acting, Attempts, Waiting, Sequential, Racing, Binding, Live
<1>7. Bound'
    BY DEF Bound, Acting, Sequential, Racing, Binding
<1> QED BY <1>3, <1>4, <1>5, <1>6, <1>7, Zenon

\* The call goes on to the transport of the socket it has chosen.
LEMMA OpenKeeps ==
    ASSUME ConnectInv, kind' = kind, NEW a \in Conn, OpenTransport(a), call = "connecting",
           kind \in Sequential \cup Racing \cup {"given"}, CallType',
           \A b \in Conn \ {a} : att'[b] = att[b],
           IF kind = "given" THEN a = 1 /\ att'[a] = "no" ELSE att'[a] = "won",
           \A b \in Conn : b < a => kind = "given" \/ att[b] # "no",
           \A b \in Conn \ {a} : att[b] \notin Running \cup {"won"},
           kind \in Sequential => \A b \in Conn \ {a} : att[b] \in {"no", "failed"}
    PROVE  ConnectInv'
<1> USE DEF ConnectInv, CallInv
<1>1. /\ call' = "opening" /\ \A b \in Conn : tr[b] = "none" /\ task[b] = "none"
    BY DEF OpenTransport, Sockets
<1>2. CASE MakeTransport(a, ready) /\ sock' = [sock EXCEPT ![a] = "open"]
    <2>1. Orderly(ready) /\ Entry("step", a) \notin Within(ready)
        BY <1>1, Zenon DEF OpeningInv, QueueTells, Queued
    <2>2. OpeningInv'
        BY <1>1, <1>2, <2>1, MakeKeeps, Zenon DEF Queued
    <2>3. /\ tr'[a] = "open" /\ task'[a] = "waiting" /\ sock'[a] = "open"
          /\ \A b \in Conn \ {a} : tr'[b] = "none" /\ task'[b] = "none" /\ sock'[b] = sock[b]
        BY <1>1, <1>2 DEF MakeTransport, OpeningInv, TypeOpening
    <2>4. Sockets' /\ Bound'
        BY <1>1, <2>3 DEF Sockets, Bound, Live, Sequential, Racing, Binding
    <2>5. Attempts'
        BY <1>1 DEF Attempts, Running, Sequential, Racing, Binding, Conn
    <2> QED BY <2>2, <2>4, <2>5
<1>3. CASE MakeNothing(a, ready) /\ sock' = [sock EXCEPT ![a] = "dropped"]
    <2>1. /\ task'[a] = "failed" /\ sock'[a] = "dropped" /\ UNCHANGED <<tr, reader, waiter, calls, ready>>
          /\ \A b \in Conn \ {a} : task'[b] = "none" /\ sock'[b] = sock[b]
          /\ sock' \in [Conn -> SockState] /\ cancelling' \subseteq Conn
          /\ task' \in [Conn -> {"none", "new", "waiting", "done", "failed"}]
        BY <1>1, <1>3 DEF MakeNothing, OpeningInv, TypeOpening, SockState
    <2>2. a \notin reader
        BY <1>1 DEF OpeningInv, Owned, Sequential, Racing, Binding
    <2>3. OpeningInv'
        BY <1>1, <2>1, <2>2, NoTransport, Zenon DEF Live
    <2>4. Sockets' /\ Bound'
        BY <1>1, <2>1 DEF Sockets, Bound, Live, Sequential, Racing, Binding
    <2>5. Attempts'
        BY <1>1 DEF Attempts, Running, Sequential, Racing, Binding, Conn
    <2> QED BY <2>3, <2>4, <2>5
<1> QED BY <1>2, <1>3 DEF OpenTransport

\* An attempt that ends with a connection; a race cancels the others.
LEMMA WinKeeps ==
    ASSUME ConnectInv, kind' = kind, NEW a \in Conn, Acting(a), att[a] # "cancelling", Win(a)
    PROVE  ConnectInv'
<1> USE DEF ConnectInv, CallInv
<1>0. call = "connecting"
    BY DEF Acting, MayStart, Attempts, Running
<1>1. /\ tr[a] = "none" /\ task[a] = "none" /\ a \notin reader
      /\ \A b \in Conn : b < a => att[b] # "no"
      /\ kind \in Sequential => \A b \in Conn : b # a => att[b] \in {"no", "failed"}
      /\ kind \in Racing => \A b \in Conn : att[b] # "won"
    BY ActingAlone
<1>2. CASE kind \notin Racing
    <2>1. att' = [att EXCEPT ![a] = "won"] /\ OpenTransport(a) /\ kind \in Sequential
        BY <1>2 DEF Win, Acting
    <2>2. CallType'
        BY <2>1 DEF CallType
    <2>3. att'[a] = "won" /\ (\A b \in Conn \ {a} : att'[b] = att[b])
        BY <2>1 DEF CallType
    <2> QED BY <1>0, <1>1, <2>1, <2>2, <2>3, OpenKeeps, Zenon DEF Running, Sequential
<1>3. CASE kind \in Racing
    <2>1. /\ att' = [b \in Conn |-> IF b = a THEN "won"
                                    ELSE IF att[b] \in Waiting THEN "cancelling" ELSE att[b]]
          /\ sock' = [sock EXCEPT ![a] = "open"]
          /\ UNCHANGED <<call, tr, reader, waiter, task, cancelling, calls, ready>>
        BY <1>3 DEF Win
    <2>2. /\ sock' \in [Conn -> SockState] /\ sock'[a] = "open"
          /\ \A b \in Conn \ {a} : sock'[b] = sock[b]
        BY <2>1 DEF OpeningInv, TypeOpening, SockState
    <2>3. /\ att'[a] = "won" /\ CallType'
          /\ \A b \in Conn \ {a} : att'[b] = IF att[b] \in Waiting THEN "cancelling" ELSE att[b]
        BY <2>1 DEF CallType, Waiting
    <2>4. OpeningInv'
        <3>1. /\ cancelling' \subseteq Conn
              /\ task' \in [Conn -> {"none", "new", "waiting", "done", "failed"}]
            BY <2>1, Zenon DEF OpeningInv, TypeOpening
        <3> QED BY <1>1, <2>1, <2>2, <3>1, NoTransport DEF Live
    <2>5. Attempts'
        BY <1>0, <1>1, <1>3, <2>1, <2>3
           DEF Attempts, Waiting, Running, Sequential, Racing, Binding, Conn
    <2>6. Sockets' /\ Bound'
        BY <1>0, <1>1, <1>3, <2>1, <2>2, <2>3
           DEF Sockets, Bound, Waiting, Sequential, Racing, Binding, Live
    <2> QED BY <2>3, <2>4, <2>5, <2>6
<1> QED BY <1>2, <1>3

\* A step of an attempt to connect.
LEMMA AttemptKeeps ==
    ASSUME ConnectInv, NEW a \in Conn, Attempt(a) PROVE ConnectInv'
<1>1. ASSUME NEW e, Try(a, e), MayStart(a), kind' = kind, kind \in Sequential \cup Racing
      PROVE  ConnectInv'
    <2>1. Acting(a) /\ att[a] # "cancelling"
        BY <1>1 DEF Acting, MayStart
    <2> QED BY <1>1, <2>1, WinKeeps, LoseKeeps, PendingKeeps, Zenon DEF Try
<1>2. ASSUME NoSocket(a), MayStart(a), kind' = kind, kind \in Sequential \cup Racing
      PROVE  ConnectInv'
    BY <1>2, LoseKeeps DEF NoSocket, Acting
<1>3. CASE connect_sock(a)
    <2>1. kind' = kind /\ MayStart(a) /\ kind \in Sequential \cup Racing
        BY <1>3 DEF connect_sock, Sequential
    <2>2. CASE \E e \in 1..MaxErrors : errs' = [errs EXCEPT ![a] = e] /\ Lose(a, "failed", "open")
        BY <2>1, <2>2, LoseKeeps DEF Acting
    <2> QED BY <1>1, <1>2, <1>3, <2>1, <2>2, Zenon DEF connect_sock
<1>4. CASE create_datagram_endpoint(a) \/ create_unix_connection(a)
    BY <1>1, <1>2, <1>4 DEF create_datagram_endpoint, create_unix_connection, Sequential
<1>5. CASE connect_wakeup(a)
    <2>1. kind' = kind /\ att[a] \in {"connected", "refused", "cancelling"}
        BY <1>5 DEF connect_wakeup
    <2>2. Acting(a)
        BY <2>1 DEF Acting, ConnectInv, CallInv, CallType, Attempts
    <2> QED BY <1>5, <2>1, <2>2, WinKeeps, LoseKeeps, Zenon DEF connect_wakeup
<1> QED BY <1>3, <1>4, <1>5, Zenon DEF Attempt

\* An attempt to connect succeeds or fails.
LEMMA SettleKeeps ==
    ASSUME ConnectInv, NEW a \in Conn, Settle(a) PROVE ConnectInv'
<1> USE DEF ConnectInv, CallInv
<1>1. PICK r \in {"connected", "refused"} : att' = [att EXCEPT ![a] = r]
    BY DEF Settle
<1>2. att[a] = "connecting" /\ UNCHANGED <<opening, kind, call>>
    BY DEF Settle
<1>3. att'[a] = r /\ (\A b \in Conn \ {a} : att'[b] = att[b]) /\ CallType'
    BY <1>1, <1>2 DEF CallType, Waiting
<1>4. OpeningInv'
    BY <1>2, Zenon DEF opening, OpeningInv, TypeOpening, QueueTells, Queued, Told, Owned
<1>5. Attempts'
    BY <1>2, <1>3 DEF Attempts, Running, Sequential, Racing, Binding, Conn
<1>6. Sockets' /\ Bound'
    BY <1>2, <1>3 DEF opening, Sockets, Bound, Waiting
<1> QED BY <1>2, <1>3, <1>4, <1>5, <1>6

\* Steps of the transport that was opened.
LEMMA ClientKeeps ==
    ASSUME ConnectInv, OpeningStep, UNCHANGED client PROVE ConnectInv'
<1> USE DEF ConnectInv, CallInv
<1>1. UNCHANGED <<kind, call, att>>
    BY DEF client
<1>2. OpeningInv' /\ Moves
    BY <1>1, OpeningStepKeeps
<1>3. CallType' /\ Attempts'
    BY <1>1 DEF CallType, Attempts
<1>4. Sockets'
    BY <1>1, <1>2 DEF Sockets, Moves, Live
<1>5. Bound'
    <2> SUFFICES ASSUME kind \in Binding PROVE Bound'
        BY <1>1 DEF Bound
    <2>1. \A c \in Conn : tr[c] = "none"
        BY DEF Sockets, Bound, Binding
    <2>2. (\A c \in Conn : sock'[c] = sock[c]) /\ (reader' = {} => reader = {})
        BY <1>2, <2>1 DEF Moves, OpeningInv, TypeOpening
    <2> QED BY <1>1, <2>2, Zenon DEF Bound
<1> QED BY <1>1, <1>2, <1>3, <1>4, <1>5

\* A race ends with the socket of its winner, or with none.
LEMMA RaceKeeps == ASSUME ConnectInv, race_over PROVE ConnectInv'
<1> USE DEF ConnectInv, CallInv
<1>1. /\ kind \in Racing /\ call = "connecting" /\ Addrs = Conn
      /\ \A a \in Conn : att[a] \notin Waiting
      /\ UNCHANGED <<kind, att>>
    BY Zenon DEF race_over, Addrs, Nameless, Racing
<1>2. CASE \E a \in Addrs : att[a] = "won" /\ OpenTransport(a)
    <2>1. PICK a \in Conn : att[a] = "won" /\ OpenTransport(a)
        BY <1>1, <1>2
    <2>2. CallType' /\ kind # "given"
        BY <1>1 DEF CallType, Racing
    <2>3. \A b \in Conn : b < a => att[b] # "no"
        BY <2>1 DEF Attempts
    <2>4. \A b \in Conn \ {a} : att[b] \notin Running \cup {"won"}
        BY <1>1, <2>1 DEF Attempts
    <2>5. kind \notin Sequential
        BY <1>1 DEF Racing, Sequential
    <2> QED BY <1>1, <2>1, <2>2, <2>3, <2>4, <2>5, OpenKeeps, Zenon
<1>3. CASE ~\E a \in Addrs : att[a] = "won" /\ OpenTransport(a)
    <2>1. /\ call' \in {"timeout", "oserror"} /\ UNCHANGED opening
          /\ \A a \in Conn : att[a] \in {"failed", "odd"}
        BY <1>1, <1>3 DEF race_over
    <2>2. OpeningInv'
        BY <1>1, <2>1, Zenon DEF opening, OpeningInv, TypeOpening, QueueTells, Queued, Told, Owned
    <2>3. CallType' /\ Attempts'
        BY <1>1, <2>1, Zenon DEF CallType, Attempts, Running, Sequential, Racing, Binding
    <2>4. Sockets' /\ Bound'
        BY <1>1, <2>1 DEF opening, Sockets, Bound, Waiting, Live, Sequential, Racing, Binding
    <2> QED BY <1>1, <2>2, <2>3, <2>4, Zenon
<1> QED BY <1>2, <1>3

\* The call uses a socket the caller gave it.
LEMMA GivenKeeps == ASSUME ConnectInv, use_given PROVE ConnectInv'
<1> USE DEF ConnectInv, CallInv
<1>1. /\ kind = "given" /\ call = "connecting" /\ OpenTransport(1) /\ UNCHANGED <<kind, att>>
      /\ 1 \in Conn
    BY OpeningConstants DEF use_given, Conn
<1>2. CallType' /\ (\A a \in Conn : att[a] = "no") /\ kind \notin Sequential
    BY <1>1 DEF CallType, Attempts, Sequential
<1> QED BY <1>1, <1>2, OpenKeeps DEF Running

\* The name is resolved, or the server has begun to serve.
LEMMA ReturnKeeps == ASSUME ConnectInv, resolve \/ server_returned PROVE ConnectInv'
<1> USE DEF ConnectInv, CallInv
<1>1. /\ UNCHANGED <<opening, kind, att>>
      /\ \/ call = "resolving" /\ call' \in {"connecting", "oserror"}
         \/ call = "sleeping" /\ call' = "returned"
    BY DEF resolve, server_returned
<1>2. OpeningInv'
    BY <1>1, Zenon DEF opening, OpeningInv, TypeOpening, QueueTells, Queued, Told, Owned
<1>3. CallType' /\ Attempts'
    BY <1>1 DEF CallType, Attempts, Running
<1>4. Sockets' /\ Bound'
    BY <1>1 DEF opening, Sockets, Bound, Sequential, Racing, Binding
<1> QED BY <1>1, <1>2, <1>3, <1>4

\* The call is cancelled.
LEMMA CancelKeeps == ASSUME ConnectInv, cancel_call PROVE ConnectInv'
<1> USE DEF ConnectInv, CallInv
<1>1. /\ call \in {"resolving", "connecting", "sleeping"}
      /\ att' = [a \in Conn |-> IF att[a] \in Waiting THEN "cancelling" ELSE att[a]]
      /\ sock' = [a \in Conn |-> IF att[a] = "won" THEN "dropped" ELSE sock[a]]
      /\ UNCHANGED <<tr, reader, waiter, task, cancelling, calls, ready, kind>>
      /\ \/ kind \in Sequential /\ call' = call
         \/ kind \in Racing /\ call' = "other"
         \/ call # "connecting" /\ call' = "other"
    BY DEF cancel_call
<1>2. \A a \in Conn : tr[a] = "none" /\ task[a] = "none"
    BY <1>1 DEF Sockets
<1>3. \A a \in Conn : att[a] = "won" => kind \in Racing
    BY <1>1, Zenon DEF Attempts, CallType
<1>4. sock' \in [Conn -> SockState]
    BY <1>1, Zenon DEF OpeningInv, TypeOpening, SockState
<1>5. OpeningInv'
    <2>1. /\ cancelling' \subseteq Conn
          /\ task' \in [Conn -> {"none", "new", "waiting", "done", "failed"}]
        BY <1>1, Zenon DEF OpeningInv, TypeOpening
    <2>2. \A a \in Conn : a \in reader => sock'[a] = sock[a]
        BY <1>1, <1>2, <1>3, Zenon DEF OpeningInv, Owned, Racing, Binding
    <2> QED BY <1>1, <1>2, <1>4, <2>1, <2>2, NoTransport, Zenon DEF Live
<1>6. CallType'
    BY <1>1, Zenon DEF CallType, Waiting
<1>7. Attempts'
    BY <1>1 DEF Attempts, CallType, Running, Waiting, Sequential, Racing, Binding
<1>8. Sockets'
    BY <1>1, <1>2, <1>3, Zenon DEF Sockets, Attempts, Waiting, Sequential, Racing, Binding, Live
<1>9. Bound'
    BY <1>1, <1>3 DEF Bound, Sequential, Racing, Binding
<1> QED BY <1>1, <1>5, <1>6, <1>7, <1>8, <1>9, ZenonT(30)

\* A call that listens binds all its sockets, or ends.
LEMMA BindKeeps == ASSUME ConnectInv, Bind, kind \in Binding PROVE ConnectInv'
<1> USE DEF ConnectInv, CallInv
<1>1. /\ call = "connecting"
      /\ UNCHANGED <<tr, waiter, task, cancelling, calls, ready, kind, att>>
    BY DEF Bind
<1>2. \A a \in Conn : tr[a] = "none" /\ task[a] = "none" /\ sock[a] = "none" /\ att[a] = "no"
    BY <1>1, Zenon DEF Sockets, Bound, Attempts
<1>3. /\ sock' \in [Conn -> SockState] /\ call' \in {"oserror", "returned", "sleeping", "unserved"}
      /\ reader' \subseteq Conn /\ (\A a \in Conn : a \in reader' => sock'[a] = "open")
      /\ call' = "oserror" => \A a \in Conn : sock'[a] # "open"
      /\ call' = "unserved" /\ reader' = {} /\ kind = "server" =>
             \A a \in Conn : sock'[a] # "open"
    <2>1. PICK how \in [Addrs -> {"ok", "nosocket", "unavailable", "inuse"}] :
              LET bound == {a \in Addrs : how[a] = "ok"}
                  rest  == [a \in Conn |-> IF a \in Addrs THEN Unbound(how[a]) ELSE "none"] IN
              IF bound = {} \/ \E a \in Addrs : how[a] = "inuse"
              THEN call' = "oserror" /\ sock' = rest /\ UNCHANGED reader
              ELSE ServeOn(bound, rest)
        BY Zenon DEF Bind
    <2> DEFINE bound == {a \in Addrs : how[a] = "ok"}
               rest  == [a \in Conn |-> IF a \in Addrs THEN Unbound(how[a]) ELSE "none"]
    <2>2. rest \in [Conn -> {"none", "closed"}] /\ bound \subseteq Conn
        BY OpeningConstants DEF Unbound, Addrs, Conn
    <2>3. \A a \in reader : a \in Conn /\ sock[a] = "open"
        BY DEF OpeningInv, TypeOpening, Owned
    <2>4. reader = {}
        BY <1>2, <2>3, Zenon
    <2>5. CASE call' = "oserror" /\ sock' = rest /\ UNCHANGED reader
        BY <2>2, <2>4, <2>5, Zenon DEF SockState
    <2>6. CASE ServeOn(bound, rest)
        <3> HIDE DEF bound, rest
        <3>1. PICK start \in BOOLEAN, n \in 1..N + 1, listed \in BOOLEAN :
                  LET served == {a \in bound : start /\ a < n} IN
                  /\ reader' = served
                  /\ sock' = [a \in Conn |-> IF a \notin bound THEN rest[a]
                                            ELSE IF Kept(start, served, listed) THEN "open"
                                            ELSE "dropped"]
                  /\ call' = IF ~start THEN "returned"
                             ELSE IF served = bound THEN "sleeping" ELSE "unserved"
            BY <2>6, Zenon DEF ServeOn
        <3> DEFINE served == {a \in bound : start /\ a < n}
        <3>2. served \subseteq bound
            BY Zenon
        <3> HIDE DEF served
        <3>3. /\ reader' = served
              /\ sock' = [a \in Conn |-> IF a \notin bound THEN rest[a]
                                        ELSE IF Kept(start, served, listed) THEN "open"
                                        ELSE "dropped"]
              /\ call' = IF ~start THEN "returned"
                         ELSE IF served = bound THEN "sleeping" ELSE "unserved"
            BY <3>1, Zenon DEF served
        <3>4. sock' \in [Conn -> SockState]
            BY <2>2, <3>3 DEF SockState
        <3>5. \A a \in bound : a \in served => Kept(start, served, listed)
            BY Zenon DEF Kept
        <3>6. \A a \in Conn : a \in reader' => sock'[a] = "open"
            BY <2>2, <3>2, <3>3, <3>5, Zenon
        <3>7. call' = "unserved" /\ reader' = {} /\ kind = "server" =>
                  ~Kept(start, served, listed)
            BY <3>3, Zenon DEF Kept
        <3>8. \A a \in Conn : rest[a] # "open"
            BY <2>2
        <3>9. ~Kept(start, served, listed) => \A a \in Conn : sock'[a] # "open"
            BY <3>3, <3>8, Zenon
        <3>10. reader' \subseteq Conn /\ call' \in {"returned", "sleeping", "unserved"}
            BY <2>2, <3>2, <3>3
        <3> QED BY <3>4, <3>6, <3>7, <3>9, <3>10, Zenon
    <2> QED BY <2>1, <2>5, <2>6
<1>4. OpeningInv'
    <2>1. TypeOpening' /\ Orderly(ready')
        BY <1>1, <1>3 DEF OpeningInv, TypeOpening
    <2>2. QueueTells' /\ Told'
        BY <1>1, Zenon DEF OpeningInv, QueueTells, Queued, Told
    <2>3. Owned'
        BY <1>1, <1>2, <1>3, Zenon DEF OpeningInv, Owned, Live
    <2> QED BY <2>1, <2>2, <2>3, Zenon DEF OpeningInv
<1>5. CallType' /\ Attempts'
    BY <1>1, <1>2, Zenon DEF CallType, Attempts, Running
<1>6. Sockets' /\ Bound'
    BY <1>1, <1>2, <1>3 DEF Sockets, Bound, Binding, Sequential, Racing
<1> QED BY <1>1, <1>4, <1>5, <1>6, Zenon

\* Every step of a call keeps the invariant.
LEMMA ConnectKeeps == ASSUME ConnectInv, ConnectNext PROVE ConnectInv'
    BY AttemptKeeps, SettleKeeps, ClientKeeps, RaceKeeps, GivenKeeps, ReturnKeeps,
       CancelKeeps, BindKeeps
    DEF ConnectNext, CallStep, ClientCallback, OpeningStep, create_server,
        create_unix_server, Binding

-----------------------------------------------------------------------------
(* The server, for any number of connections, any backlog and any limit of  *)
(* descriptors.                                                             *)

\* Induction with a set in the place of a predicate, from the library's theorem
\* that a set of numbers that is not empty has a least element.
LEMMA SetInduction ==
    ASSUME NEW S, 0 \in S, \A n \in Nat : n \in S => n + 1 \in S
    PROVE  Nat \subseteq S
<1> DEFINE T == Nat \ S
           R == {p \in Nat \X Nat : p[1] < p[2]}
<1> SUFFICES ASSUME T # {} PROVE FALSE
    OBVIOUS
<1>1. OpToRel(<, Nat) = R
    BY DEF OpToRel
<1>2. IsWellFoundedOn(R, Nat)
    BY <1>1, NatLessThanWellFounded, Zenon
<1>3. PICK x \in T : \A y \in T : <<y, x>> \notin R
    <2> HIDE DEF R
    <2> QED BY <1>2, WFMin, Zenon
<1>4. x \in Nat /\ x # 0 /\ x - 1 \in Nat
    OBVIOUS
<1>5. <<x - 1, x>> \in R
    BY <1>4
<1>6. x - 1 \in S
    BY <1>3, <1>4, <1>5
<1> QED BY <1>4, <1>6

Start == [queue |-> backlog, got |-> {}, skipped |-> {}, new |-> <<>>,
          off |-> FALSE, timers |-> 0]

\* The accept loop is what its recursive definition says.
LEMMA BurstIs ==
    /\ Burst[0] = Start
    /\ \A n \in 1..Backlog + 1 : Burst[n] = Turn(Burst[n - 1])
<1> DEFINE Goes(f, m) == f = [n \in 0..m |-> IF n = 0 THEN Start ELSE Turn(f[n - 1])]
           E == {m \in Nat : \E f : Goes(f, m)}
<1> HIDE DEF Start
<1>1. 0 \in E
    <2> DEFINE g == [n \in 0..0 |-> Start]
    <2>1. Goes(g, 0)
        OBVIOUS
    <2> QED BY <2>1, Zenon
<1>2. ASSUME NEW m \in Nat, m \in E PROVE m + 1 \in E
    <2>1. PICK f : Goes(f, m)
        BY <1>2
    <2> DEFINE g == [n \in 0..m + 1 |-> IF n = m + 1 THEN Turn(f[m]) ELSE f[n]]
    <2>2. \A n \in 0..m : f[n] = IF n = 0 THEN Start ELSE Turn(f[n - 1])
        BY <2>1, Zenon
    <2>3. ASSUME NEW n \in 0..m + 1 PROVE g[n] = IF n = 0 THEN Start ELSE Turn(g[n - 1])
        <3>1. CASE n = m + 1
            <4>1. n - 1 = m /\ m \in 0..m + 1 /\ m # m + 1 /\ n # 0
                BY <3>1
            <4> QED BY <3>1, <4>1
        <3>2. CASE n # m + 1 /\ n # 0
            <4>1. n \in 0..m /\ n - 1 \in 0..m + 1 /\ n - 1 # m + 1
                BY <3>2
            <4> QED BY <2>2, <3>2, <4>1
        <3>3. CASE n = 0
            BY <2>2, <3>3
        <3> QED BY <3>1, <3>2, <3>3
    <2>4. Goes(g, m + 1)
        BY <2>3
    <2>5. \E h : Goes(h, m + 1)
        BY <2>4, Zenon
    <2> QED BY <2>5
<1>3. Nat \subseteq E
    <2> HIDE DEF E
    <2> QED BY <1>1, <1>2, SetInduction
<1>4. Backlog + 1 \in Nat
    BY ServeConstants
<1>5. \E f : Goes(f, Backlog + 1)
    BY <1>3, <1>4
<1>6. Goes(Burst, Backlog + 1)
    BY <1>5, Zenon DEF Burst, Start
<1>7. \A n \in 0..Backlog + 1 : Burst[n] = IF n = 0 THEN Start ELSE Turn(Burst[n - 1])
    BY <1>6, Zenon
<1> QED BY <1>4, <1>7

Bursts == [queue : Seq(Conn), got : SUBSET Conn, skipped : SUBSET Conn, new : Seq(Ent),
           off : BOOLEAN, timers : Nat]

\* In the course of a burst: what was taken from the kernel's queue q came from
\* there, and what was accepted has a task each.
Takes(q, got, skipped, new) ==
    /\ Distinct(q)
    /\ \A c \in Within(q) : c \notin got \cup skipped /\ sock[c] = "backlog"
    /\ \A c \in got \cup skipped : sock[c] = "backlog"
    /\ Orderly(new)
    /\ \A e \in Within(new) : e.k = "step" /\ e.c \in got

Taking(s) == s \in Bursts /\ Takes(s.queue, s.got, s.skipped, s.new)

\* One turn of the loop.
LEMMA TurnTakes ==
    ASSUME NEW s, Taking(s), limit \in Nat, reader \subseteq Conn PROVE Taking(Turn(s))
<1> DEFINE u == Used + Cardinality(s.got)
<1>0. s \in Bursts
    BY DEF Taking
<1>4. Cardinality(s.got) \in Nat /\ Used \in Nat
    <2>1. IsFiniteSet(Conn)
        BY OpeningConstants, FS_Interval DEF Conn
    <2>2. s.got \subseteq Conn /\ {d \in Conn : sock[d] = "open"} \subseteq Conn
        BY <1>0, Zenon DEF Bursts
    <2>3. /\ IsFiniteSet(s.got) /\ IsFiniteSet({d \in Conn : sock[d] = "open"})
          /\ IsFiniteSet(reader)
        BY <2>1, <2>2, FS_Subset, Zenon
    <2> QED BY <2>3, FS_CardinalityType DEF Used
<1>1. CASE u >= limit
    <2>1. Turn(s) = BackOff(s)
        BY <1>1, <1>4 DEF Turn
    <2>2. BackOff(s) = [s EXCEPT !.off = TRUE, !.timers = s.timers + 1]
        BY <1>0 DEF BackOff, Bursts
    <2>3. s.timers + 1 \in Nat
        BY <1>0 DEF Bursts
    <2> HIDE DEF u
    <2>4. Turn(s) \in Bursts
        BY <1>0, <2>1, <2>2, <2>3, Zenon DEF Bursts
    <2>5. /\ Turn(s).queue = s.queue /\ Turn(s).got = s.got
          /\ Turn(s).skipped = s.skipped /\ Turn(s).new = s.new
        BY <1>0, <2>1, <2>2 DEF Bursts
    <2> QED BY <2>4, <2>5, Zenon DEF Taking
<1>2. CASE u < limit /\ s.queue = <<>> /\ ~(u >= limit)
    <2>1. Turn(s) = s
        BY <1>2 DEF Turn
    <2> QED BY <2>1
<1>3. CASE ~(u >= limit) /\ ~(u < limit /\ s.queue = <<>>)
    <2> DEFINE c == Head(s.queue)
    <2>0. s.queue # <<>> => /\ Tail(s.queue) \in Seq(Conn) /\ Distinct(Tail(s.queue))
                            /\ c \in Conn /\ c \in Within(s.queue)
                            /\ Within(Tail(s.queue)) = Within(s.queue) \ {c}
        <3>1. s.queue \in Seq(Conn) /\ Distinct(s.queue)
            BY <1>0 DEF Bursts, Taking, Takes
        <3> QED BY <3>1, Taken, Zenon
    <2>1. s.queue # <<>>
        BY <1>3, <1>4
    <2>2. CASE c \in aborted
        <3> DEFINE q == Tail(s.queue)
                   k == s.skipped \cup {c}
        <3>1. Turn(s) = [s EXCEPT !.queue = q, !.skipped = k]
            BY <1>0, <1>3, <2>2 DEF Turn, Bursts
        <3>2. q \in Seq(Conn) /\ k \in SUBSET Conn
            BY <1>0, <2>0, <2>1 DEF Bursts
        <3> HIDE DEF u, q, k
        <3>3. Turn(s) \in Bursts
            BY <1>0, <3>1, <3>2, Zenon DEF Bursts
        <3>4. /\ Turn(s).queue = Tail(s.queue) /\ Turn(s).got = s.got
              /\ Turn(s).skipped = s.skipped \cup {c} /\ Turn(s).new = s.new
            BY <1>0, <3>1 DEF Bursts, q, k
        <3> HIDE DEF c
        <3>5. Takes(Tail(s.queue), s.got, s.skipped \cup {c}, s.new)
            BY <2>0, <2>1, Zenon DEF Taking, Takes
        <3> QED BY <3>3, <3>4, <3>5, Zenon DEF Taking
    <2>3. CASE c \notin aborted
        <3> DEFINE q == Tail(s.queue)
                   g == s.got \cup {c}
                   w == Append(s.new, Entry("step", c))
        <3>1. Turn(s) = [s EXCEPT !.queue = q, !.got = g, !.new = w]
            BY <1>0, <1>3, <2>3, Zenon DEF Turn, Bursts
        <3> HIDE DEF u, c, q, g, w
        <3>0. Entry("step", c).k = "step" /\ Entry("step", c).c = c
            BY OtherEntry
        <3>2. Entry("step", c) \notin Within(s.new)
            BY <2>0, <2>1, <3>0, Zenon DEF Taking, Takes
        <3>3. /\ Orderly(Append(s.new, Entry("step", c)))
              /\ Within(Append(s.new, Entry("step", c))) = Within(s.new) \cup {Entry("step", c)}
            BY <2>0, <2>1, <3>2, AppendQueue, Zenon DEF Taking, Takes, Kinds
        <3>4. /\ Turn(s) \in Bursts /\ Turn(s).queue = Tail(s.queue)
              /\ Turn(s).got = s.got \cup {c} /\ Turn(s).skipped = s.skipped
              /\ Turn(s).new = Append(s.new, Entry("step", c))
            <4>1. q \in Seq(Conn) /\ g \in SUBSET Conn
                BY <1>0, <2>0, <2>1, Zenon DEF Bursts, q, g
            <4>2. w \in Seq(Ent)
                BY <3>3 DEF Orderly, w
            <4>3. Turn(s) \in Bursts
                BY <1>0, <3>1, <4>1, <4>2, Zenon DEF Bursts
            <4>4. /\ Turn(s).queue = q /\ Turn(s).got = g /\ Turn(s).skipped = s.skipped
                  /\ Turn(s).new = w
                BY <1>0, <3>1 DEF Bursts
            <4> QED BY <4>3, <4>4 DEF q, g, w
        <3>5. \A e \in Within(s.new) \cup {Entry("step", c)} : e.k = "step" /\ e.c \in s.got \cup {c}
            BY <3>0, Zenon DEF Taking, Takes
        <3>6. Takes(Tail(s.queue), s.got \cup {c}, s.skipped, Append(s.new, Entry("step", c)))
            BY <2>0, <2>1, <3>3, <3>5, Zenon DEF Taking, Takes
        <3> QED BY <3>4, <3>6, Zenon DEF Taking
    <2> QED BY <2>2, <2>3
<1> QED BY <1>1, <1>2, <1>3

\* The whole burst.
LEMMA BurstTakes ==
    ASSUME OpeningInv, Waits, kind = "serve", NEW n \in 0..Backlog + 1 PROVE Taking(Burst[n])
<1> DEFINE E == {m \in Nat : m \in 0..Backlog + 1 => Taking(Burst[m])}
<1>1. 0 \in E
    <2>1. Start \in Bursts /\ Orderly(<<>>)
        BY EmptyQueue DEF Start, Bursts, Waits, Orderly
    <2>2. Takes(backlog, {}, {}, <<>>)
        BY <2>1, EmptyQueue, Zenon DEF Takes, Waits
    <2>3. Taking(Start)
        BY <2>1, <2>2, Zenon DEF Taking, Start
    <2> QED BY <2>3, BurstIs, Zenon
<1>2. ASSUME NEW m \in Nat, m \in E PROVE m + 1 \in E
    <2> SUFFICES ASSUME m + 1 \in 0..Backlog + 1 PROVE Taking(Burst[m + 1])
        OBVIOUS
    <2>1. m \in 0..Backlog + 1 /\ m + 1 \in 1..Backlog + 1 /\ (m + 1) - 1 = m
        BY ServeConstants
    <2>2. Burst[m + 1] = Turn(Burst[m])
        BY <2>1, BurstIs
    <2>3. Taking(Burst[m])
        BY <1>2, <2>1
    <2>4. limit \in Nat /\ reader \subseteq Conn
        BY Zenon DEF Waits, OpeningInv, TypeOpening
    <2> QED BY <2>2, <2>3, <2>4, TurnTakes, Zenon
<1>3. Nat \subseteq E
    <2> HIDE DEF E
    <2> QED BY <1>1, <1>2, SetInduction
<1>4. n \in Nat
    BY ServeConstants
<1> QED BY <1>3, <1>4

ServeInv == OpeningInv /\ Waits /\ kind = "serve"

\* _accept_connection: every connection it takes gets a task of its own.
LEMMA AcceptKeeps == ASSUME ServeInv, accept_connection, kind' = kind PROVE ServeInv'
<1> USE DEF ServeInv
<1>1. PICK n \in 1..Backlog + 1 :
          /\ backlog' = Burst[n].queue
          /\ sock' = [c \in Conn |-> IF c \in Burst[n].got THEN "open"
                                     ELSE IF c \in Burst[n].skipped THEN "closed"
                                     ELSE sock[c]]
          /\ task' = [c \in Conn |-> IF c \in Burst[n].got THEN "new" ELSE task[c]]
          /\ ready' = ready \o Burst[n].new
    BY Zenon DEF accept_connection
<1>2. UNCHANGED <<tr, reader, waiter, cancelling, calls, limit>>
    BY DEF accept_connection
<1>3. Taking(Burst[n])
    <2>1. n \in 0..Backlog + 1
        BY ServeConstants
    <2> QED BY <2>1, BurstTakes
<1> DEFINE s == Burst[n]
<1> HIDE DEF s
<1>4. /\ backlog' = s.queue /\ Taking(s) /\ s.got \subseteq Conn /\ s.new \in Seq(Ent)
      /\ s.queue \in Seq(Conn)
      /\ \A c \in Conn : /\ sock'[c] = IF c \in s.got THEN "open"
                                       ELSE IF c \in s.skipped THEN "closed" ELSE sock[c]
                         /\ task'[c] = IF c \in s.got THEN "new" ELSE task[c]
      /\ sock' \in [Conn -> SockState]
      /\ task' \in [Conn -> {"none", "new", "waiting", "done", "failed"}]
      /\ ready' = ready \o s.new
    BY <1>1, <1>3, Zenon DEF s, Taking, Bursts, OpeningInv, TypeOpening, SockState
<1>5. \A c \in s.got \cup s.skipped : sock[c] = "backlog" /\ tr[c] = "none" /\ task[c] = "none"
    BY <1>3, <1>4, Zenon DEF s, Taking, Takes, Bursts, Waits
<1>6. Orderly(ready') /\ Within(ready') = Within(ready) \cup Within(s.new)
    <2>1. Orderly(ready) /\ Orderly(s.new) /\ \A e \in Within(s.new) : e.k = "step" /\ e.c \in s.got
        BY <1>4, Zenon DEF OpeningInv, Taking, Takes
    <2>2. ASSUME NEW e \in Within(s.new), e \in Within(ready) PROVE FALSE
        <3>1. e \in Ent
            BY <2>1, <2>2, WithinEnt, Zenon
        <3>2. e = Entry(e.k, e.c) /\ e.k = "step" /\ e.c \in s.got
            BY <2>1, <2>2, <3>1, EntryIs, Zenon
        <3>3. Queued("step", e.c)
            BY <2>2, <3>2 DEF Queued
        <3> QED BY <1>4, <1>5, <3>2, <3>3, Zenon DEF OpeningInv, QueueTells
    <2>3. /\ Within(ready) \cap Within(s.new) = {}
          /\ \A e \in Within(s.new), f \in Within(ready) :
                 ~(e.k = "made" /\ f.k = "lost" /\ e.c = f.c)
        BY <2>1, <2>2, Zenon
    <2>4. /\ Orderly(ready \o s.new)
          /\ Within(ready \o s.new) = Within(ready) \cup Within(s.new)
        BY <2>1, <2>3, Push, Zenon
    <2>5. ready' = ready \o s.new
        BY <1>4, Zenon
    <2> QED BY <2>4, <2>5, Zenon
<1>7. TypeOpening'
    <2>1. ready' \in Seq([k : Kinds, c : Conn])
        BY <1>6 DEF Orderly, Ent
    <2> QED BY <1>2, <1>4, <2>1, Zenon DEF OpeningInv, TypeOpening
<1>8. QueueTells'
    <2>1. \A e \in Within(s.new) : e.k = "step" /\ e.c \in s.got
        BY <1>4, Zenon DEF Taking, Takes
    <2>2. \A k \in Kinds, c \in Conn :
              Queued(k, c)' => Queued(k, c) \/ (k = "step" /\ c \in s.got)
        BY <1>6, <2>1, EntryIs DEF Queued
    <2>3. \A k \in Kinds, c \in Conn : Queued(k, c) => Queued(k, c)'
        BY <1>6 DEF Queued
    <2> QED BY <1>2, <1>4, <1>5, <2>2, <2>3, Zenon DEF OpeningInv, QueueTells, Kinds
<1>9. Told'
    BY <1>2, Zenon DEF OpeningInv, Told
<1>10. Owned'
    BY <1>2, <1>4, <1>5 DEF OpeningInv, Owned, Live, Binding
<1>11. Waits'
    <2>1. \A c \in Within(s.queue) : c \in Conn /\ c \notin s.got \cup s.skipped /\ sock[c] = "backlog"
        BY <1>4, WithinSeq, Zenon DEF Taking, Takes
    <2>2. \A c \in Within(backlog') : sock'[c] = "backlog"
        BY <1>4, <2>1, Zenon
    <2>3. Distinct(backlog')
        <3>1. backlog' = s.queue /\ Takes(s.queue, s.got, s.skipped, s.new)
            BY <1>4, Zenon DEF Taking
        <3> QED BY <3>1, Zenon DEF Takes
    <2>4. \A c \in Conn : /\ sock'[c] \in {"none", "backlog"} => tr'[c] = "none" /\ task'[c] = "none"
                          /\ task'[c] = "new" => sock'[c] = "open"
        BY <1>2, <1>4, <1>5, Zenon DEF Waits
    <2> QED BY <1>2, <1>4, <2>2, <2>3, <2>4, Zenon DEF Waits
<1> QED BY <1>6, <1>7, <1>8, <1>9, <1>10, <1>11, Zenon DEF OpeningInv

\* The first step of _accept_connection2.
LEMMA AcceptStepKeeps == ASSUME ServeInv, accept_step, kind' = kind PROVE ServeInv'
<1> DEFINE c == First
<1> USE DEF ServeInv
<1>1. /\ c \in Conn /\ Queued("step", c) /\ Orderly(Rest)
      /\ Within(Rest) = Within(ready) \ {Entry("step", c)}
    BY FirstIs DEF accept_step
<1>2. task[c] = "new" /\ tr[c] = "none" /\ UNCHANGED <<backlog, limit>>
    BY <1>1, Zenon DEF OpeningInv, QueueTells, Owned, accept_step
<1>3. sock[c] = "open"
    BY <1>1, <1>2, Zenon DEF Waits
<1>4. CASE MakeTransport(c, Rest) /\ UNCHANGED sock
    <2>1. sock' = [sock EXCEPT ![c] = "open"]
        BY <1>1, <1>3, <1>4 DEF OpeningInv, TypeOpening
    <2> HIDE DEF c
    <2>2. /\ \A d \in Conn : Entry("made", d) \in Within(Rest) <=> Queued("made", d)
          /\ Within(Rest) \subseteq Within(ready) /\ Entry("step", c) \notin Within(Rest)
        BY <1>1, OtherEntry, Zenon DEF Queued
    <2>3. OpeningInv'
        BY <1>1, <1>2, <1>4, <2>1, <2>2, MakeKeeps, Zenon
    <2>4. Waits'
        <3>1. task'[c] # "new" /\ (\A d \in Conn \ {c} : task'[d] = task[d] /\ tr'[d] = tr[d])
            BY <1>1, <1>4 DEF MakeTransport, OpeningInv, TypeOpening
        <3>2. \A d \in Conn : /\ sock[d] \in {"none", "backlog"} => tr'[d] = "none" /\ task'[d] = "none"
                              /\ task'[d] = "new" => sock[d] = "open"
            BY <1>3, <3>1, Zenon DEF Waits
        <3> QED BY <1>2, <1>4, <3>2, Zenon DEF Waits
    <2> QED BY <2>3, <2>4, Zenon
<1>5. CASE /\ task' = [task EXCEPT ![c] = "failed"] /\ ready' = Rest
           /\ sock' = [sock EXCEPT ![c] = "dropped"]
           /\ cancelling' = cancelling \ {c}
           /\ UNCHANGED <<tr, reader, waiter, calls>>
    <2> HIDE DEF c
    <2>1. /\ task'[c] = "failed" /\ (\A d \in Conn \ {c} : task'[d] = task[d])
          /\ task' \in [Conn -> {"none", "new", "waiting", "done", "failed"}]
          /\ sock'[c] = "dropped" /\ (\A d \in Conn \ {c} : sock'[d] = sock[d])
          /\ sock' \in [Conn -> SockState]
        BY <1>1, <1>5, Zenon DEF OpeningInv, TypeOpening, SockState
    <2>2. TypeOpening'
        <3>1. ready' \in Seq([k : Kinds, c : Conn])
            BY <1>1, <1>5 DEF Orderly, Ent
        <3> QED BY <1>5, <2>1, <3>1, ZenonT(30) DEF OpeningInv, TypeOpening
    <2>3. QueueTells'
        <3>1. \A k \in Kinds, d \in Conn : Queued(k, d)' => Queued(k, d) /\ (k # "step" \/ d # c)
            BY <1>1, <1>5, Zenon DEF Queued
        <3>2. \A d \in Conn : Queued("made", d) => Queued("made", d)'
            BY <1>1, <1>5, OtherEntry, Zenon DEF Queued
        <3> QED BY <1>2, <1>5, <2>1, <3>1, <3>2, ZenonT(30) DEF OpeningInv, QueueTells, Kinds
    <2>4. Told'
        BY <1>5 DEF OpeningInv, Told
    <2>5. Owned'
        BY <1>1, <1>2, <1>5, <2>1, Zenon DEF OpeningInv, Owned, Live, Binding
    <2>6. Waits'
        <3>1. \A d \in Conn : /\ sock'[d] \in {"none", "backlog"} => tr'[d] = "none" /\ task'[d] = "none"
                              /\ task'[d] = "new" => sock'[d] = "open"
            BY <1>5, <2>1, Zenon DEF Waits
        <3>2. \A d \in Within(backlog) : sock'[d] = "backlog"
            BY <1>3, <2>1, WithinSeq, Zenon DEF Waits
        <3> QED BY <1>2, <3>1, <3>2, Zenon DEF Waits
    <2> QED BY <1>1, <1>5, <2>2, <2>3, <2>4, <2>5, <2>6 DEF OpeningInv
<1> QED BY <1>4, <1>5, Zenon DEF accept_step

\* The other steps of a server.
LEMMA ServeOthers ==
    ASSUME ServeInv, kind' = kind,
           \/ \E c \in Conn : Arrive(c) \/ GiveUp(c) \/ CancelNew(c)
           \/ start_serving \/ close_server \/ wait_closed
    PROVE  ServeInv'
<1> USE DEF ServeInv
<1>1. CASE \E c \in Conn : Arrive(c)
    <2>1. PICK c \in Conn : /\ sock[c] = "none" /\ sock' = [sock EXCEPT ![c] = "backlog"]
                            /\ backlog' = Append(backlog, c)
                            /\ UNCHANGED <<tr, reader, waiter, task, cancelling, calls, ready, limit>>
        BY <1>1, Zenon DEF Arrive
    <2>2. /\ sock'[c] = "backlog" /\ (\A d \in Conn \ {c} : sock'[d] = sock[d])
          /\ sock' \in [Conn -> SockState] /\ tr[c] = "none" /\ task[c] = "none" /\ c \notin reader
        BY <2>1, Zenon DEF OpeningInv, TypeOpening, SockState, Waits, Owned, Binding
    <2>3. OpeningInv'
        <3>1. /\ cancelling' \subseteq Conn
              /\ task' \in [Conn -> {"none", "new", "waiting", "done", "failed"}]
            BY <2>1 DEF OpeningInv, TypeOpening
        <3> QED BY <2>1, <2>2, <3>1, NoTransport, Zenon DEF Live
    <2>4. backlog \in Seq(Conn) /\ Distinct(backlog) /\ c \notin Within(backlog)
        BY <2>1, Zenon DEF Waits
    <2>5. /\ backlog' \in Seq(Conn) /\ Distinct(backlog')
          /\ Within(backlog') = Within(backlog) \cup {c}
        BY <2>1, <2>4, Joined, Zenon
    <2>6. \A d \in Within(backlog') : sock'[d] = "backlog"
        BY <2>2, <2>4, <2>5, WithinSeq, Zenon DEF Waits
    <2>7. \A d \in Conn : /\ sock'[d] \in {"none", "backlog"} => tr'[d] = "none" /\ task'[d] = "none"
                          /\ task'[d] = "new" => sock'[d] = "open"
        BY <2>1, <2>2, Zenon DEF Waits
    <2> QED BY <2>1, <2>3, <2>5, <2>6, <2>7, Zenon DEF Waits
<1>2. CASE \E c \in Conn : CancelNew(c)
    <2>1. PICK c \in Conn : /\ cancelling' = cancelling \cup {c}
                            /\ UNCHANGED <<sock, tr, reader, waiter, task, calls, ready, backlog, limit>>
        BY <1>2 DEF CancelNew, server
    <2>2. OpeningInv'
        <3>1. TypeOpening'
            BY <2>1 DEF OpeningInv, TypeOpening
        <3>2. Orderly(ready)' /\ QueueTells'
            BY <2>1, Zenon DEF OpeningInv, QueueTells, Queued
        <3>3. Told' /\ Owned'
            BY <2>1, Zenon DEF OpeningInv, Told, Owned
        <3> QED BY <3>1, <3>2, <3>3, Zenon DEF OpeningInv
    <2>3. Waits'
        BY <2>1, Zenon DEF Waits
    <2> QED BY <2>2, <2>3, Zenon
<1>3. CASE close_server
    <2>1. /\ sock' = [c \in Conn |-> IF sock[c] = "backlog" THEN "closed" ELSE sock[c]]
          /\ backlog' = <<>>
          /\ UNCHANGED <<tr, reader, waiter, task, cancelling, calls, ready, limit>>
        BY <1>3, Zenon DEF close_server
    <2>2. sock' \in [Conn -> SockState]
        BY <2>1 DEF OpeningInv, TypeOpening, SockState
    <2>3. \A c \in Conn : tr[c] \in Live \/ c \in reader => sock'[c] = sock[c]
        BY <2>1, Zenon DEF OpeningInv, Owned
    <2>4. OpeningInv'
        <3>1. /\ cancelling' \subseteq Conn
              /\ task' \in [Conn -> {"none", "new", "waiting", "done", "failed"}]
            BY <2>1 DEF OpeningInv, TypeOpening
        <3> QED BY <2>1, <2>2, <2>3, <3>1, NoTransport, Zenon
    <2>5. Waits'
        <3>1. \A c \in Conn : sock'[c] # "backlog" /\ (sock'[c] = sock[c] \/ sock'[c] = "closed")
            BY <2>1
        <3>2. \A c \in Conn : task[c] = "new" => sock'[c] = "open"
            BY <2>1, Zenon DEF Waits
        <3> QED BY <2>1, <3>1, <3>2, EmptyQueue, Zenon DEF Waits
    <2> QED BY <2>4, <2>5, Zenon
<1>4. CASE start_serving \/ wait_closed \/ \E c \in Conn : GiveUp(c)
    <2>1. UNCHANGED <<opening, backlog, limit>>
        BY <1>4 DEF start_serving, wait_closed, GiveUp
    <2>2. OpeningInv'
        BY <2>1, OpeningStays
    <2>3. Waits'
        <3>1. UNCHANGED <<sock, tr, task, backlog, limit>>
            BY <2>1, Zenon DEF opening
        <3> QED BY <3>1, Zenon DEF Waits
    <2> QED BY <2>2, <2>3
<1> QED BY <1>1, <1>2, <1>3, <1>4

\* Every step of a server keeps the invariant.
LEMMA ServeKeeps == ASSUME ServeInv, ServeNext, kind' = kind PROVE ServeInv'
<1>1. ASSUME OpeningStep, UNCHANGED <<backlog, limit>> PROVE ServeInv'
    <2>1. OpeningInv' /\ Moves
        BY <1>1, OpeningStepKeeps DEF ServeInv
    <2>2. Waits'
        <3>1. \A c \in Conn : sock[c] = "backlog" => sock'[c] = "backlog"
            BY <2>1, ZenonT(30) DEF ServeInv, Waits, Moves
        <3>2. \A c \in Conn : sock'[c] \in {"none", "backlog"} => tr'[c] = "none" /\ task'[c] = "none"
            BY <2>1 DEF ServeInv, Waits, Moves
        <3>3. \A c \in Conn : task'[c] = "new" => sock'[c] = "open"
            <4> SUFFICES ASSUME NEW c \in Conn, task'[c] = "new" PROVE sock'[c] = "open"
                BY ZenonT(30)
            <4>1. task[c] = "new"
                BY <2>1 DEF Moves
            <4>2. sock[c] = "open"
                BY <4>1, Zenon DEF ServeInv, Waits
            <4>3. tr[c] = "none"
                BY <4>1, Zenon DEF ServeInv, OpeningInv, Owned
            <4> QED BY <2>1, <4>2, <4>3, Zenon DEF Moves
        <3>4. /\ limit' \in Nat /\ backlog' \in Seq(Conn) /\ Distinct(backlog')
              /\ \A c \in Within(backlog') : c \in Conn /\ sock[c] = "backlog"
            BY <1>1, WithinSeq, Zenon DEF ServeInv, Waits
        <3> QED BY <3>1, <3>2, <3>3, <3>4, Zenon DEF Waits
    <2> QED BY <2>1, <2>2 DEF ServeInv
<1>2. CASE detach
    BY <1>1, <1>2, Zenon DEF detach, OpeningStep
<1>3. CASE \/ Callback /\ UNCHANGED server
           \/ \E c \in Conn : (CancelOpening(c) \/ Hangup(c) \/ Handshake(c)) /\ UNCHANGED server
    BY <1>1, <1>3, Zenon DEF OpeningStep, server
<1> QED BY <1>2, <1>3, AcceptKeeps, AcceptStepKeeps, ServeOthers, Zenon DEF ServeNext, ServeCallback

-----------------------------------------------------------------------------
(* Both kinds of process.                                                   *)

\* The invariant holds before the call, and before the server runs.
LEMMA EndpointsInit == Init => EndpointsInv
<1> SUFFICES ASSUME Init PROVE EndpointsInv
    BY Zenon
<1> USE DEF Init, InitOpening, InitConnect, InitServe
<1>1. TypeOpening
    <2>1. <<>> \in Seq([k : Kinds, c : Conn]) /\ <<>> \in Seq({"made", "lost"})
        OBVIOUS
    <2> QED BY <2>1 DEF TypeOpening, SockState
<1>2. Orderly(ready) /\ Within(ready) = {}
    BY EmptyQueue DEF Orderly
<1>3. QueueTells /\ Told /\ Owned
    BY <1>2, ZenonT(30) DEF QueueTells, Queued, Told, Owned, Live
<1>4. CallInv
    BY DEF CallInv, CallType, Attempts, Sockets, Bound, Running, Waiting, Live, Nameless,
           Sequential, Racing, Binding
<1>5. Waits
    BY ServeConstants, EmptyQueue, Zenon DEF Waits
<1> QED BY <1>1, <1>2, <1>3, <1>4, <1>5, Zenon DEF EndpointsInv, OpeningInv

\* Every step of the call or of the server keeps the invariant.
LEMMA EndpointsStep == EndpointsInv /\ [Next]_vars => EndpointsInv'
<1> SUFFICES ASSUME EndpointsInv, [Next]_vars PROVE EndpointsInv'
    OBVIOUS
<1> USE DEF EndpointsInv
<1>1. CASE kind = "serve" /\ ServeNext /\ UNCHANGED client
    <2>1. UNCHANGED <<kind, call, att>>
        BY <1>1 DEF client
    <2>2. ServeInv'
        BY <1>1, <2>1, ServeKeeps DEF ServeInv
    <2>3. CallInv'
        BY <1>1, <2>1, ZenonT(30) DEF CallInv, CallType, Attempts, Sockets, Bound, Binding
    <2> QED BY <2>2, <2>3 DEF ServeInv
<1>2. CASE kind # "serve" /\ ConnectNext /\ UNCHANGED server
    <2>1. ConnectInv'
        BY <1>2, ConnectKeeps DEF ConnectInv
    <2> QED BY <2>1 DEF ConnectInv, Waits
<1>3. CASE UNCHANGED vars
    <2>1. UNCHANGED <<opening, kind, call, att, backlog, limit>>
        BY <1>3 DEF vars, client, server
    <2>2. OpeningInv'
        BY <2>1, OpeningStays
    <2>3. UNCHANGED <<sock, tr, reader, task>>
        BY <2>1, Zenon DEF opening
    <2>4. CallType' /\ Attempts'
        BY <2>1, Zenon DEF CallInv, CallType, Attempts
    <2>5. Sockets' /\ Bound'
        BY <2>1, <2>3 DEF CallInv, Sockets, Bound
    <2>6. Waits'
        BY <2>1, <2>3, Zenon DEF Waits
    <2> QED BY <2>2, <2>4, <2>5, <2>6, Zenon DEF CallInv
<1> QED BY <1>1, <1>2, <1>3, Zenon DEF Next

\* The inductive invariant of the endpoints.
THEOREM EndpointsInvariant == Spec => []EndpointsInv
<1>1. Init => EndpointsInv
    BY EndpointsInit
<1> QED BY <1>1, EndpointsStep, PTL DEF Spec

\* Whatever closes a transport while it is opened, its protocol hears
\* connection_made once and then connection_lost at most once.
THEOREM ProtocolHears == Spec => []MadeThenLost
<1>1. EndpointsInv => MadeThenLost
    BY Zenon DEF EndpointsInv, OpeningInv, Told, MadeThenLost
<1> QED BY <1>1, EndpointsInvariant, PTL

\* No reader outlives its transport's close or is registered after it, although
\* the registration was scheduled before.
THEOREM ReaderNeverLate == Spec => []ReaderIsOpen
<1>1. EndpointsInv => ReaderIsOpen
    BY DEF EndpointsInv, OpeningInv, TypeOpening, Owned, ReaderIsOpen
<1> QED BY <1>1, EndpointsInvariant, PTL

\* A coroutine that fails or is cancelled leaves no open transport behind.
THEOREM NoneLeftOpen == Spec => []FailedIsClosed
<1>1. EndpointsInv => Owned
    BY Zenon DEF EndpointsInv, OpeningInv
<1>2. Owned => FailedIsClosed
    BY Zenon DEF Owned, FailedIsClosed
<1> QED BY <1>1, <1>2, EndpointsInvariant, PTL

\* For any number of addresses, a call that is over has closed every socket it
\* made but that of its one transport, and a server that is not bound or does
\* not listen leaves one open only if something else still holds it.
THEOREM NoSocketLeft == Spec => []SocketsAccounted
<1>1. EndpointsInv => SocketsAccounted
    <2> SUFFICES ASSUME EndpointsInv PROVE SocketsAccounted
        BY Zenon
    <2> USE DEF EndpointsInv, CallInv
    <2>1. ASSUME kind \notin Binding, Over
          PROVE  /\ Cardinality({a \in Conn : tr[a] # "none"}) <= 1
                 /\ \A a \in Conn : sock[a] = "open" => tr[a] \in {"open", "closing"}
                 /\ \A a \in Conn : sock[a] = "dropped" => task[a] = "failed" \/ kind \in Racing
        <3>1. kind # "serve" /\ call # "connecting" /\ \A a \in Conn : att[a] \notin Waiting
            BY <2>1, Zenon DEF Over, Sockets
        <3>2. \A a, b \in Conn : tr[a] # "none" /\ tr[b] # "none" => a = b
            BY <2>1, <3>1 DEF Sockets, Attempts, CallType, Sequential, Racing, Binding
        <3>3. Cardinality({a \in Conn : tr[a] # "none"}) <= 1
            <4>1. CASE {a \in Conn : tr[a] # "none"} = {}
                BY <4>1, FS_EmptySet
            <4>2. CASE {a \in Conn : tr[a] # "none"} # {}
                <5>1. PICK b : {a \in Conn : tr[a] # "none"} = {b}
                    BY <3>2, <4>2
                <5>2. Cardinality({b}) = 1
                    BY FS_Singleton, Zenon
                <5> QED BY <5>1, <5>2
            <4> QED BY <4>1, <4>2, Zenon
        <3> QED BY <2>1, <3>1, <3>3, Zenon DEF Sockets, Live
    <2>2. kind \in Binding =>
              /\ call = "oserror" => \A a \in Conn : sock[a] # "open"
              /\ call = "unserved" /\ reader = {} /\ kind = "server" =>
                     \A a \in Conn : sock[a] # "open"
        BY DEF Bound
    <2> QED BY <2>1, <2>2, Zenon DEF SocketsAccounted
<1> QED BY <1>1, EndpointsInvariant, PTL
=============================================================================
