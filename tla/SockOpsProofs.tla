--------------------------- MODULE SockOpsProofs ---------------------------
(***************************************************************************)
(* For any number of tasks and futures: a coroutine that waits keeps its   *)
(* watcher, whatever callbacks of earlier operations are still queued, and *)
(* the watcher of an operation that ended does not outlive its callbacks.  *)
(* A sock_sendall that returns has sent its data, all of it and in order.  *)
(***************************************************************************)
EXTENDS SockOps, TLAPS

Dirs    == {"r", "w"}
Entries == Handle \cup {Wakeup(f) : f \in Fut} \cup {Register}
Pending(f) == fut[f] = "pending"

\* The types that the argument needs.
TypeInv ==
    /\ cur \in [Task -> Fut \cup {None}]
    /\ fut \in [Fut -> {"free", "pending", "result", "error", "cancelled"}]
    /\ op \in [Fut -> Reading \cup Writing]
    /\ cbs \in [Fut -> Seq(Entries)]
    /\ fds \in [Dirs -> Handle \cup {NoHandle, TransportFd}]
    /\ ready \in Seq(Entries)

\* A future is pending only while a task awaits it, and never while a transport
\* holds the descriptor.
Awaited ==
    \A f \in Fut : Pending(f) => (\E t \in Task : cur[t] = f) /\ ~transport

\* The queue holds callbacks of futures that are done, ...
QueuedIsDone ==
    \A i \in DOMAIN ready : ready[i].f \in Fut => ~Pending(ready[i].f)

\* ... which a pending future has not handed over yet.
OwnCallbacks ==
    \A f \in Fut : \A i \in DOMAIN cbs[f] : cbs[f][i].f = f

\* A pending future is watched in the direction of its operation only.
RightDirection ==
    \A d \in Dirs : fds[d].f \in Fut /\ Pending(fds[d].f) => Dir(op[fds[d].f]) = d

\* The inductive invariant of the waiting operations.
SockInv == TypeInv /\ Awaited /\ QueuedIsDone /\ OwnCallbacks /\ RightDirection
           /\ PendingWatched

\* It holds when no operation has started.
LEMMA SockInit == Init => SockInv
<1> SUFFICES ASSUME Init PROVE SockInv
    OBVIOUS
<1> USE SockConstants DEF Init, Dirs
<1>1. TypeInv
    BY DEF TypeInv, Reading, Entries
<1>2. Awaited /\ PendingWatched
    BY DEF Awaited, PendingWatched, Pending
<1>3. QueuedIsDone /\ OwnCallbacks
    BY DEF QueuedIsDone, OwnCallbacks
<1>4. RightDirection
    BY DEF RightDirection, NoHandle
<1> QED BY <1>1, <1>2, <1>3, <1>4 DEF SockInv

\* What a future does to the queue when it ends.
LEMMA FinishSafe ==
    ASSUME SockInv, NEW f \in Fut, Pending(f),
           NEW outcome \in {"result", "error", "cancelled"}, Finish(f, outcome),
           UNCHANGED <<cur, op, fds, transport, displaced>>
    PROVE  SockInv'
<1> USE DEF SockInv, Finish, Pending
<1>1. fut' \in [Fut -> {"free", "pending", "result", "error", "cancelled"}]
    BY DEF TypeInv
<1>2. \A g \in Fut : fut'[g] = "pending" => fut[g] = "pending" /\ g # f
    BY DEF TypeInv, Pending
<1>3. ready' \in Seq(Entries) /\ cbs' \in [Fut -> Seq(Entries)]
    BY DEF TypeInv
<1>4. TypeInv'
    BY <1>1, <1>3 DEF TypeInv
<1>5. Awaited'
    BY <1>2 DEF Awaited
<1>6. QueuedIsDone'
    <2> SUFFICES ASSUME NEW i \in DOMAIN ready', ready'[i].f \in Fut
                 PROVE  fut'[ready'[i].f] # "pending"
        BY DEF QueuedIsDone
    <2>1. CASE i \in DOMAIN ready
        <3>1. ready'[i] = ready[i]
            BY <2>1 DEF TypeInv
        <3> QED BY <2>1, <3>1, <1>2 DEF QueuedIsDone
    <2>2. CASE i \notin DOMAIN ready
        <3>1. i - Len(ready) \in DOMAIN cbs[f] /\ ready'[i] = cbs[f][i - Len(ready)]
            BY <2>2 DEF TypeInv
        <3>2. ready'[i].f = f
            BY <3>1 DEF OwnCallbacks
        <3> QED BY <3>2, <1>2
    <2> QED BY <2>1, <2>2
<1>7. OwnCallbacks'
    BY DEF OwnCallbacks, TypeInv
<1>8. RightDirection'
    BY <1>2 DEF RightDirection
<1>9. PendingWatched'
    BY <1>2 DEF PendingWatched, Pending
<1> QED BY <1>4, <1>5, <1>6, <1>7, <1>8, <1>9

\* Taking the first entry of a queue.
LEMMA TailOf ==
    ASSUME NEW S, NEW s \in Seq(S), s # <<>>
    PROVE  /\ Tail(s) \in Seq(S) /\ 1 \in DOMAIN s /\ Head(s) = s[1]
           /\ \A i \in DOMAIN Tail(s) : i + 1 \in DOMAIN s /\ Tail(s)[i] = s[i + 1]
    OBVIOUS

\* A coroutine that waits: the future it takes has no entry in the queue and
\* no watcher, and the watcher it replaces is noted.
LEMMA WaitSafe ==
    ASSUME SockInv, NEW t \in Task, cur[t] = None,
           NEW k \in Reading \cup Writing, NEW n, Wait(t, k, n)
    PROVE  SockInv'
<1> DEFINE f == CHOOSE g \in Fut : ~InUse(g)
           h == [f |-> f, d |-> Dir(k), n |-> 1]
<1>1. f \in Fut /\ ~InUse(f)
    BY DEF Wait
<1>2. /\ cur' = [cur EXCEPT ![t] = f] /\ fut' = [fut EXCEPT ![f] = "pending"]
      /\ op' = [op EXCEPT ![f] = k] /\ fds' = [fds EXCEPT ![Dir(k)] = h]
      /\ cbs' = [cbs EXCEPT ![f] = Callbacks(h)]
      /\ displaced' = (displaced \ {f}) \cup
             {g \in Fut \ {f} : g = fds[Dir(k)].f /\ fut[g] = "pending"}
      /\ ready' = ready /\ ~transport /\ transport' = transport
    BY DEF Wait, add_watcher, FreeFd
<1>3. /\ \A u \in Task : cur[u] # f
      /\ \A d \in Dirs : fds[d].f # f
      /\ \A i \in DOMAIN ready : ready[i].f # f
    BY <1>1 DEF InUse, Dirs
<1>4. Dir(k) \in Dirs /\ h \in Handle /\ h.f = f
    BY <1>1, SockConstants DEF Dir, Dirs, Handle
<1>5. Callbacks(h) \in Seq(Entries) /\ \A i \in DOMAIN Callbacks(h) : Callbacks(h)[i].f = f
    <2>1. h \in Entries /\ Wakeup(f) \in Entries /\ Wakeup(f).f = f
        BY <1>1, <1>4, Zenon DEF Wakeup, Entries
    <2>2. Callbacks(h) = <<h, Wakeup(f)>>
        BY <1>4 DEF Callbacks, Done
    <2> HIDE DEF f, h
    <2> QED BY <1>4, <2>1, <2>2
<1> HIDE DEF f, h
<1> USE <1>1, <1>2, <1>3, <1>4, <1>5 DEF SockInv, Pending
<1>6. TypeInv'
    BY DEF TypeInv
<1>7. Awaited'
    BY SockConstants DEF Awaited, TypeInv
<1>8. QueuedIsDone'
    BY DEF QueuedIsDone, TypeInv
<1>9. OwnCallbacks'
    BY DEF OwnCallbacks, TypeInv
<1>10. RightDirection'
    BY DEF RightDirection, TypeInv
<1>11. PendingWatched'
    <2> SUFFICES ASSUME NEW g \in Fut \ displaced', fut'[g] = "pending"
                 PROVE  fds'[Dir(op'[g])].f = g
        BY DEF PendingWatched
    <2>1. CASE g = f
        BY <2>1 DEF TypeInv
    <2>2. CASE g # f
        <3>1. fut[g] = "pending" /\ op'[g] = op[g] /\ g \notin displaced
            BY <2>2 DEF TypeInv
        <3>2. fds[Dir(op[g])].f = g /\ Dir(op[g]) \in Dirs
            BY <3>1 DEF PendingWatched, Dir, Dirs
        <3>3. Dir(op[g]) # Dir(k)
            BY <2>2, <3>1, <3>2
        <3> QED BY <3>1, <3>2, <3>3 DEF TypeInv
    <2> QED BY <2>1, <2>2
<1> QED BY <1>6, <1>7, <1>8, <1>9, <1>10, <1>11

\* Steps that leave what the invariant speaks of alone.
LEMMA SockStutter ==
    ASSUME SockInv, UNCHANGED <<cur, fut, op, cbs, fds, transport, ready, displaced>>
    PROVE  SockInv'
    BY DEF SockInv, TypeInv, Awaited, QueuedIsDone, OwnCallbacks, RightDirection,
           PendingWatched, Pending

\* A registered callback that ends its future.
LEMMA EndsSafe ==
    ASSUME SockInv, NEW d \in Dirs, NEW k, Fired(d, k),
           NEW outcome \in {"result", "error"}, Ends(d, outcome)
    PROVE  SockInv'
    BY FinishSafe DEF Fired, Ends, Pending

\* A coroutine starts.
LEMMA StartSafe == ASSUME SockInv, NEW t \in Task, Start(t) PROVE SockInv'
<1> USE DEF others, futures, Reading, Writing
<1>1. CASE sock_recv(t)
    BY <1>1, WaitSafe, SockStutter DEF sock_recv, Take
<1>2. CASE sock_accept(t)
    BY <1>2, WaitSafe, SockStutter DEF sock_accept, Take
<1>3. CASE sock_sendall(t)
    BY <1>3, WaitSafe, SockStutter DEF sock_sendall
<1>4. CASE sock_sendto(t)
    BY <1>4, WaitSafe, SockStutter DEF sock_sendto
<1>5. CASE sock_connect(t)
    BY <1>5, WaitSafe, SockStutter DEF sock_connect
<1> QED BY <1>1, <1>2, <1>3, <1>4, <1>5 DEF Start

\* The reactor calls a callback.
LEMMA ReadySafe == ASSUME SockInv, NEW d \in Dirs, Ready(d) PROVE SockInv'
<1>1. CASE recv_ready(d)
    BY <1>1, EndsSafe DEF recv_ready, Taken, Fails
<1>2. CASE accept_ready(d)
    BY <1>2, EndsSafe DEF accept_ready, Taken, Fails
<1>3. CASE sendall_ready(d)
    <2>1. CASE Fails(d, "sendall")
        BY <2>1, EndsSafe DEF Fails
    <2>2. CASE ~Fails(d, "sendall")
        <3> DEFINE f == fds[d].f
        <3>1. /\ f \in Fut /\ Pending(f)
              /\ UNCHANGED <<cur, op, fds, transport, displaced>>
              /\ Finish(f, "result") \/ UNCHANGED <<fut, cbs, ready>>
            BY <1>3, <2>2, Zenon DEF sendall_ready, Fired, Pending
        <3> QED BY <3>1, FinishSafe, SockStutter, Zenon
    <2> QED BY <2>1, <2>2
<1>4. CASE sendto_ready(d)
    BY <1>4, EndsSafe DEF sendto_ready, Fails
<1>5. CASE connect_ready(d)
    BY <1>5, EndsSafe DEF connect_ready
<1> QED BY <1>1, <1>2, <1>3, <1>4, <1>5 DEF Ready

\* sock_accept registers again.
LEMMA AgainSafe == ASSUME SockInv, NEW d \in Dirs, accept_again(d) PROVE SockInv'
<1> DEFINE f == fds[d].f
           h == [fds[d] EXCEPT !.n = @ + 1]
<1> USE DEF SockInv, Pending
<1>1. f \in Fut /\ fut[f] = "pending" /\ fds[d] \in Handle /\ ~transport
    <2>1. f \in Fut /\ fut[f] = "pending" /\ ~transport
        BY DEF accept_again, Fired, FreeFd
    <2>2. fds[d] \in Handle \cup {NoHandle, TransportFd}
        BY DEF TypeInv
    <2>3. NoHandle.f = None /\ TransportFd.f = None
        BY DEF NoHandle, TransportFd
    <2> QED BY <2>1, <2>2, <2>3, SockConstants
<1>2. h \in Handle /\ h.f = f
    <2>1. PICK hf \in Fut, hd \in Dirs, hn \in 1..Retries :
              fds[d] = [f |-> hf, d |-> hd, n |-> hn]
        BY <1>1 DEF Handle, Dirs
    <2>2. hn + 1 \in 1..Retries
        BY <2>1, SockConstants DEF accept_again
    <2>3. h = [f |-> hf, d |-> hd, n |-> hn + 1] /\ f = hf
        BY <2>1
    <2> QED BY <2>2, <2>3 DEF Handle, Dirs
<1>3. /\ fds' = [fds EXCEPT ![d] = h] /\ cbs' = [cbs EXCEPT ![f] = Append(@, h)]
      /\ displaced' = (displaced \ {f}) \cup
             {g \in Fut \ {f} : g = f /\ fut[g] = "pending"}
      /\ UNCHANGED <<cur, fut, op, transport, ready>>
    BY <1>2 DEF accept_again, add_watcher, Done
<1>4. cbs[f] \in Seq(Entries) /\ Append(cbs[f], h) \in Seq(Entries)
    BY <1>1, <1>2 DEF TypeInv, Entries
<1>5. Dir(op[f]) = d
    BY <1>1 DEF RightDirection
<1> HIDE DEF f, h
<1> USE <1>1, <1>2, <1>3
<1>6. TypeInv'
    BY <1>4 DEF TypeInv
<1>7. Awaited' /\ QueuedIsDone'
    BY DEF Awaited, QueuedIsDone
<1>8. OwnCallbacks'
    <2> SUFFICES ASSUME NEW g \in Fut, NEW i \in DOMAIN cbs'[g] PROVE cbs'[g][i].f = g
        BY DEF OwnCallbacks
    <2>1. CASE g # f
        BY <2>1 DEF OwnCallbacks, TypeInv
    <2>2. CASE g = f
        BY <2>2, <1>4 DEF OwnCallbacks, TypeInv
    <2> QED BY <2>1, <2>2
<1>9. RightDirection'
    BY <1>5 DEF RightDirection, TypeInv
<1>10. PendingWatched'
    <2> SUFFICES ASSUME NEW g \in Fut \ displaced', fut[g] = "pending"
                 PROVE  fds'[Dir(op[g])].f = g
        BY DEF PendingWatched
    <2>1. CASE g = f
        BY <2>1, <1>5 DEF TypeInv
    <2>2. CASE g # f
        <3>1. g \notin displaced /\ fds[Dir(op[g])].f = g
            BY <2>2 DEF PendingWatched
        <3>2. Dir(op[g]) # d
            BY <2>2, <3>1, <1>5 DEF f
        <3> QED BY <3>1, <3>2 DEF TypeInv, Dir, Dirs
    <2> QED BY <2>1, <2>2
<1> QED BY <1>6, <1>7, <1>8, <1>9, <1>10

\* An entry of the ready queue is run.
LEMMA QueueSafe == ASSUME SockInv, RunReady PROVE SockInv'
<1> USE DEF SockInv, Pending
<1>1. ready # <<>> /\ ready' = Tail(ready) /\ transport' = transport
    BY DEF RunReady, sock_done, wakeup, register_reader
<1>2. /\ ready' \in Seq(Entries) /\ Head(ready) = ready[1] /\ 1 \in DOMAIN ready
      /\ \A i \in DOMAIN ready' : i + 1 \in DOMAIN ready /\ ready'[i] = ready[i + 1]
    BY <1>1, TailOf DEF TypeInv
<1>3. CASE sock_done
    <2> DEFINE h == Head(ready)
    <2>1. h \in Handle /\ h.f \in Fut /\ fut[h.f] # "pending"
        BY <1>2, <1>3, SockConstants
           DEF sock_done, QueuedIsDone, TypeInv, Entries, Wakeup, Register
    <2>2. /\ UNCHANGED <<cur, fut, op, cbs, transport, displaced>>
          /\ fds' = fds \/ (fds[h.d] = h /\ fds' = [fds EXCEPT ![h.d] = NoHandle])
        BY <1>3 DEF sock_done, futures, Removes, cancelled
    <2> HIDE DEF h
    <2>3. TypeInv'
        BY <1>2, <2>1, <2>2, Zenon DEF TypeInv
    <2>4. Awaited' /\ OwnCallbacks'
        BY <2>2 DEF Awaited, OwnCallbacks
    <2>5. QueuedIsDone'
        BY <1>2, <2>2 DEF QueuedIsDone
    <2>6. RightDirection'
        <3>1. \A d \in Dirs : fds'[d] = fds[d] \/ fds'[d].f = None
            BY <2>2 DEF TypeInv, NoHandle
        <3> QED BY <2>2, <3>1, SockConstants DEF RightDirection
    <2>7. PendingWatched'
        BY <2>1, <2>2 DEF PendingWatched, TypeInv, Dir, Dirs
    <2> QED BY <2>3, <2>4, <2>5, <2>6, <2>7
<1>4. CASE wakeup
    <2> DEFINE f == Head(ready).f
    <2>1. /\ f \in Fut
          /\ cur' = [t \in Task |-> IF cur[t] = f THEN None ELSE cur[t]]
          /\ fut' = [fut EXCEPT ![f] = "free"] /\ op' = [op EXCEPT ![f] = "recv"]
          /\ displaced' = displaced \ {f} /\ UNCHANGED <<cbs, fds, transport>>
        BY <1>4 DEF wakeup
    <2> HIDE DEF f
    <2>2. \A g \in Fut : fut'[g] = "pending" =>
              fut[g] = "pending" /\ g # f /\ op'[g] = op[g]
        BY <2>1 DEF TypeInv
    <2>3. TypeInv'
        BY <1>2, <2>1 DEF TypeInv, Reading
    <2>4. Awaited'
        BY <2>1, <2>2 DEF Awaited, TypeInv
    <2>5. QueuedIsDone'
        BY <1>2, <2>2 DEF QueuedIsDone
    <2>6. OwnCallbacks' /\ RightDirection'
        BY <2>1, <2>2 DEF OwnCallbacks, RightDirection
    <2>7. PendingWatched'
        BY <2>1, <2>2 DEF PendingWatched
    <2> QED BY <2>3, <2>4, <2>5, <2>6, <2>7
<1>5. CASE register_reader
    <2>1. /\ UNCHANGED <<cur, fut, op, cbs>>
          /\ \/ UNCHANGED <<fds, displaced>>
             \/ transport /\ fds' = [fds EXCEPT !["r"] = TransportFd]
        BY <1>5 DEF register_reader, futures, add_watcher
    <2>2. TypeInv'
        BY <1>2, <2>1 DEF TypeInv, Dirs
    <2>3. Awaited' /\ OwnCallbacks'
        BY <1>1, <2>1 DEF Awaited, OwnCallbacks
    <2>4. QueuedIsDone'
        BY <1>2, <2>1 DEF QueuedIsDone
    <2>5. RightDirection' /\ PendingWatched'
        BY <2>1 DEF RightDirection, PendingWatched, Awaited
    <2> QED BY <2>2, <2>3, <2>4, <2>5
<1> QED BY <1>3, <1>4, <1>5 DEF RunReady

\* Every step preserves the invariant.
LEMMA SockStep == SockInv /\ [Next]_vars => SockInv'
<1> SUFFICES ASSUME SockInv, [Next]_vars PROVE SockInv'
    OBVIOUS
<1>1. CASE \E t \in Task : Start(t)
    BY <1>1, StartSafe
<1>2. CASE \E t \in Task : cancel(t)
    <2> PICK t \in Task : cancel(t)
        BY <1>2
    <2> QED BY FinishSafe DEF cancel, SockInv, TypeInv, Pending
<1>3. CASE \E d \in {"r", "w"} : Ready(d) \/ accept_again(d)
    BY <1>3, ReadySafe, AgainSafe DEF Dirs
<1>4. CASE RunReady
    BY <1>4, QueueSafe
<1>5. CASE Kernel \/ Reopen
    BY <1>5, SockStutter DEF Kernel, Reopen, others, futures
<1>6. CASE MakeTransport
    <2>1. /\ UNCHANGED <<cur, fut, op, cbs, fds, displaced>>
          /\ ready' = Append(ready, Register)
        BY <1>6 DEF MakeTransport, futures
    <2>2. \A f \in Fut : fut[f] # "pending"
        BY <1>6, SockConstants DEF MakeTransport, Idle, SockInv, Awaited, Pending
    <2>3. TypeInv'
        BY <2>1 DEF SockInv, TypeInv, Entries
    <2> QED BY <2>1, <2>2, <2>3 DEF SockInv, Awaited, QueuedIsDone, OwnCallbacks,
               RightDirection, PendingWatched, Pending
<1>7. CASE CloseTransport
    <2>1. /\ UNCHANGED <<cur, fut, op, cbs, ready, displaced>>
          /\ fds' = [d \in {"r", "w"} |-> NoHandle]
        BY <1>7 DEF CloseTransport, futures
    <2>2. \A f \in Fut : fut[f] # "pending"
        BY <1>7 DEF CloseTransport, SockInv, Awaited, Pending
    <2>3. TypeInv'
        BY <2>1 DEF SockInv, TypeInv, Dirs
    <2> QED BY <2>1, <2>2, <2>3 DEF SockInv, Awaited, QueuedIsDone, OwnCallbacks,
               RightDirection, PendingWatched, Pending
<1>8. CASE UNCHANGED vars
    BY <1>8, SockStutter DEF vars, others, futures
<1> QED BY <1>1, <1>2, <1>3, <1>4, <1>5, <1>6, <1>7, <1>8 DEF Next

\* The invariant of the socket operations.
THEOREM SockInvariant == Spec => []SockInv
<1>1. Init => SockInv
    BY SockInit
<1>2. SockInv /\ [Next]_vars => SockInv'
    BY SockStep
<1> QED BY <1>1, <1>2, PTL DEF Spec

\* For any number of tasks and futures, a coroutine that waits keeps its
\* watcher unless a later operation takes the direction: no late callback of
\* _sock_read_done or _sock_write_done removes it.
THEOREM WaitersWatched == Spec => []PendingWatched
<1>1. SockInv => PendingWatched
    BY DEF SockInv
<1> QED BY <1>1, SockInvariant, PTL

-----------------------------------------------------------------------------
(* No watcher is left behind.                                              *)

\* A handle is registered in its own direction.
OwnDirection == \A d \in Dirs : fds[d].f \in Fut => fds[d].d = d

\* The callback that ends a registration is among those of its future, that of
\* a writer first.
DoneScheduled ==
    \A d \in Dirs : fds[d].f \in Fut /\ Pending(fds[d].f) =>
        /\ \E i \in DOMAIN cbs[fds[d].f] : cbs[fds[d].f][i] = fds[d]
        /\ d = "w" => cbs[fds[d].f] # <<>> /\ cbs[fds[d].f][1] = fds[d]

\* A writer is removed before the task that registered it goes on, so that none
\* is left when a transport takes the descriptor.
WriterEndsFirst ==
    LET f == fds["w"].f IN
    f \in Fut =>
        /\ ~transport /\ \E t \in Task : cur[t] = f
        /\ ~Pending(f) => \E i \in DOMAIN ready :
               ready[i] = fds["w"] /\ \A j \in 1..i - 1 : ready[j].f # f

\* What is inductive together with it about the watchers of ended operations.
EndsInv  == OwnDirection /\ DoneScheduled /\ WriterEndsFirst /\ WatchEnds
WatchInv == SockInv /\ EndsInv

\* No watcher is registered at first.
LEMMA EndsInit == Init => EndsInv
<1> SUFFICES ASSUME Init PROVE EndsInv
    OBVIOUS
<1>1. \A d \in Dirs : fds[d].f = None
    BY DEF Init, Dirs, NoHandle
<1> QED BY <1>1, SockConstants DEF EndsInv, OwnDirection, DoneScheduled,
           WriterEndsFirst, WatchEnds, Dirs

\* Adding entries to a queue.
LEMMA ConcatOf ==
    ASSUME NEW S, NEW s \in Seq(S), NEW c \in Seq(S)
    PROVE  /\ DOMAIN s = 1..Len(s) /\ Len(s) \in Nat
           /\ \A i \in DOMAIN s : i \in DOMAIN (s \o c) /\ (s \o c)[i] = s[i]
           /\ \A i \in DOMAIN c : Len(s) + i \in DOMAIN (s \o c)
                                   /\ (s \o c)[Len(s) + i] = c[i]
    OBVIOUS

\* A future that ends hands its callbacks to the queue, the writer's first.
LEMMA FinishEnds ==
    ASSUME WatchInv, NEW f \in Fut, Pending(f),
           NEW outcome \in {"result", "error", "cancelled"}, Finish(f, outcome),
           UNCHANGED <<cur, fds, transport>>
    PROVE  EndsInv'
<1> USE DEF WatchInv, EndsInv, Pending, SockInv
<1>1. /\ ready' = ready \o cbs[f] /\ fut' = [fut EXCEPT ![f] = outcome]
      /\ cbs' = [cbs EXCEPT ![f] = <<>>]
    BY DEF Finish
<1>2. cbs[f] \in Seq(Entries) /\ ready \in Seq(Entries)
    BY DEF TypeInv
<1>3. /\ DOMAIN ready = 1..Len(ready) /\ Len(ready) \in Nat
      /\ \A i \in DOMAIN ready : i \in DOMAIN ready' /\ ready'[i] = ready[i]
      /\ \A i \in DOMAIN cbs[f] : Len(ready) + i \in DOMAIN ready'
                                   /\ ready'[Len(ready) + i] = cbs[f][i]
    BY <1>1, <1>2, ConcatOf
<1>4. \A i \in DOMAIN ready : ready[i].f # f
    BY DEF QueuedIsDone
<1>5. \A g \in Fut \ {f} : fut'[g] = fut[g] /\ cbs'[g] = cbs[g]
    BY <1>1 DEF TypeInv
<1>6. fut'[f] # "pending"
    BY <1>1 DEF TypeInv
<1>7. OwnDirection'
    BY DEF OwnDirection
<1>8. DoneScheduled'
    BY <1>5, <1>6 DEF DoneScheduled
<1>9. WriterEndsFirst'
    <2> SUFFICES ASSUME fds["w"].f \in Fut, fut'[fds["w"].f] # "pending"
                 PROVE  \E i \in DOMAIN ready' :
                            /\ ready'[i] = fds["w"]
                            /\ \A j \in 1..i - 1 : ready'[j].f # fds["w"].f
        BY DEF WriterEndsFirst
    <2>1. CASE fds["w"].f = f
        <3>1. 1 \in DOMAIN cbs[f] /\ cbs[f][1] = fds["w"]
            BY <2>1, <1>2 DEF DoneScheduled, Dirs
        <3>2. Len(ready) + 1 \in DOMAIN ready' /\ ready'[Len(ready) + 1] = fds["w"]
            BY <3>1, <1>3
        <3>3. \A j \in 1..(Len(ready) + 1) - 1 : ready'[j].f # f
            BY <1>3, <1>4
        <3> QED BY <2>1, <3>2, <3>3
    <2>2. CASE fds["w"].f # f
        <3>1. PICK i \in DOMAIN ready :
                  ready[i] = fds["w"] /\ \A j \in 1..i - 1 : ready[j].f # fds["w"].f
            BY <2>2, <1>5 DEF WriterEndsFirst
        <3> QED BY <3>1, <1>3
    <2> QED BY <2>1, <2>2
<1>10. WatchEnds'
    <2> SUFFICES ASSUME NEW d \in Dirs, fds[d].f \in Fut, fut'[fds[d].f] # "pending"
                 PROVE  (\E i \in DOMAIN ready' : ready'[i] = fds[d]) \/ (d = "r" /\ transport)
        BY DEF WatchEnds, Dirs
    <2>1. CASE fds[d].f = f
        BY <2>1, <1>3 DEF DoneScheduled
    <2>2. CASE fds[d].f # f
        BY <2>2, <1>3, <1>5 DEF WatchEnds, Dirs
    <2> QED BY <2>1, <2>2
<1> QED BY <1>7, <1>8, <1>9, <1>10

\* Steps that leave what the invariant speaks of alone.
LEMMA EndsStutter ==
    ASSUME WatchInv, UNCHANGED <<cur, fut, cbs, fds, transport, ready>>
    PROVE  EndsInv'
    BY ZenonT(30) DEF WatchInv, EndsInv, OwnDirection, DoneScheduled, WriterEndsFirst, WatchEnds,
           Pending

\* An operation that waits adds its watcher and its done callback.
LEMMA WaitEnds ==
    ASSUME WatchInv, NEW t \in Task, cur[t] = None,
           NEW k \in Reading \cup Writing, NEW n, Wait(t, k, n)
    PROVE  EndsInv'
<1> DEFINE f == CHOOSE g \in Fut : ~InUse(g)
           h == [f |-> f, d |-> Dir(k), n |-> 1]
<1>1. f \in Fut /\ ~InUse(f)
    BY DEF Wait
<1>2. /\ cur' = [cur EXCEPT ![t] = f] /\ fut' = [fut EXCEPT ![f] = "pending"]
      /\ fds' = [fds EXCEPT ![Dir(k)] = h] /\ cbs' = [cbs EXCEPT ![f] = Callbacks(h)]
      /\ ready' = ready /\ ~transport /\ transport' = transport
    BY DEF Wait, add_watcher, FreeFd
<1>3. \A d \in Dirs : fds[d].f # f
    BY <1>1 DEF InUse, Dirs
<1>4. Dir(k) \in Dirs /\ h.f = f /\ h.d = Dir(k)
    BY Zenon DEF Dir, Dirs
<1>5. Callbacks(h) = <<h, Wakeup(f)>>
    BY <1>4 DEF Callbacks, Done
<1> HIDE DEF f, h
<1>6. Callbacks(h) # <<>> /\ Callbacks(h)[1] = h /\ 1 \in DOMAIN Callbacks(h)
    BY <1>5
<1> USE <1>1, <1>2, <1>3, <1>4 DEF WatchInv, EndsInv, SockInv, Pending
<1>7. fds'[Dir(k)] = h /\ fut'[f] = "pending" /\ cbs'[f] = Callbacks(h) /\ cur'[t] = f
    BY Zenon DEF TypeInv
<1>8. \A g \in Fut \ {f} : fut'[g] = fut[g] /\ cbs'[g] = cbs[g]
    BY DEF TypeInv
<1>9. \A d \in Dirs \ {Dir(k)} : fds'[d] = fds[d]
    BY DEF TypeInv
<1>10. OwnDirection'
    BY <1>7, <1>9, Zenon DEF OwnDirection
<1>11. DoneScheduled'
    BY <1>6, <1>7, <1>8, <1>9 DEF DoneScheduled
<1>12. WriterEndsFirst'
    <2>1. CASE Dir(k) = "w"
        BY <2>1, <1>7, Zenon DEF WriterEndsFirst
    <2>2. CASE Dir(k) # "w"
        <3>1. fds'["w"] = fds["w"] /\ fds["w"].f # f
            BY <2>2, <1>9, Zenon DEF Dirs
        <3>2. \A u \in Task : cur[u] \in Fut => cur'[u] = cur[u]
            BY SockConstants, Zenon DEF TypeInv
        <3> QED BY <3>1, <3>2, <1>8 DEF WriterEndsFirst
    <2> QED BY <2>1, <2>2, Zenon
<1>13. WatchEnds'
    BY <1>7, <1>8, <1>9 DEF WatchEnds, Dirs
<1> QED BY <1>10, <1>11, <1>12, <1>13, Zenon

\* sock_accept, registered again by its own callback.
LEMMA AgainEnds == ASSUME WatchInv, NEW d \in Dirs, accept_again(d) PROVE EndsInv'
<1> DEFINE f == fds[d].f
           h == [fds[d] EXCEPT !.n = @ + 1]
<1> USE DEF WatchInv, EndsInv, SockInv, Pending
<1>1. f \in Fut /\ fut[f] = "pending" /\ op[f] = "accept" /\ ~transport
    BY DEF accept_again, Fired, FreeFd
<1>2. d = "r"
    BY <1>1 DEF RightDirection, Dir, Reading
<1>3. fds[d] \in Handle
    <2>1. fds[d] \in Handle \cup {NoHandle, TransportFd}
        BY DEF TypeInv
    <2>2. NoHandle.f = None /\ TransportFd.f = None
        BY DEF NoHandle, TransportFd
    <2> QED BY <1>1, <2>1, <2>2, SockConstants
<1>4. h.f = f /\ h.d = d
    BY <1>1, <1>3 DEF Handle, OwnDirection
<1>5. /\ fds' = [fds EXCEPT ![d] = h] /\ cbs' = [cbs EXCEPT ![f] = Append(@, h)]
      /\ UNCHANGED <<cur, fut, transport, ready>>
    BY DEF accept_again, add_watcher, Done
<1>6. fds["w"].f # f
    BY <1>1, <1>2 DEF RightDirection, Dirs
<1> HIDE DEF f, h
<1>7. cbs[f] \in Seq(Entries) /\ cbs'[f] = Append(cbs[f], h)
    BY <1>1, <1>5 DEF TypeInv
<1>8. \E i \in DOMAIN cbs'[f] : cbs'[f][i] = h
    <2>1. Len(cbs[f]) + 1 \in DOMAIN cbs'[f] /\ cbs'[f][Len(cbs[f]) + 1] = h
        BY <1>7
    <2> QED BY <2>1
<1>9. \A g \in Fut \ {f} : cbs'[g] = cbs[g]
    BY <1>5 DEF TypeInv
<1>10. fds'["r"] = h /\ fds'["w"] = fds["w"]
    BY <1>2, <1>5 DEF TypeInv, Dirs
<1>11. OwnDirection'
    BY <1>2, <1>4, <1>10, Zenon DEF OwnDirection, Dirs
<1>12. DoneScheduled'
    BY <1>1, <1>4, <1>5, <1>6, <1>8, <1>9, <1>10 DEF DoneScheduled, Dirs
<1>13. WriterEndsFirst'
    BY <1>5, <1>10 DEF WriterEndsFirst
<1>14. WatchEnds'
    BY <1>1, <1>4, <1>5, <1>10 DEF WatchEnds
<1> QED BY <1>11, <1>12, <1>13, <1>14

\* An entry of the ready queue is run: a done callback removes its watcher, a
\* task goes on, or a transport registers its reader.
LEMMA QueueEnds == ASSUME WatchInv, RunReady PROVE EndsInv'
<1> USE DEF WatchInv, EndsInv, SockInv, Pending
<1>1. ready # <<>> /\ ready' = Tail(ready) /\ transport' = transport
    BY DEF RunReady, sock_done, wakeup, register_reader
<1>2. /\ Head(ready) = ready[1] /\ 1 \in DOMAIN ready
      /\ DOMAIN ready = 1..Len(ready) /\ Len(ready) \in Nat
      /\ \A i \in DOMAIN ready : i # 1 => i - 1 \in DOMAIN ready' /\ ready'[i - 1] = ready[i]
      /\ \A i \in DOMAIN ready' : i + 1 \in DOMAIN ready /\ ready'[i] = ready[i + 1]
    BY <1>1 DEF TypeInv
<1>3. ASSUME fds'["w"] = fds["w"], fds["w"].f \in Fut, fut[fds["w"].f] # "pending",
             Head(ready) # fds["w"]
      PROVE  \E i \in DOMAIN ready' :
                 ready'[i] = fds["w"] /\ \A j \in 1..i - 1 : ready'[j].f # fds["w"].f
    <2>1. PICK i \in DOMAIN ready :
              ready[i] = fds["w"] /\ \A j \in 1..i - 1 : ready[j].f # fds["w"].f
        BY <1>3 DEF WriterEndsFirst
    <2>2. i # 1 /\ i - 1 \in DOMAIN ready' /\ ready'[i - 1] = fds["w"]
        BY <1>2, <1>3, <2>1
    <2>3. \A j \in 1..(i - 1) - 1 : ready'[j].f # fds["w"].f
        <3> SUFFICES ASSUME NEW j \in 1..(i - 1) - 1 PROVE ready'[j].f # fds["w"].f
            OBVIOUS
        <3>1. j + 1 \in DOMAIN ready /\ j + 1 # 1 /\ j + 1 \in 1..i - 1 /\ (j + 1) - 1 = j
            BY <1>2, <2>1
        <3>2. ready'[j] = ready[j + 1]
            BY <1>2, <3>1
        <3> QED BY <2>1, <3>1, <3>2, Zenon
    <2> QED BY <2>2, <2>3
<1>4. CASE sock_done
    <2> DEFINE h == Head(ready)
    <2>1. h.f \in Fut /\ fut[h.f] # "pending"
        BY <1>2, <1>4 DEF sock_done, QueuedIsDone
    <2>2. h \in Handle
        BY <1>2, <1>4 DEF sock_done, TypeInv, Entries, Wakeup, Register
    <2>3. /\ UNCHANGED <<cur, fut, cbs, transport>>
          /\ \/ fds' = fds /\ (transport \/ fds[h.d] # h)
             \/ ~transport /\ fds[h.d] = h /\ fds' = [fds EXCEPT ![h.d] = NoHandle]
        BY <1>4 DEF sock_done, futures, Removes, cancelled
    <2> HIDE DEF h
    <2>4. NoHandle.f = None
        BY DEF NoHandle
    <2>5. \A d \in Dirs :
              \/ fds'[d].f = None
              \/ fds'[d] = fds[d] /\ (fds[d].f \in Fut => transport \/ fds[d] # h)
        <3> TAKE d \in Dirs
        <3>1. CASE d = h.d
            BY <2>3, <2>4, <3>1 DEF TypeInv
        <3>2. CASE d # h.d
            BY <2>3, <3>2, Zenon DEF TypeInv, OwnDirection
        <3> QED BY <3>1, <3>2
    <2>6. OwnDirection' /\ DoneScheduled'
        BY <2>3, <2>5, SockConstants DEF OwnDirection, DoneScheduled
    <2>7. WriterEndsFirst'
        <3> SUFFICES ASSUME fds'["w"].f \in Fut PROVE WriterEndsFirst'
            BY DEF WriterEndsFirst
        <3>1. fds'["w"] = fds["w"] /\ (transport \/ fds["w"] # h)
            BY <2>5, SockConstants DEF Dirs
        <3>2. ~transport /\ fds["w"] # h
            BY <3>1 DEF WriterEndsFirst
        <3> QED BY <1>3, <2>3, <3>1, <3>2, Zenon DEF WriterEndsFirst, h
    <2>8. WatchEnds'
        <3> SUFFICES ASSUME NEW d \in Dirs, fds'[d].f \in Fut, fut[fds'[d].f] # "pending",
                            ~(d = "r" /\ transport)
                     PROVE  \E i \in DOMAIN ready' : ready'[i] = fds'[d]
            BY <2>3 DEF WatchEnds, Dirs
        <3>1. fds'[d] = fds[d] /\ (transport \/ fds[d] # h)
            BY <2>5, SockConstants
        <3>2. fds[d] # h
            BY <3>1 DEF WriterEndsFirst, Dirs
        <3>3. PICK i \in DOMAIN ready : ready[i] = fds[d]
            BY <3>1 DEF WatchEnds, Dirs
        <3> QED BY <1>2, <3>1, <3>2, <3>3 DEF h
    <2> QED BY <2>6, <2>7, <2>8
<1>5. CASE wakeup
    <2> DEFINE f == Head(ready).f
    <2>1. /\ f \in Fut /\ Head(ready).n = 0
          /\ cur' = [t \in Task |-> IF cur[t] = f THEN None ELSE cur[t]]
          /\ fut' = [fut EXCEPT ![f] = "free"] /\ UNCHANGED <<cbs, fds, transport>>
        BY <1>5, Zenon DEF wakeup
    <2>2. fut[f] # "pending"
        BY <1>2, <2>1 DEF QueuedIsDone
    <2>3. \A d \in Dirs : fds[d].f \in Fut => Head(ready) # fds[d]
        <3> SUFFICES ASSUME NEW d \in Dirs, fds[d].f \in Fut PROVE fds[d].n > 0
            BY <2>1
        <3>1. fds[d] \in Handle \cup {NoHandle, TransportFd}
            BY DEF TypeInv
        <3>2. NoHandle.f = None /\ TransportFd.f = None
            BY DEF NoHandle, TransportFd
        <3> QED BY <3>1, <3>2, SockConstants DEF Handle
    <2>4. fds["w"].f # f
        <3> SUFFICES ASSUME fds["w"].f = Head(ready).f PROVE FALSE
            OBVIOUS
        <3>1. PICK i \in DOMAIN ready : ready[i] = fds["w"] /\ \A j \in 1..i - 1 : ready[j].f # f
            BY <2>1, <2>2 DEF WriterEndsFirst
        <3>2. i # 1
            BY <1>2, <2>1, <2>3, <3>1 DEF Dirs
        <3>3. 1 \in 1..i - 1
            BY <1>2, <3>2
        <3> QED BY <1>2, <3>1, <3>3
    <2> HIDE DEF f
    <2>5. \A g \in Fut : fut'[g] = "pending" <=> fut[g] = "pending"
        BY <2>1, <2>2, Zenon DEF TypeInv
    <2>6. OwnDirection' /\ DoneScheduled'
        BY <2>1, <2>5, Zenon DEF OwnDirection, DoneScheduled
    <2>7. WriterEndsFirst'
        <3> SUFFICES ASSUME fds["w"].f \in Fut PROVE WriterEndsFirst'
            BY <2>1, Zenon DEF WriterEndsFirst
        <3>1. \E t \in Task : cur'[t] = fds["w"].f
            BY <2>1, <2>4 DEF WriterEndsFirst, TypeInv
        <3> QED BY <1>3, <2>1, <2>3, <2>5, <3>1, Zenon DEF WriterEndsFirst, Dirs
    <2>8. WatchEnds'
        <3> SUFFICES ASSUME NEW d \in Dirs, fds[d].f \in Fut, fut[fds[d].f] # "pending",
                            ~(d = "r" /\ transport)
                     PROVE  \E i \in DOMAIN ready' : ready'[i] = fds[d]
            BY <2>1, <2>5 DEF WatchEnds, Dirs
        <3>1. PICK i \in DOMAIN ready : ready[i] = fds[d]
            BY Zenon DEF WatchEnds, Dirs
        <3> QED BY <1>2, <2>3, <3>1
    <2> QED BY <2>6, <2>7, <2>8
<1>6. CASE register_reader
    <2>1. /\ UNCHANGED <<cur, fut, cbs>> /\ Head(ready) = Register
          /\ fds' = fds \/ fds' = [fds EXCEPT !["r"] = TransportFd]
        BY <1>6 DEF register_reader, futures, add_watcher
    <2>2. TransportFd.f = None /\ Head(ready).f = None
        BY <2>1 DEF TransportFd, Register, Wakeup
    <2>3. \A d \in Dirs : fds'[d] = fds[d] \/ fds'[d].f = None
        BY <2>1, <2>2, Zenon DEF TypeInv
    <2>4. OwnDirection' /\ DoneScheduled'
        BY <2>1, <2>3, SockConstants DEF OwnDirection, DoneScheduled
    <2>5. WriterEndsFirst'
        <3> SUFFICES ASSUME fds'["w"].f \in Fut PROVE WriterEndsFirst'
            BY DEF WriterEndsFirst
        <3>1. fds'["w"] = fds["w"] /\ Head(ready) # fds["w"]
            BY <2>2, <2>3, SockConstants DEF Dirs
        <3> QED BY <1>1, <1>3, <2>1, <3>1 DEF WriterEndsFirst
    <2>6. WatchEnds'
        <3> SUFFICES ASSUME NEW d \in Dirs, fds'[d].f \in Fut, fut[fds'[d].f] # "pending",
                            ~(d = "r" /\ transport)
                     PROVE  \E i \in DOMAIN ready' : ready'[i] = fds'[d]
            BY <1>1, <2>1 DEF WatchEnds, Dirs
        <3>1. fds'[d] = fds[d] /\ Head(ready) # fds[d]
            BY <2>2, <2>3, SockConstants
        <3>2. PICK i \in DOMAIN ready : ready[i] = fds[d]
            BY <3>1 DEF WatchEnds, Dirs
        <3> QED BY <1>2, <3>1, <3>2
    <2> QED BY <2>4, <2>5, <2>6
<1> QED BY <1>4, <1>5, <1>6 DEF RunReady

\* Every step preserves the second part too.
LEMMA EndsStep == WatchInv /\ [Next]_vars => EndsInv'
<1> SUFFICES ASSUME WatchInv, [Next]_vars PROVE EndsInv'
    OBVIOUS
<1> USE DEF others, futures, Reading, Writing, Dirs
<1>1. CASE \E t \in Task : Start(t)
    <2> PICK t \in Task : Start(t)
        BY <1>1
    <2>1. CASE sock_recv(t)
        BY <2>1, WaitEnds, EndsStutter DEF sock_recv, Take
    <2>2. CASE sock_accept(t)
        BY <2>2, WaitEnds, EndsStutter DEF sock_accept, Take
    <2>3. CASE sock_sendall(t)
        BY <2>3, WaitEnds, EndsStutter DEF sock_sendall
    <2>4. CASE sock_sendto(t)
        BY <2>4, WaitEnds, EndsStutter DEF sock_sendto
    <2>5. CASE sock_connect(t)
        BY <2>5, WaitEnds, EndsStutter DEF sock_connect
    <2> QED BY <2>1, <2>2, <2>3, <2>4, <2>5 DEF Start
<1>2. CASE \E t \in Task : cancel(t)
    <2> PICK t \in Task : cancel(t)
        BY <1>2
    <2> QED BY FinishEnds DEF cancel, WatchInv, SockInv, TypeInv, Pending
<1>3. CASE \E d \in {"r", "w"} : Ready(d)
    <2> PICK d \in {"r", "w"} : Ready(d)
        BY <1>3, Zenon
    <2> USE FinishEnds DEF Fired, Ends, Fails, Taken, Pending
    <2>1. CASE recv_ready(d)
        BY <2>1, Zenon DEF recv_ready
    <2>2. CASE accept_ready(d)
        BY <2>2 DEF accept_ready
    <2>3. CASE sendall_ready(d)
        <3>1. CASE Fails(d, "sendall")
            BY <3>1
        <3>2. CASE ~Fails(d, "sendall")
            <4>1. /\ fds[d].f \in Fut /\ Pending(fds[d].f)
                  /\ UNCHANGED <<cur, fds, transport>>
                  /\ Finish(fds[d].f, "result") \/ UNCHANGED <<fut, cbs, ready>>
                BY <2>3, <3>2, Zenon DEF sendall_ready
            <4> QED BY <4>1, EndsStutter, Zenon
        <3> QED BY <3>1, <3>2
    <2>4. CASE sendto_ready(d)
        BY <2>4, Zenon DEF sendto_ready
    <2>5. CASE connect_ready(d)
        BY <2>5 DEF connect_ready
    <2> QED BY <2>1, <2>2, <2>3, <2>4, <2>5 DEF Ready
<1>4. CASE \E d \in {"r", "w"} : accept_again(d)
    BY <1>4, AgainEnds
<1>5. CASE RunReady
    BY <1>5, QueueEnds
<1>6. CASE Kernel \/ Reopen
    BY <1>6, EndsStutter, Zenon DEF Kernel, Reopen
<1>7. CASE MakeTransport
    <2>1. /\ UNCHANGED <<cur, fut, cbs, fds>> /\ ready' = Append(ready, Register)
          /\ ~transport /\ transport' = TRUE
        BY <1>7 DEF MakeTransport
    <2>2. fds["w"].f \notin Fut
        BY <1>7, SockConstants, Zenon DEF MakeTransport, Idle, WatchInv, EndsInv, WriterEndsFirst
    <2> QED BY <2>1, <2>2 DEF WatchInv, EndsInv, OwnDirection, DoneScheduled,
               WriterEndsFirst, WatchEnds, Pending
<1>8. CASE CloseTransport
    <2>1. fds' = [d \in {"r", "w"} |-> NoHandle] /\ NoHandle.f = None
        BY <1>8 DEF CloseTransport, NoHandle
    <2> QED BY <2>1, SockConstants DEF EndsInv, OwnDirection, DoneScheduled,
               WriterEndsFirst, WatchEnds
<1>9. CASE UNCHANGED vars
    BY <1>9, EndsStutter DEF vars
<1> QED BY <1>1, <1>2, <1>3, <1>4, <1>5, <1>6, <1>7, <1>8, <1>9 DEF Next

\* For any number of tasks and futures, no watcher is left behind: one whose
\* operation is over has _sock_read_done or _sock_write_done in the queue, or
\* its slot is the transport's.
THEOREM WatchersEnd == Spec => []WatchEnds
<1>1. Init => WatchInv
    BY SockInit, EndsInit DEF WatchInv
<1>2. WatchInv /\ [Next]_vars => WatchInv'
    BY SockStep, EndsStep DEF WatchInv
<1>3. WatchInv => WatchEnds
    BY DEF WatchInv, EndsInv
<1> QED BY <1>1, <1>2, <1>3, PTL DEF Spec

-----------------------------------------------------------------------------
(* What sock_sendall sends.                                                *)

Upto(n) == [i \in 1..n |-> i]

\* A future's bytes on the wire are the first n of its data: as many as pos
\* counts while it is pending, all of them once it has its result.
WireInv ==
    \A f \in Fut :
        /\ pos[f] \in 0..Size
        /\ \E n \in 0..Size :
              /\ wire[f] = Upto(n)
              /\ fut[f] = "pending" => n = pos[f]
              /\ fut[f] = "result" /\ op[f] = "sendall" => n = Size

\* The functions it speaks of have a value for each future.
WireType == pos \in [Fut -> 0..Size] /\ wire \in [Fut -> Seq(1..Size)]

\* The next bytes continue the first ones.
LEMMA UptoGrows ==
    ASSUME NEW p \in Nat, NEW n \in Nat
    PROVE  Upto(p) \o [i \in 1..n |-> p + i] = Upto(p + n)
    BY DEF Upto

\* The length of the first n bytes, in a type with room for them.
LEMMA UptoLen ==
    ASSUME NEW n \in 0..Size
    PROVE  Upto(n) \in Seq(1..Size) /\ Len(Upto(n)) = n
    BY SockConstants DEF Upto

\* Where n more bytes lead to.
LEMMA Positions ==
    \A p \in 0..Size, n \in 1..Size : n <= Size - p => p \in Nat /\ n \in Nat /\ p + n \in 0..Size
    BY SockConstants

\* No byte is sent at first.
LEMMA WireInit == Init => WireType /\ WireInv
<1> SUFFICES ASSUME Init PROVE WireType /\ WireInv
    OBVIOUS
<1>1. <<>> = Upto(0)
    BY DEF Upto
<1> QED BY <1>1, SockConstants DEF Init, WireType, WireInv

\* Steps that leave the bytes alone and end no sock_sendall with success.
LEMMA WireStutter ==
    ASSUME WireType, WireInv, UNCHANGED <<pos, wire, op>>,
           \A f \in Fut : \/ fut'[f] = fut[f]
                          \/ fut'[f] # "pending" /\ (op[f] = "sendall" => fut'[f] # "result")
    PROVE  (WireType /\ WireInv)'
    BY DEF WireType, WireInv

\* A coroutine that waits has sent the n bytes of its first try.
LEMMA WaitWire ==
    ASSUME SockInv, WireType, WireInv, NEW t \in Task, NEW k, NEW n \in 0..Size,
           Wait(t, k, n)
    PROVE  (WireType /\ WireInv)'
<1> DEFINE g == CHOOSE g \in Fut : ~InUse(g)
<1>1. /\ g \in Fut /\ fut' = [fut EXCEPT ![g] = "pending"]
      /\ op' = [op EXCEPT ![g] = k]
      /\ pos' = [pos EXCEPT ![g] = n] /\ wire' = [wire EXCEPT ![g] = Upto(n)]
    BY DEF Wait, Rest, Upto
<1> HIDE DEF g
<1>2. fut'[g] = "pending" /\ pos'[g] = n /\ wire'[g] = Upto(n)
    BY <1>1 DEF WireType, SockInv, TypeInv
<1>3. \A f \in Fut \ {g} :
          fut'[f] = fut[f] /\ op'[f] = op[f] /\ pos'[f] = pos[f] /\ wire'[f] = wire[f]
    BY <1>1 DEF WireType, SockInv, TypeInv
<1>4. WireType'
    <2>1. Upto(n) \in Seq(1..Size)
        BY UptoLen, Zenon
    <2> QED BY <1>1, <2>1, Zenon DEF WireType
<1>5. WireInv'
    <2> SUFFICES ASSUME NEW f \in Fut
                 PROVE  /\ pos'[f] \in 0..Size
                        /\ \E m \in 0..Size :
                              /\ wire'[f] = Upto(m)
                              /\ fut'[f] = "pending" => m = pos'[f]
                              /\ fut'[f] = "result" /\ op'[f] = "sendall" => m = Size
        BY Zenon DEF WireInv
    <2>1. CASE f = g
        BY <1>2, <2>1
    <2>2. CASE f # g
        BY <1>3, <2>2, Zenon DEF WireInv
    <2> QED BY <2>1, <2>2, Zenon
<1> QED BY <1>4, <1>5

\* A registered callback that ends a future other than that of a sock_sendall,
\* or fails.
LEMMA EndsWire ==
    ASSUME SockInv, WireType, WireInv, NEW d \in Dirs, NEW k, Fired(d, k),
           NEW outcome \in {"result", "error"}, Ends(d, outcome),
           k = "sendall" => outcome = "error"
    PROVE  (WireType /\ WireInv)'
    BY WireStutter DEF Fired, Ends, Finish, SockInv, TypeInv

\* sock_sendall's callback sends the next n bytes.
LEMMA SendallWire ==
    ASSUME SockInv, WireType, WireInv, NEW d \in Dirs, sendall_ready(d)
    PROVE  (WireType /\ WireInv)'
<1>1. CASE Fails(d, "sendall")
    BY <1>1, EndsWire DEF Fails
<1>2. CASE ~Fails(d, "sendall")
    <2> DEFINE f == fds[d].f
    <2>1. /\ f \in Fut /\ fut[f] = "pending" /\ UNCHANGED op
          /\ pos[f] \in 0..Size /\ wire[f] = Upto(pos[f])
        BY <1>2, Zenon DEF sendall_ready, Fired, WireInv
    <2>2. PICK n \in 1..Size :
              /\ n <= Size - pos[f]
              /\ wire' = [wire EXCEPT ![f] = @ \o [i \in 1..n |-> pos[f] + i]]
              /\ IF pos[f] + n = Size
                 THEN Finish(f, "result") /\ UNCHANGED pos
                 ELSE pos' = [pos EXCEPT ![f] = @ + n] /\ UNCHANGED fut
        BY <1>2, Zenon DEF sendall_ready
    <2> HIDE DEF f
    <2>3. wire'[f] = Upto(pos[f] + n) /\ pos[f] + n \in 0..Size
        <3>1. wire'[f] = Upto(pos[f]) \o [i \in 1..n |-> pos[f] + i]
            BY <2>1, <2>2 DEF WireType
        <3>2. pos[f] \in Nat /\ n \in Nat /\ pos[f] + n \in 0..Size
            BY <2>1, <2>2, Positions, Zenon
        <3> QED BY <3>1, <3>2, UptoGrows, Zenon
    <2>4. WireType'
        <3>1. wire'[f] \in Seq(1..Size)
            BY <2>3, UptoLen
        <3> QED BY <2>1, <2>2, <2>3, <3>1, Zenon DEF WireType
    <2>5. \A g \in Fut \ {f} : fut'[g] = fut[g] /\ pos'[g] = pos[g] /\ wire'[g] = wire[g]
        BY <2>1, <2>2 DEF WireType, SockInv, TypeInv, Finish
    <2>6. /\ pos'[f] \in 0..Size
          /\ fut'[f] = "pending" => pos'[f] = pos[f] + n
          /\ fut'[f] = "result" => pos[f] + n = Size
        <3>1. CASE pos[f] + n = Size
            <4>1. fut' = [fut EXCEPT ![f] = "result"] /\ pos' = pos
                BY <2>2, <3>1, Zenon DEF Finish
            <4>2. fut'[f] = "result"
                BY <2>1, <4>1, Zenon DEF SockInv, TypeInv
            <4> QED BY <2>1, <3>1, <4>1, <4>2
        <3>2. CASE pos[f] + n # Size
            <4>1. fut' = fut /\ pos' = [pos EXCEPT ![f] = @ + n]
                BY <2>2, <3>2, Zenon
            <4>2. pos'[f] = pos[f] + n
                BY <2>1, <4>1, Zenon DEF WireType
            <4> QED BY <2>1, <2>3, <4>1, <4>2
        <3> QED BY <3>1, <3>2, Zenon
    <2>7. WireInv'
        <3>1. \E m \in 0..Size : /\ wire'[f] = Upto(m)
                                 /\ fut'[f] = "pending" => m = pos'[f]
                                 /\ fut'[f] = "result" => m = Size
            BY <2>3, <2>6
        <3>2. \A g \in Fut \ {f} : op'[g] = op[g]
            BY <2>1
        <3> QED BY <2>1, <2>5, <2>6, <3>1, <3>2 DEF WireInv
    <2> QED BY <2>4, <2>7, Zenon
<1> QED BY <1>1, <1>2

\* Every step keeps the bytes of a sock_sendall in order.
LEMMA WireStep == SockInv /\ WireType /\ WireInv /\ [Next]_vars => (WireType /\ WireInv)'
<1> SUFFICES ASSUME SockInv, WireType, WireInv, [Next]_vars PROVE (WireType /\ WireInv)'
    OBVIOUS
<1> USE DEF others, futures, Dirs
<1>1. CASE \E t \in Task : Start(t)
    <2> PICK t \in Task : Start(t)
        BY <1>1
    <2>0. 0 \in 0..Size
        BY SockConstants
    <2>1. CASE sock_recv(t) \/ sock_accept(t)
        BY <2>0, <2>1, WaitWire, WireStutter, Zenon DEF sock_recv, sock_accept, Take
    <2>2. CASE sock_sendall(t)
        BY <2>2, WaitWire, WireStutter, Zenon DEF sock_sendall
    <2>3. CASE sock_sendto(t) \/ sock_connect(t)
        BY <2>0, <2>3, WaitWire, WireStutter, Zenon DEF sock_sendto, sock_connect
    <2> QED BY <2>1, <2>2, <2>3 DEF Start
<1>2. CASE \E t \in Task : cancel(t)
    BY <1>2, WireStutter DEF cancel, Finish, SockInv, TypeInv
<1>3. CASE \E d \in {"r", "w"} : Ready(d)
    <2> PICK d \in {"r", "w"} : Ready(d)
        BY <1>3
    <2>1. CASE recv_ready(d) \/ accept_ready(d) \/ sendto_ready(d)
        BY <2>1, EndsWire DEF recv_ready, accept_ready, sendto_ready, Fails, Taken
    <2>2. CASE connect_ready(d)
        BY <2>2, EndsWire DEF connect_ready
    <2>3. CASE sendall_ready(d)
        BY <2>3, SendallWire
    <2> QED BY <2>1, <2>2, <2>3 DEF Ready
<1>4. CASE \E d \in {"r", "w"} : accept_again(d)
    BY <1>4, WireStutter, Zenon DEF accept_again
<1>5. CASE sock_done \/ register_reader \/ Kernel \/ Reopen \/ MakeTransport \/ CloseTransport
    BY <1>5, WireStutter
       DEF sock_done, register_reader, Kernel, Reopen, MakeTransport, CloseTransport
<1>6. CASE wakeup
    <2>1. PICK f \in Fut : /\ fut' = [fut EXCEPT ![f] = "free"]
                           /\ op' = [op EXCEPT ![f] = "recv"]
                           /\ pos' = [pos EXCEPT ![f] = 0]
                           /\ wire' = [wire EXCEPT ![f] = <<>>]
        BY <1>6, Zenon DEF wakeup
    <2>2. <<>> = Upto(0) /\ 0 \in 0..Size
        BY SockConstants DEF Upto
    <2> QED BY <2>1, <2>2 DEF WireType, WireInv, SockInv, TypeInv
<1>7. CASE UNCHANGED vars
    BY <1>7, WireStutter, Zenon DEF vars
<1> QED BY <1>1, <1>2, <1>3, <1>4, <1>5, <1>6, <1>7 DEF Next, RunReady

\* For data of any length and any number of tasks, sock_sendall sends each byte
\* once and in order, and ends with success only when all are sent.
THEOREM SendallComplete == Spec => []SendsAll
<1>1. WireType /\ WireInv => SendsAll
    <2> SUFFICES ASSUME WireInv, NEW f \in Fut
                 PROVE  /\ wire[f] = [i \in 1..Len(wire[f]) |-> i]
                        /\ fut[f] = "result" /\ op[f] = "sendall" => Len(wire[f]) = Size
        BY Zenon DEF SendsAll
    <2>1. PICK n \in 0..Size : /\ wire[f] = Upto(n)
                               /\ fut[f] = "result" /\ op[f] = "sendall" => n = Size
        BY Zenon DEF WireInv
    <2>2. Len(wire[f]) = n
        BY <2>1, UptoLen
    <2> QED BY <2>1, <2>2, Zenon DEF Upto
<1> QED BY <1>1, SockInvariant, WireInit, WireStep, PTL DEF Spec
=============================================================================
