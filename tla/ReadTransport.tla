--------------------------- MODULE ReadTransport ---------------------------
(***************************************************************************)
(* The read side of a socket transport, from the kernel's receive queue to *)
(* the protocol: the drain-mode watcher task (drain_task, drain_loop) that *)
(* reads in Rust, the completions it queues, their delivery by the batch,  *)
(* and pause, resume, replay, EOF, errors and protocol switches in         *)
(* transports.py.  A BufferedProtocol is read in callback mode, whose      *)
(* watcher is FdReactor; of it only the guarantees checked there are used: *)
(* level triggering and at most one completion outstanding.                *)
(*                                                                         *)
(* The transport's write buffer is empty throughout, so close() and        *)
(* abort() are the same here.                                              *)
(***************************************************************************)
EXTENDS Naturals, Sequences, Functions

CONSTANTS
    Initial,     \* the protocol kinds a transport may start with
    Switches,    \* the kinds set_protocol may switch to
    Failing,     \* the socket may report an error
    Escaping,    \* error_received may raise through resume_reading
    Quantum,     \* reads per poll of the task (UDP_QUANTUM, TCP_QUANTUM_ITEMS)
    MaxSent,     \* bound: chunks the peer sends
    MaxQueued,   \* bound: completions queued and buffered for replay
    MaxDepth,    \* bound: frames on the Python stack
    Eof, Err, Ready   \* completions that carry no chunk

\* A data or buffered protocol of a stream transport, or the protocol of a
\* datagram transport.
Kind == {"stream", "buffered", "datagram"}

ASSUME TransportConstants ==
    /\ Failing \in BOOLEAN /\ Escaping \in BOOLEAN
    /\ Initial \subseteq Kind /\ Switches \subseteq Kind \ {"datagram"}
    /\ Quantum \in Nat \ {0}
    /\ MaxSent \in Nat /\ MaxQueued \in Nat /\ MaxDepth \in Nat
    /\ Eof # Err /\ Err # Ready /\ Ready # Eof
    /\ {Eof, Err, Ready} \cap Nat = {}

VARIABLES
    rcv, fin, err,     \* the kernel: receive queue, peer's EOF, pending error
    sent,              \* chunks sent so far; chunk n is the number n
    watch,             \* the registered reader: none, drain or callback
    task,              \* the drain task
    guard, flag, edge, \* readiness guard, Tokio flag, unfetched epoll event
    io,                \* LoopState.io, this transport's completions
    proto,             \* the protocol's kind; it determines _drain_kind
    paused, closing, replay,
    starting,          \* the call_soon of _register_reader has not run yet
    stack,             \* Python frames, innermost first
    phase,             \* what the loop's thread does
    got, ended,        \* history: what the protocol has received
    misrouted          \* history: data_received called on a BufferedProtocol

kernel == <<rcv, fin, err, sent>>
tokio  == <<task, guard, flag, edge>>
trans  == <<proto, paused, closing, starting>>
hist   == <<got, ended, misrouted>>
vars   == <<kernel, watch, tokio, io, trans, replay, stack, phase, hist>>

Chunk == 1..MaxSent
Frame == {"data", "eof", "error", "flush"}

\* Every variable stays in its range, and a drain task exists exactly while a
\* drain-mode reader is registered.
TypeOK ==
    /\ rcv \in Seq(Chunk) /\ sent \in 0..MaxSent
    /\ fin \in BOOLEAN /\ err \in BOOLEAN
    /\ watch \in {"none", "drain", "callback"}
    /\ task \in {"none", "prime", "parked", "more", "eof"}
    /\ guard \in {"none", "fresh", "stale"}
    /\ flag \in BOOLEAN /\ edge \in BOOLEAN
    /\ io \in Seq(Chunk \cup {Eof, Err, Ready})
    /\ proto \in Kind /\ paused \in BOOLEAN /\ closing \in BOOLEAN
    /\ replay \in Seq(Chunk \cup {Eof, Err})
    /\ starting \in BOOLEAN
    /\ stack \in Seq(Frame)
    /\ phase \in {"python", "io", "tasks"}
    /\ got \in Seq(Chunk) /\ ended \in BOOLEAN /\ misrouted \in BOOLEAN
    /\ (task # "none") = (watch = "drain")

Init ==
    /\ rcv = <<>> /\ fin = FALSE /\ err = FALSE /\ sent = 0
    /\ watch = "none" /\ task = "none"
    /\ guard = "none" /\ flag = FALSE /\ edge = FALSE
    /\ io = <<>> /\ replay = <<>>
    /\ proto \in Initial
    /\ paused = FALSE /\ closing = FALSE /\ starting = TRUE
    /\ stack = <<>> /\ phase = "python"
    /\ got = <<>> /\ ended = FALSE /\ misrouted = FALSE

-----------------------------------------------------------------------------
(* The kernel.                                                             *)

Datagram == proto = "datagram"

Readable == rcv # <<>> \/ fin \/ err

Send ==
    /\ sent < MaxSent /\ ~fin
    /\ sent' = sent + 1
    /\ rcv' = Append(rcv, sent + 1)
    /\ edge' = (watch = "drain")
    /\ UNCHANGED <<fin, err, watch, task, guard, flag, io, trans, replay,
                   stack, phase, hist>>

\* The peer shuts down, or resets the connection.
Finish ==
    /\ ~Datagram /\ ~fin
    /\ fin' = TRUE
    /\ err' \in {FALSE, Failing}
    /\ edge' = (watch = "drain")
    /\ UNCHANGED <<rcv, sent, watch, task, guard, flag, io, trans, replay,
                   stack, phase, hist>>

\* An ICMP error is reported to a datagram socket.
Reject ==
    /\ Datagram /\ Failing /\ ~err
    /\ err' = TRUE
    /\ edge' = (watch = "drain")
    /\ UNCHANGED <<rcv, fin, sent, watch, task, guard, flag, io, trans,
                   replay, stack, phase, hist>>

-----------------------------------------------------------------------------
(* Registration.                                                           *)

Mode(kind) == IF kind = "buffered" THEN "callback" ELSE "drain"

\* Seeded fault: a removed reader's data is dropped with its slot.
DropAll(q) == <<>>

\* Completions that outlive their registration: the slot keeps the drain
\* callback for data already read; a callback-mode slot is emptied, and its one
\* completion, queued behind all data, runs nothing.
Surviving(q) ==
    IF q # <<>> /\ q[Len(q)] = Ready THEN SubSeq(q, 1, Len(q) - 1) ELSE q

\* _add_tcp_reader, _add_udp_reader or _add_reader, with the completions q
\* queued: any previous reader is replaced and its task aborted.
Register(kind, q) ==
    /\ watch' = Mode(kind)
    /\ task' = IF Mode(kind) = "drain" THEN "prime" ELSE "none"
    /\ edge' = (Mode(kind) = "drain" /\ Readable)
    /\ flag' = FALSE /\ guard' = "none"
    /\ io' = Surviving(q)

\* _remove_reader
remove_reader(q) ==
    /\ watch' = "none" /\ task' = "none"
    /\ edge' = FALSE /\ flag' = FALSE /\ guard' = "none"
    /\ io' = Surviving(q)

KeepReader(q) == io' = q /\ UNCHANGED <<watch, tokio>>

-----------------------------------------------------------------------------
(* The drain task.                                                         *)

\* How many chunks one quantum of recv calls takes.  A stream reports an error
\* after the data before it, a datagram socket reports it first.
Taken ==
    IF Datagram /\ err THEN 0
    ELSE IF Len(rcv) < Quantum THEN Len(rcv) ELSE Quantum

\* What the call behind them returns: an error, the end, or EAGAIN.
Outcome ==
    IF Taken = Quantum THEN <<>> ELSE IF err THEN <<Err>>
    ELSE IF fin THEN <<Eof>> ELSE <<>>

\* Seeded fault: a full quantum is taken for a drained socket.
NeverFull(n) == FALSE

QuantumFull(n) == n = Quantum

\* clear_ready on the guard g, if the task has one.
ClearReady(g) == flag /\ g # "fresh"

\* One pass of drain_loop up to its next await.  After an EOF or a full
\* quantum the task yields and reads on; after EAGAIN or an error it parks.
Drain(g) ==
    LET read == SubSeq(rcv, 1, Taken) \o Outcome IN
    /\ Len(io) + Len(replay) + Len(read) <= MaxQueued
    /\ io' = io \o read
    /\ rcv' = SubSeq(rcv, Taken + 1, Len(rcv))
    /\ err' = (err /\ Outcome # <<Err>>)
    /\ \/ /\ QuantumFull(Taken)
          /\ task' = "more" /\ guard' = g /\ UNCHANGED flag
       \/ /\ Outcome = <<Eof>>
          /\ task' = "eof" /\ guard' = g /\ UNCHANGED flag
       \/ /\ ~QuantumFull(Taken) /\ Outcome # <<Eof>>
          /\ task' = "parked" /\ guard' = "none" /\ flag' = ClearReady(g)
    /\ UNCHANGED <<fin, sent, watch, edge, trans, replay, stack, phase, hist>>

\* The priming quantum, and the quanta after a yield.  A task that yields runs
\* again behind the loop future it woke, whose batch empties the queue.
DrainOn ==
    /\ phase = "tasks"
    /\ task = "prime" \/ (task \in {"more", "eof"} /\ io = <<>>)
    /\ Drain(guard)

\* readable().await completes with a fresh guard.
DrainWoken == phase = "tasks" /\ task = "parked" /\ flag /\ Drain("fresh")

DriverTurn ==
    /\ phase = "tasks" /\ edge
    /\ edge' = FALSE
    /\ flag' = (flag \/ Readable)
    /\ guard' = IF Readable /\ guard = "fresh" THEN "stale" ELSE guard
    /\ UNCHANGED <<kernel, watch, task, io, trans, replay, stack, phase, hist>>

\* The callback-mode watcher fires; it may do so once for I/O already read.
CallbackFires ==
    /\ phase = "tasks" /\ watch = "callback" /\ Ready \notin Range(io)
    /\ io' = Append(io, Ready)
    /\ UNCHANGED <<kernel, watch, tokio, trans, replay, stack, phase, hist>>

-----------------------------------------------------------------------------
(* The transport.                                                          *)

Reading == ~closing /\ ~paused

\* Protocol code runs: in a callback from the transport, or as a task.
PythonRuns == IF stack = <<>> THEN phase = "python" ELSE Head(stack) # "flush"

Enter(frame, rest) == stack' = <<frame>> \o rest

\* close, abort, _fatal_error
Teardown(q) ==
    /\ closing' = TRUE
    /\ IF closing THEN KeepReader(q) ELSE remove_reader(q)
    /\ UNCHANGED <<proto, paused, starting>>

\* _deliver_stream, _deliver_datagram, _deliver_error, _read_ready__on_eof:
\* the protocol is called with c, over the frames rest.  A BufferedProtocol
\* has no data_received: the call fails and the transport is torn down.
Deliver(c, rest, q) ==
    \/ /\ c \in Chunk /\ proto # "buffered"
       /\ got' = Append(got, c)
       /\ Enter("data", rest) /\ KeepReader(q)
       /\ UNCHANGED <<trans, ended, misrouted>>
    \/ /\ c \in Chunk /\ proto = "buffered"
       /\ misrouted' = TRUE
       /\ stack' = rest /\ Teardown(q)
       /\ UNCHANGED <<got, ended>>
    \/ /\ c = Eof
       /\ ended' = TRUE
       /\ Enter("eof", rest) /\ KeepReader(q)
       /\ UNCHANGED <<trans, got, misrouted>>
    \/ /\ c = Err /\ Datagram
       /\ Enter("error", rest) /\ KeepReader(q)
       /\ UNCHANGED <<trans, hist>>
    \/ /\ c = Err /\ ~Datagram
       /\ stack' = rest /\ Teardown(q)
       /\ UNCHANGED hist

\* Seeded fault: what arrives during a pause is delivered at once.
IgnorePause == FALSE

\* _drain_stream, _drain_datagram, _drain_error: stash it for the resume.
Stashes == paused

\* The batch hands a payload to the transport.
DeliverDrainData ==
    /\ phase = "io" /\ stack = <<>> /\ io # <<>> /\ Head(io) # Ready
    /\ \/ /\ closing
          /\ KeepReader(Tail(io))
          /\ UNCHANGED <<trans, replay, stack, hist>>
       \/ /\ ~closing /\ Stashes
          /\ replay' = Append(replay, Head(io))
          /\ KeepReader(Tail(io))
          /\ UNCHANGED <<trans, stack, hist>>
       \/ /\ ~closing /\ ~Stashes
          /\ Deliver(Head(io), <<>>, Tail(io))
          /\ UNCHANGED replay
    /\ UNCHANGED <<kernel, phase>>

\* _read_ready__get_buffer: one recv into the protocol's buffer.
ReadReady ==
    /\ phase = "io" /\ stack = <<>> /\ io # <<>> /\ Head(io) = Ready
    /\ \/ /\ rcv # <<>>
          /\ rcv' = Tail(rcv)
          /\ got' = Append(got, Head(rcv))
          /\ Enter("data", <<>>) /\ KeepReader(Tail(io))
          /\ UNCHANGED <<err, trans, ended>>
       \/ /\ rcv = <<>> /\ err
          /\ err' = FALSE
          /\ Teardown(Tail(io))
          /\ UNCHANGED <<rcv, stack, got, ended>>
       \/ /\ rcv = <<>> /\ ~err /\ fin
          /\ ended' = TRUE
          /\ Enter("eof", <<>>) /\ KeepReader(Tail(io))
          /\ UNCHANGED <<rcv, err, trans, got>>
       \/ /\ ~Readable
          /\ KeepReader(Tail(io))
          /\ UNCHANGED <<rcv, err, trans, stack, got, ended>>
       \/ /\ Teardown(Tail(io))                          \* get_buffer failed
          /\ UNCHANGED <<rcv, err, stack, got, ended>>
    /\ UNCHANGED <<fin, sent, replay, phase, misrouted>>

\* The first _register_reader, scheduled behind connection_made.
StartReading ==
    /\ phase = "python" /\ stack = <<>> /\ starting
    /\ starting' = FALSE
    /\ IF Reading THEN Register(proto, io) ELSE KeepReader(io)
    /\ UNCHANGED <<kernel, proto, paused, closing, replay, stack, phase, hist>>

\* A drain-mode pause keeps the watcher, a callback-mode one removes it.
pause_reading ==
    /\ PythonRuns /\ Reading
    /\ paused' = TRUE
    /\ IF proto = "buffered" THEN remove_reader(io) ELSE KeepReader(io)
    /\ UNCHANGED <<kernel, proto, closing, starting, replay, stack, phase, hist>>

\* Clears the flag, then flushes the replay in a frame of its own.
resume_reading ==
    /\ PythonRuns /\ ~closing /\ paused /\ Len(stack) < MaxDepth
    /\ paused' = FALSE
    /\ Enter("flush", stack)
    /\ KeepReader(io)
    /\ UNCHANGED <<kernel, proto, closing, starting, replay, phase, hist>>

\* _flush_replay: deliver the next item.
FlushNext ==
    /\ stack # <<>> /\ Head(stack) = "flush"
    /\ replay # <<>> /\ Reading
    /\ replay' = Tail(replay)
    /\ Deliver(Head(replay), stack, io)
    /\ UNCHANGED <<kernel, phase>>

\* The end of resume_reading: register unless a watcher is live.
FlushDone ==
    /\ stack # <<>> /\ Head(stack) = "flush"
    /\ replay = <<>> \/ ~Reading
    /\ stack' = Tail(stack)
    /\ IF Reading /\ watch = "none" THEN Register(proto, io) ELSE KeepReader(io)
    /\ UNCHANGED <<kernel, trans, replay, phase, hist>>

\* set_protocol: a live registration follows the protocol's kind.
set_protocol(kind) ==
    /\ PythonRuns /\ ~Datagram /\ kind # proto
    /\ proto' = kind
    /\ IF Reading /\ watch # "none" THEN Register(kind, io) ELSE KeepReader(io)
    /\ UNCHANGED <<kernel, paused, closing, starting, replay, stack, phase, hist>>

close ==
    /\ PythonRuns /\ ~closing
    /\ Teardown(io)
    /\ UNCHANGED <<kernel, replay, stack, phase, hist>>

\* The protocol's callback returns; after an EOF it keeps the connection
\* open, and the reader is removed, or the transport closes.
Return ==
    /\ stack # <<>> /\ Head(stack) # "flush"
    /\ stack' = Tail(stack)
    /\ \/ Head(stack) # "eof" /\ KeepReader(io) /\ UNCHANGED trans
       \/ Head(stack) = "eof" /\ remove_reader(io) /\ UNCHANGED trans
       \/ Head(stack) = "eof" /\ Teardown(io)
    /\ UNCHANGED <<kernel, replay, phase, hist>>

\* The protocol's callback raises: the transport is torn down.
Raise ==
    /\ stack # <<>> /\ Head(stack) \in {"data", "eof"}
    /\ stack' = Tail(stack)
    /\ Teardown(io)
    /\ UNCHANGED <<kernel, replay, phase, hist>>

\* error_received raises: nothing catches it, resume_reading ends with it.
Escape ==
    /\ Escaping /\ stack # <<>> /\ Head(stack) = "error"
    /\ stack' = IF Len(stack) > 1 THEN SubSeq(stack, 3, Len(stack)) ELSE <<>>
    /\ UNCHANGED <<kernel, watch, tokio, io, trans, replay, phase, hist>>

-----------------------------------------------------------------------------
(* The loop's thread.                                                      *)

Goto(p) ==
    /\ stack = <<>>
    /\ phase' = p
    /\ UNCHANGED <<kernel, watch, tokio, io, trans, replay, stack, hist>>

EnterIo    == phase = "python" /\ Goto("io")
EndBatch   == phase = "io" /\ io = <<>> /\ Goto("tasks")
BeginBatch == phase = "tasks" /\ Goto("python")

Batch == EnterIo \/ DeliverDrainData \/ ReadReady \/ EndBatch
            \/ StartReading \/ FlushNext \/ FlushDone \/ Return
Task  == DrainOn \/ DrainWoken

Next ==
    \/ Send \/ Finish \/ Reject
    \/ Batch \/ BeginBatch \/ Task \/ DriverTurn \/ CallbackFires
    \/ pause_reading \/ resume_reading \/ close \/ Raise \/ Escape
    \/ \E kind \in Switches : set_protocol(kind)

Spec == Init /\ [][Next]_vars

\* Batches end, run what is ready and return; a notified loop is polled; between
\* batches the runtime gets round to the task and to its driver.
Fairness ==
    /\ WF_vars(Batch) /\ SF_vars(StartReading)
    /\ WF_vars(BeginBatch /\ (io # <<>> \/ starting))
    /\ SF_vars(Task) /\ SF_vars(DriverTurn)
    /\ SF_vars(CallbackFires /\ Readable)

FairSpec == Spec /\ Fairness

-----------------------------------------------------------------------------
(* Properties.                                                             *)

\* No chunk is lost, duplicated or reordered between the kernel and the
\* protocol: what was delivered, what waits for a resume, what is queued and
\* what is still in the kernel are together what the peer sent.
NothingLost ==
    LET all    == got \o replay \o io \o rcv
        chunks == {i \in DOMAIN all : all[i] \in Chunk} IN
    ~closing =>
        /\ {all[i] : i \in chunks} = 1..sent
        /\ \A i, j \in chunks : i < j => all[i] < all[j]

\* The transport's read side implements the abstract stream: in order, the
\* end last, nothing while paused or after close.
Stream == INSTANCE ByteStream WITH
    finished <- fin, reading <- ~paused, open <- ~closing

ImplementsStream == Stream!Spec

Flows(kinds) ==
    \A n \in Chunk :
        sent >= n /\ Reading /\ proto \in kinds ~> Len(got) >= n \/ ~Reading

\* A chunk sent to a stream transport is delivered, unless the transport stops
\* reading: the drain task never parks over data the kernel still holds.
StreamFlows == Flows({"stream", "buffered"})

\* The same of a datagram transport, on whose socket errors are reported ahead
\* of the data queued behind them.
DatagramFlows == Flows({"datagram"})

\* data_received is called only on protocols that have it.
RightEntryPoint == ~misrouted
=============================================================================
