# A TLA+ model of tokioop

tokioop is an asyncio event loop whose scheduler and fd reactor are written in
Rust over a single-threaded Tokio runtime, with transports and the rest of the
loop's API in Python. This directory holds TLA+ modules of it, TLC
configurations that check them on small instances, and machine-checked proofs
about the scheduler, `run_until_complete`, the fd registry, both sides of a
transport, the `sock_*` operations, endpoints and servers, the executor's
shutdown and `sendfile`.

Paths below are those of the repository: `src/*.rs` is Rust,
`python/tokioop/*.py` Python. `PROJECT.json` maps each definition to its lines.

## The system

| Part | Source | State | Operations | What is hard |
|---|---|---|---|---|
| Scheduler | `event_loop.rs`, `state.rs`, `handles.rs` | `ready`, `timers`, `io`, `running`, `stop_requested`, `closed`, `notify` | `call_soon`, `call_soon_threadsafe`, `call_at`, `call_later`, `cancel`, `stop`, `close`, `run_forever`, one batch, the park | foreign threads run between any two checks of the parked loop |
| fd reactor, callback mode | `fd.rs`, `fd_unix.rs`, `handles.rs` | registry `fds`, slots, tasks, `n_watchers`, Tokio's readiness flags | `add_reader`/`add_writer`, remove, `FdHandle.cancel`, `fd_task` | level-triggered callbacks from edge-triggered readiness |
| fd reactor, drain mode | `fd_unix.rs`, `state.rs` | the drain task, queued payloads | `drain_task`, `drain_loop` | data already read must outlive pause, removal and replacement |
| Transports, read side | `transports.py` | `_paused`, `_closing`, `_replay`, the protocol | pause, resume, `set_protocol`, delivery, EOF, errors | replay order; the protocol re-enters the transport |
| Transports, write side | `transports.py` | `_buffer`, `_conn_lost`, `_eof`, flow control | `write`, `writelines`, `sendto`, `write_eof`, `close`, `abort`, the writer | partial sends; re-entrant callbacks |
| `sock_*` | `loop.py` | futures tied to fd registrations | `sock_recv` and siblings, `sock_accept`, `sock_sendall`, `sock_sendto`, `sock_connect` | a done callback that runs late, on a descriptor in new hands |
| Opening a transport | `loop.py`, `transports.py` | socket, transport, waiter, entries of the ready queue | the constructors, `_make_*_transport`, close, abort | cancellation and close between the three scheduled calls |
| Endpoints | `loop.py` | sockets nobody else knows of | `create_connection`, `create_datagram_endpoint`, `create_unix_connection`, `connect_accepted_socket`, `create_server`, `create_unix_server` | clean-up on each failure path |
| Server | `loop.py` | listening socket, back-off timers | accept burst, EMFILE back-off, a task per connection, stop, `wait_closed` | a late back-off timer; a connection accepted at the close |
| Executor | `loop.py` | default executor, jobs, joining thread | `run_in_executor`, `set_default_executor`, `shutdown_default_executor`, `close` | a thread that looks at the loop without a lock |
| `sendfile` | `loop.py` | a bytearray shared by reads and sends, the file's position | `sock_sendfile`, `sendfile` and their fallbacks | a view that outlives its contents |
| Signals | `loop.py` | handlers, recorded signals | `add_signal_handler`, `remove_signal_handler` | a signal just before the park or in it |
| `run_until_complete` | `event_loop.rs` | the future, its done callback, the call in progress | the call, the callback, the return | a run that ends before its future; a callback left behind |

The parts meet in two queues. Watcher tasks push completions to `io` and notify
the loop; the batch takes them and calls Python, which calls `add_reader`,
`remove_reader` and the transports' operations. Tasks and the I/O driver run
only while the loop future is pending, that is between batches. Everything in
`loop.py` runs in those callbacks, except jobs of the executor, the thread that
joins it, and signal handlers, which come back by `call_soon_threadsafe`.

## Modules

* `EventLoop` models the scheduler. `pc` says where the loop's thread is: in a
  phase of `run_batch`, at one of the checks of `run_main`, yielding, parked, or
  outside a run. Foreign threads take two steps, the push and the notification.
  The GIL is modelled by who may step: a batch keeps it except inside a Python
  callback; what `run_main` does outside a batch runs without it.
* `RunUntilComplete` puts `run_until_complete` on top of it: the done callback
  on the future, the run, and the return by completion or by somebody's stop.
* `FdReactor` models callback mode: registry, slots and their cancellation
  flags, `fd_task` from its priming poll to the rendezvous, readiness guards,
  `n_watchers`, abort and release of tasks. An `AsyncFd` is registered for both
  directions whichever its watcher is for: every event of the descriptor moves
  Tokio's tick and makes an older guard stale. The scheduler is reduced to the
  order of its phases.
* `ReadTransport` composes the kernel's receive queue, the drain task, the
  batch's delivery and the read side of both transports. A `BufferedProtocol`
  is read in callback mode; of `FdReactor` the module uses what is checked
  there: level triggering and one completion outstanding.
* `ByteStream` is the abstract specification of the read side: the peer's
  chunks, each once, in order, the end last, nothing while paused or after
  close. `ReadTransport` is shown to implement it.
* `WriteTransport` models the write side of both transports. One thread runs
  it; what interleaves is protocol code, called in the middle of an operation
  and calling back. `stack` holds the Python frames in progress.
* `SockOps` models the `sock_*` coroutines of several tasks on one descriptor,
  which is closed and reused. A registration is known by its descriptor alone;
  `ready` holds the futures' done callbacks and the tasks' wakeups in the order
  of the loop's queue.
* `Opening` models how a transport is made, told `connection_made`, given its
  reader, and closed, in terms of the ready queue. `Connect` puts the coroutines
  that create endpoints on top of it, `Serve` the server, and `Endpoints`
  composes the two: a behaviour makes one call, or runs one server.
* `Executor` models the default executor, its shutdown and the joining thread.
  `Sendfile` composes it with both kinds of `sendfile`, whose reads are jobs.
* `Signals` models handlers, the interpreter's record of signals, and the park.
* `MCEventLoop`, `MCFdReactor`, `MCWriteTransport` give TLC its constants; the
  other modules take theirs from the configuration.
* `SchedulerProofs` (about `EventLoop` and `RunUntilComplete`), `FdReactorProofs`,
  `ReadTransportProofs`, `WriteTransportProofs`, `SockOpsProofs`,
  `OpeningProofs`, `EndpointsProofs` (which rests on it) and `ExecutorProofs`
  hold the theorems. The modules they are about define the few helpers on
  sequences they need (`Without` in `EventLoop`): what a module extends is part
  of every proof obligation.

Operators commented "Seeded fault" are wrong versions of the definition that
follows them. With the fault in place of the original, the property named in
`PROJECT.json` fails; they are not used by the specifications.

### Abstractions

* Debug mode is off: thread checks and slow-callback logging are left out.
* A callback, chunk or byte is a model value or a number; contents are never
  looked at. A datagram is one byte long. `_conn_lost` is a Boolean.
* `run_forever`'s set-up, `close`, and each `check_closed` with the push after
  it are single steps: the thread holds the GIL from first to last.
* Plain `call_soon` and `call_later` are called on the loop's thread only, as
  the API demands.
* In `RunUntilComplete` a future stands for the handle of its callback too. It
  is completed on the loop's thread, and not awaited again while an earlier
  callback of it is queued. How a task comes to complete is CPython's.
* One quantum of reads is one step. The driver does not turn inside it; a chunk
  that arrives meanwhile is read now or in the next quantum.
* External parts are modelled from how the code uses them: Tokio (a stored
  permit, readiness flags, guards that do not clear a newer event, abort at the
  next poll), epoll (adding a ready fd reports it), the kernel's queues, the
  peer, and asyncio's flow-control mixin.
* A registration duplicates its descriptor, which can fail. `FdReactor` leaves
  the failure out, as it does those of `AsyncFd::new` and `poll(2)`: its state
  stays as it was. What it means to the caller is in `Opening` (the transport
  stays without a reader), `Connect` (the server is not started) and `Serve`,
  which counts the duplicates of its readers among the descriptors. There a
  duplicate is closed with the step that removes its reader; the code closes it
  when the aborted task is dropped, soon after.
* `_read_ready__data_received` is not modelled: data protocols are always read
  in drain mode. `_write_send` is not either: it is used only where `sendmsg`
  is missing.
* In `ReadTransport` the write buffer is empty. In `WriteTransport` a protocol
  makes no call after `connection_lost` returned: the transport has neither
  loop nor socket then. What it calls inside `connection_lost` is a constant,
  `Parting`, without writes in the runs; see `ConnectionLostOnce` below.
* `cancel` of a `FdHandle`, timers and ready handles are actions of
  `FdReactor` and `EventLoop`.
* In `SockOps` the reactor calls a registered callback while the descriptor is
  ready, and perhaps once more after, which is what `FdReactor` shows of it.
  A second operation on the same direction takes the registration of the first
  over, as in the code; nothing is promised to the first one then. The siblings
  of `sock_recv` differ in the system call alone. A future is used again when
  nothing refers to it.
* `Opening` has an empty write buffer. With TLS, what is closed is the transport
  of `asyncio.sslproto`, taken to close the transport below it at once; the
  handshake is a step that succeeds or fails.
* In `Connect` an address is a number and a failure of `socket()`,
  `setsockopt` or `bind` is one failed attempt. The race of happy eyeballs is
  asyncio's `staggered_race`: attempts start in order, the first to connect
  wins and the others are cancelled. `Serve` has one listening socket; asyncio's
  `Server` is external and counts its transports.
* In `Executor` a pool takes, runs and joins jobs; its number of threads is not
  limited. In `Sendfile` a byte is its number in the file. A read may raise and
  the connection may break at any time; nobody else closes the transport during
  the call.
* In `WriteTransport` the call `cancel` stands for the cancellation of a task in
  `sendfile`, which awaits the empty waiter.

## Runs that pass

| Run | Instance | Distinct states | What it shows |
|---|---|---|---|
| `loop_safety` | 3 handles, 2 threads, 1 watcher, delays 1 and 100, instant 0, clock to 1, symmetry | 913,520 | `TypeOK`, `SleepsOnlyWhenIdle` (no lost wakeup), `SnapshotOnly`, `ClosedIsDrained` |
| `loop_live` | 2 handles and 1 future, 1 thread, 1 watcher, delay 1 | 283,308 | `WorkServed` (ready callbacks and due timers run), `StopStops` (a stop request, or the completion of the awaited future, ends the run), `StopsNobodyElse` (the callback of a call that was stopped stops no later run) |
| `fd_watchers` | 2 registrations, 1 descriptor with its two directions | 173,498 | `RegistryAgrees` (registry, handles and counter), `OneOutstanding` (the rendezvous is one to one), `SpuriousBounded`, `RunsRegistered`, `LevelTriggered`, `AbortedReleased` |
| `read_order` | all protocol kinds, all switches, errors, 3 chunks, quantum 2 | 378,828 | `NothingLost` (each chunk once and in order, from kernel to protocol), `ImplementsStream` |
| `read_live` | all kinds, a switch to a data protocol, raising `error_received` | 197,645 | `StreamFlows` (no stall) |
| `write_buffer` | both transports, all re-entrant calls, failing sends, a cancelled `sendfile`, 9 bytes, marks 1 and 2, 4 frames | 190,003 | `InOrder` (no byte overtakes another, the shutdown is last), `WriterIffUnsent`, `LostOnce`, `CloseCompletes` (unless a cancelled `sendfile` left its waiter), `ResumeComes` |
| `sock_ops` | 2 tasks, 3 futures, 2 bytes to send, 1 item to read, 2 registrations of one accept | 106,042 | `PendingWatched` (a late done callback never removes a successor's watcher), `WatchEnds`, `SendsAll`, `EveryOpEnds` |
| `endpoints` | each coroutine over 3 addresses, 1 failing local address; or a server with 2 peers, backlog 1, 2 or 3 descriptors, 2 retry timers | 279,823 | for every opening `MadeThenLost`, `ReaderIsOpen`, `FailedIsClosed`; for a call `SocketsAccounted`, `CallEnds`; for a server `ClosedStaysClosed`, `WaitedOut`, `Accepted` (until a retry finds no descriptor), `WaitReturns` |
| `offload` | 2 jobs, a file of 4 bytes in blocks of 2 from offset 1, count 2 or none, marks 0 and 1, failing reads, a breaking connection | 843,903 | `JoinedIsQuiet`, `ThreadNeverSpurious`, `ShutdownEnds`, `SockSentInOrder`, `LeftInOrder` (all is sent when it returns, the position and the transport are put back), `SendfileEnds` |

Only the type invariant of `EventLoop` is in a run; those of the other modules
document their state, and some are part of what is proved.

Why the bounds are enough. Three handles let one callback run while one it
scheduled and one a thread scheduled wait. Two threads, which the GIL takes in
turn, let a stop follow a push before the loop takes another step. Delay 100 is
past the stand-in for the longest `Duration` (50), so the panic path is in
`loop_safety`. Two registrations replace each other on one direction or watch
the two directions of the descriptor, of which each hears. Three chunks with a
quantum of two fill a quantum and leave a rest. Three bytes in one write pass the high mark and can be split anywhere;
two pieces let a `sendmsg` end inside or between them; four frames nest a write
inside `resume_writing` inside `writelines`. `read_live` bounds the queues to 4
and the stack to 2 to keep the graph small enough for liveness.

In `sock_ops` the third future is the one of an operation that is over and
whose callback is still queued, beside one future for each task. In `endpoints`
three addresses have a first, a middle and a last; backlog 1 makes a burst of
two. The listening socket's reader takes one descriptor: of two, the first peer
takes the other, so that its transport has no reader and the second peer is left
behind; of three, the first transport with its reader, or both peers, take the
rest, and a retry may find what the removed reader gave back or find it taken.
A burst that would exceed the two retry timers is not taken before one of them
fired. In `offload` offset 1 leaves three bytes, a whole block and a short one,
and count 2 ends inside the file; one job reads the file and the other is
anybody's.

Deadlock is checked in `sock_ops`. Elsewhere it is not: a closed loop, a closed
transport and a call that ended stop, and the bounds stop the environment.

### Fairness

* `EventLoop`: strong fairness of the loop's steps (a waiting thread gets the
  GIL again and again, and the runtime polls a woken future), weak fairness of
  a notification begun and of the clock. Callbacks are assumed to return.
* `RunUntilComplete`: the same, with the callback and the return of the call
  among the loop's steps. Nothing makes a future complete.
* `FdReactor`, `ReadTransport`: a batch goes on; a notified loop is polled;
  between batches the runtime gets round to each task and to its driver, which
  Tokio's scheduler guarantees. Nothing is assumed of an idle loop.
* `WriteTransport`: callbacks return, a scheduled call runs, and the peer keeps
  reading, so that a writer called for ever sends something at last. Without
  the last assumption `close` may wait for ever, as in asyncio.
* `SockOps`: the ready queue is run; the callback of a descriptor that is ready
  again and again is called (strong fairness, since another user may take the
  data first), which is `LevelTriggered` of `FdReactor`; the peer sends, reads
  and answers connection attempts. No call is assumed to fail.
* `Endpoints`: the queue is run, names, attempts and handshakes come to an end
  in one way or the other; for a server, timers fire, a readable socket is
  reported, and a connection does not last for ever. The conditions are stated
  for the process that makes a call and for the one that serves separately: a
  joint one would be false of every server and so prove nothing.
* `Sendfile`: workers and the joining thread run, the coroutine goes on when
  what it awaits is there, and the peer reads. Closing the loop is not assumed;
  every property allows for it.
* `Signals`: an interpreter that executes Python again and again calls the
  handler. Nothing has to wake a parked loop.

## Runs that show a disagreement

| Run | Property | What the code does |
|---|---|---|
| `read_stall` | `DatagramFlows` | a socket error counts as drained and clears readiness while datagrams are queued (`fd_unix.rs:550`, doc at 453-454) |
| `sendfile_overwrite` | `SentInOrder` | `sendfile` to a transport writes a view of its one bytearray; `drain()` returns below the high mark, and the next block is read over bytes not sent yet (`loop.py:665`; docstring at 628, README line 74) |
| `signal_idle` | `SignalServed` | a signal that comes after the loop's last Python instruction, just before the park as in the trace or in it, waits until something else wakes the loop: no wakeup descriptor is installed (`loop.py:1659`, README lines 25-28) |

The comment at `loop.py:578` calls "executor reads + sock_sendall" correct on
every platform. That holds of `sock_sendfile` (`SockSentInOrder`); `sendfile`
reaches the same line through `_sendfile_native` and then takes a fallback of
its own, which writes to the transport instead.

Six more disagreements are known and have no run of their own; each shows when
a constant of a passing run is changed as given. `RunningIffOnStack` and
`RightEntryPoint` are defined in their modules and have to be added to the
configuration.

| Run and change | Property violated | What the code does |
|---|---|---|
| `loop_live`, `Instants = {0}` | `StopStops` | the timer phase looks at the heap again after each callback, so a timer rescheduled in the past keeps the batch going and a stop is never seen (`event_loop.rs:231`, comment at 211-214) |
| `loop_live`, `Delays = {1, 100}` | `RunningIffOnStack` | a delay `Duration::from_secs_f64` cannot represent unwinds `run_forever` without its clean-up (`state.rs:278`, `event_loop.rs:654`) |
| `loop_live`, `Exits = TRUE` | `StopStops` | a future that ends with `SystemExit` or `KeyboardInterrupt` does not end its run: the batch reports the exception and drops it (`event_loop.rs:226`), and asyncio's callback does not call `stop` because in CPython the exception has ended the run already |
| `read_live`, `Switches = {"buffered"}` | `RightEntryPoint` | pause, `set_protocol` to a `BufferedProtocol`, resume leaves the drain-mode reader (`transports.py:158`, comment at 304-306) |
| `write_buffer`, `Lines <- EmptyPiece` | `WriterIffUnsent` | an empty piece in `writelines` stays in the buffer with a writer registered (`transports.py:516`, comment at 579) |
| `read_order` as it is | none stated | a paused transport at EOF queues EOF in every cycle, up to `MaxQueued` (`fd_unix.rs:605-617`) |

Three comments say otherwise than the code about a completion whose watcher was
removed after it was queued. `state.rs:119-120`, `transports.py:155-156` and
`ARCHITECTURE.md:145` say that it is skipped. That is so of a
callback-mode completion, whose slot is empty by then. Data that was read by a
drain task is delivered all the same (`state.rs:72-75`, and `run_batch`), and the
transport passes it on, keeps it for the replay or discards it by its own state.
The model follows the code.

`NothingLost` and `ImplementsStream` are checked for an `error_received` that
does not raise.

Some paths leave something behind that a property has to except; the comment of
the property says so:

* A `listen()` that fails after others succeeded, or a cancellation at the
  `sleep(0)` of `create_server`, leaves sockets that serve without a server the
  caller knows (`SocketsAccounted` has the first as `"unserved"`). A reader's
  arguments hold the server and the server all its sockets, so that those that
  do not listen stay open too. `_unix_server_sockets` holds the socket of a unix
  server even without a reader (`loop.py:1617-1624`).
* A protocol factory that raises, and a race that is cancelled when it has a
  winner, drop a socket without closing it (`SocketsAccounted`).
* Out of descriptors the accept loop goes on after it scheduled a retry, so a
  burst may schedule several; they are harmless.
* The retry registers a reader, which needs a descriptor for its `dup`. When
  there is none it raises and nothing schedules another one: the server stays
  open and accepts nothing more, although the comment at `loop.py:1404` says
  "We'll try again in a while." (CPython's selectors need no descriptor for it.)
  `Accepted` excepts it by the history variable `deaf`.
* A `sendfile` cancelled while the buffer empties leaves a cancelled
  `_empty_waiter` (`loop.py:616` is outside the `try` that resets it, as in
  CPython). The last write fails on it (`transports.py:507-508`) and does not
  reach `connection_lost` or the shutdown of the socket: a close does not end
  until the transport is aborted (`CloseCompletes` has it as `Stranded`).
* A connection that breaks clears the buffer of its transport. A `sendfile` that
  is reading the file then goes on and, if it is at the end of the file, returns
  a count that includes the bytes that were dropped (`LeftInOrder`).
* A `sendfile` cancelled while the buffer empties leaves its transport out of
  `_transports` (`LeftInOrder`).
* `sock_accept` that registers again removes the last registration only after
  its task goes on (`WatchEnds` allows it: the callback
  that removes it is still queued).
* A future that completes in the batch in which something else stops its run
  has its callback queued when the call returns the result; the callback stops
  the next run, as in CPython (`StopsNobodyElse`).

## Proofs

`SchedulerProofs` proves, for any sets of handles, threads and watchers, any
delays and any clock bound, from the assumption `LoopConstants` alone:

* `TypeCorrect`: `Spec => []TypeOK`.
* `NoLostWakeup`: `Spec => []SleepsOnlyWhenIdle`.
* `SnapshotRuns`: `Spec => []SnapshotOnly`.
* `CloseDrains`: `Spec => []ClosedIsDrained`.

They follow from `SchedulerInvariant`, `Spec => []Inv`, where `Inv` adds to the
types three parts, each inductive with the others:

* `SnapshotInv`: the first `todo` ready entries are older than the batch.
  `SnapshotOnly` speaks of the running callback alone and says nothing of the
  one taken next.
* `LifeInv`: callbacks run inside batches, batches inside runs, runs on open
  loops. Without it a `close` could be thought to meet a batch in progress.
* `ParkInv`: from each check of `run_main` to the wakeup, whatever the check
  did not see has a stored permit or a notification in flight behind it. This
  is the argument against lost wakeups: a thread pushes before it notifies, and
  the permit outlives the window between check and park.

`TypeNext`, `SnapshotNext`, `LifeNext` and `ParkNext` show that every step keeps
each part; temporal steps only combine them.

The same module proves, for any set of futures, from `LoopConstants` and
`AwaitConstants`:

* `UsesScheduler`: `AwaitSpec => Spec`. `run_until_complete` takes only the
  scheduler's own steps on its state, so that the theorems above hold under it;
  `NoLostWakeupAwait` states the most important one.
* `StopsOwnRun`: `AwaitSpec => []StopsNobodyElse`, from `AwaitInvariant`. The
  property speaks of the callback that runs; `AwaitInv` extends it to every
  queued one and adds that only the future of the call in progress holds the
  callback, which is what `remove_done_callback` is for.

`FdReactorProofs` proves, for any set of registrations and any finite set of
descriptors, from `ReactorConstants`:

* `RegistryConsistent` (`[]RegistryAgrees`) and `OnlyRegisteredRun`
  (`RunsRegistered`), from `RegInv`: registered, slot with a callback, task not
  aborted and handle not cancelled are the same thing, whichever of `add`,
  `remove`, `cancel` and `close` came last. The counter is the cardinality of
  the watched directions, hence the assumption that they are finitely many.
* `RendezvousOneToOne` (`[]OneOutstanding`), from `MeetInv`: of a completion
  queued, a callback on the stack and a stored permit a registration has at
  most one, exactly one while its task waits, none before its first fire. The
  queue needs to be known free of duplicates for the pop to preserve this.
* `OneSpurious` (`[]SpuriousBounded`), with `IdleInv`: as long as the driver has
  no event for the descriptor, of either direction, the guard a task got with a
  fire for nothing is the newest, and clears the flag before the task parks
  again. An event of the other direction makes the guard stale and allows one
  more such fire.

`SockOpsProofs` proves, for any sets of tasks and futures, from `SockConstants`:

* `WaitersWatched` (`[]PendingWatched`). `SockInv` says why a late callback does
  no harm: the queue holds callbacks of done futures only, and removal compares
  the registered handle with its own.
* `WatchersEnd` (`[]WatchEnds`). `EndsInv` adds that the done callback of a
  writer comes before its task's wakeup, so that no writer is left when the task
  goes on and gives the descriptor to a transport.
* `SendallComplete` (`[]SendsAll`), for data of any length and any partial
  sends. `WireInv`: the bytes of a future on the wire are the first ones of its
  data, as many as `pos` counts while it is pending and all of them once it has
  its result.

`EndpointsProofs` proves, for any number of connections, any backlog and any
number of descriptors and retry timers, from the modules' assumptions on their
constants (the steps that `Connect` and `Serve` share are in `OpeningProofs`):

* `NoneAfterWait` (`[]WaitedOut`) and `NoneAfterClose` (`[]ClosedStaysClosed`).
  `ServerInv` adds that every live transport is attached to its server, and that
  what woke `wait_closed` stays true, because a closed server attaches nothing.
* `ProtocolHears` (`[]MadeThenLost`), `ReaderNeverLate` (`[]ReaderIsOpen`) and
  `NoneLeftOpen` (`[]FailedIsClosed`), from `OpeningInv`: the queue has each
  entry once and `connection_made` before `connection_lost`; a queued entry
  tells the state of its connection's transport, waiter and task, and the state
  of the transport what the protocol has heard (`QueueTells`, `Told`); the socket
  is open as long as its transport lives, and a reader has an open transport or
  a listening socket behind it (`Owned`).
* `NoSocketLeft` (`[]SocketsAccounted`), from `CallInv`: attempts start in
  order, at most one of them wins, and each socket is as its attempt left it.
  Its part `Bound` is about servers: one that could not be bound leaves no socket
  open, one that could not be started none unless a reader holds it or the list
  of unix sockets does.
* `Waits` is the server's part: the backlog has no duplicates and none of its
  connections has a task. The accept burst is a recursive function; that it
  takes only connections of the backlog, each once, is proved by induction over
  its turns (`TurnTakes`).

`EndpointsInvariant` is the conjunction of the last three.

`ExecutorProofs` proves, for any set of jobs, from `ExecutorConstants` (the
shutdown's message is not a job):

* `ExecutorInvariant`: `ExecutorSpec => []ExecutorInv`, for the executor alone.
* `UsesExecutor`: `Spec => ExecutorSpec`. A `sendfile` composed with the executor
  takes only the executor's own steps on its state, so that the invariant holds
  for `Sendfile` whatever the file, the blocks and the marks are.
* `ShutdownJoins`: `Spec => []JoinedIsQuiet`.
* `ThreadFinds`: `Spec => []ThreadNeverSpurious`.

`ExecutorInv` adds to the types:

* `PoolsInOrder`: a job is active exactly while a pool owns it, and pools come
  in order: none, the loop's own, the user's. So a pool that is the default now
  is the last one that has jobs.
* `ShutdownOrder`: from `shutCalled` to the thread, its join and its message,
  each stage implies what the one before it established; once the thread has
  joined, the pool it joined has no job. `JoinedIsQuiet` speaks of the coroutine
  alone, which learns of the join by the message only.
* `ThreadFindsPool`: while the thread has not begun, or the coroutine waits for
  it, the default executor is set or the loop is closed for good. This is why
  the order in `close` matters: the loop is marked closed first and gives up
  the executor second.

and, for any file, block size, offset, count and marks, from `SendfileConstants`:

* `SockSendsFile`: `Spec => []SockSentInOrder`.
* `SendfileLeaves`: `Spec => []LeftInOrder`.

`SendfileInv` says whose read is in the executor (`ReadJob`: after a cancellation
it may run on, and then the position is nobody's), that wire, unsent bytes and
`total_sent` agree as long as no transport dropped any (`Accounted`, under
`Whole`), that the file stands behind the block in the
bytearray (`Positioned`), and, for a socket, that what `sock_sendall` still holds
are the last positions of the block (`SockWire`): the next read begins only when
there are none. `sendfile` to a transport has no such conjunct, which is the
disagreement `sendfile_overwrite` shows.

`ReadTransportProofs` proves, for any number of chunks, any quantum, any depth of
calls and any switches of the protocol, from `TransportConstants`:

* `NoChunkLost`: `Spec => []NothingLost`.
* `TransportIsStream`: `Spec => ImplementsStream`, the refinement of `ByteStream`.

Both assume `Contained`: an `error_received` that raises belongs to no datagram
transport. It is needed: the exception ends `resume_reading` with the rest of the
replay behind what arrives later. `ReadInv` says where each chunk is: the
protocol has the first ones, the kernel the last ones, and replay and completions
together carry those between, in order, an end behind them (`Ends`, `Between`).
Its other parts keep the two queues in order: a replay exists only in a pause or
while it is flushed (`Replays`), and a callback-mode completion is the last one
and has its reader (`ReadyLast`, `Watched`).

`WriteTransportProofs` proves, for any sizes, water marks and depth of the stack,
from `WriterConstants`:

* `WrittenInOrder`: `Spec => []InOrder`, whatever the protocol calls in any of
  its callbacks. `WriteInv` says that wire and buffer together hold bytes in
  order, everything written until the connection is lost; that a transport that
  is shut down has nothing left; and that `_call_connection_lost` is queued at
  most once, with the connection marked lost and closing.
* `ConnectionLostOnce`: `Spec => []LostOnce`, if the protocol writes nothing in
  `connection_lost` (`Parted`). `LostInv`: the frame of `connection_lost` is the
  innermost one, and the socket goes when it returns. The hypothesis is needed:
  after a `close` that waited for the buffer `_conn_lost` is still 0 when
  `connection_lost` is called, and a `writelines` in it whose `sendmsg` takes
  everything ends the transport again.
* `WriterWhileUnsent`: `Spec => []WriterIffUnsent`, if also no piece given to
  `writelines` is empty (`Solid`), the case of the disagreement above. `Writing`:
  unsent pieces have a writer or a `writelines` on the stack that will register
  one, and a writer without them a `resume_writing` after which it is removed.

What `Bytes`, `Total`, `Popped` and `Leftover` compute is proved by induction
over prefixes (`BytesConcat`, `PiecesAre`, `LeftoverIs`): the part of a piece that
`_adjust_leftover_buffer` puts back is exactly what was not sent.

Induction over the natural numbers is the lemma `SetInduction`, which follows
from the well-foundedness of `<` by looking at the least number outside a set;
`PrefixRecursion` derives from it that the recursive functions of the model exist.

The strengthened invariants were checked with TLC on the instances of the runs
before they were proved.

Left to TLC: liveness, which the proof system does not handle here, that is
`WorkServed`, `StopStops`, `LevelTriggered`, `AbortedReleased`, `StreamFlows`,
`CloseCompletes`, `ResumeComes`, `EveryOpEnds`, `CallEnds`, `Accepted`,
`WaitReturns`, `ShutdownEnds` and `SendfileEnds`. Every invariant a passing run
checks is proved, and so is the refinement.

## Not modelled

* The asyncgen hooks and `shutdown_asyncgens`: a weak set changed by garbage
  collection.
* TLS records and handshake: the SSL protocol is the standard library's.
* Argument checks, socket options, and the file of a unix socket; the table
  `_unix_server_sockets` is never read and matters only in that it keeps a
  socket open.
* Subprocesses and pipes, which the loop does not implement.
* Policy, package glue, debug output, the Windows stub and address conversion:
  no state of interest. Dropping the runtime on a helper thread
  (`RuntimeHolder`) is not visible to the other parts.

## Plan

1. `SockOps` and `Opening` over one registry, with `FdReactor` in place of the
   assumption on its callbacks.
2. The write side under `Sendfile`, so that its transport is `WriteTransport`.
