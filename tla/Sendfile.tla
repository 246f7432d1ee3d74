------------------------------ MODULE Sendfile ------------------------------
(***************************************************************************)
(* loop.sock_sendfile and loop.sendfile.  The native path always raises    *)
(* SendfileNotAvailableError, for a transport after it waited for an empty *)
(* write buffer; the fallback reads a block in the default executor        *)
(* (Executor), hands it to sock_sendall or to the transport, and reads the *)
(* next block into the same bytearray.                                     *)
(*                                                                         *)
(* A byte is its number in the file.  What is handed over is a view of the *)
(* bytearray: unsent holds positions in it, and the kernel takes whatever  *)
(* they contain by then.  The file is touched by an executor thread and by *)
(* the coroutine's finally clause.                                         *)
(***************************************************************************)
EXTENDS Executor, FiniteSetsExt

CONSTANTS
    Read,      \* the job that reads
    FileSize,
    Block,     \* size of the bytearray
    Offsets,   \* where a call starts to read
    Counts,    \* its count; 0 is None
    High, Low, \* the transport's water marks
    Callees    \* "sock" for sock_sendfile, "transport" for sendfile

ASSUME SendfileConstants ==
    /\ Read \in Job /\ FileSize \in Nat /\ Block \in Nat \ {0}
    /\ High \in Nat /\ Low \in 0..High
    /\ Offsets \subseteq 0..FileSize /\ Counts \subseteq Nat
    /\ Callees \subseteq {"sock", "transport"}

VARIABLES
    callee, offset, count,   \* the call
    pc,          \* where it waits, or how it ended
    fpos,        \* the position of the file
    buf,         \* the bytearray
    got,         \* bytes the last read returned
    failed,      \* it raised instead
    total,       \* total_sent
    unsent,      \* positions of buf handed over and not yet sent
    paused,      \* the transport paused the protocol of the fallback
    broken,      \* the connection broke
    registered,  \* the transport is in _transports and has no empty waiter
    stray,       \* history: a read went on when the call ended
    wire         \* history: the bytes the kernel took

args == <<callee, offset, count>>
block == <<buf, got, failed>>
file == <<fpos, block, total>>
sent == <<unsent, paused, broken, wire>>
sendfileVars == <<args, pc, file, sent, registered, stray>>
vars == <<executor, sendfileVars>>

Ended == {"returned", "error", "cancelled"}

\* The variables of the executor and of the call stay in their ranges.
TypeOK ==
    /\ TypeExecutor
    /\ callee \in Callees /\ offset \in Offsets /\ count \in Counts
    /\ pc \in {"start", "emptying", "reading", "sending"} \cup Ended
    /\ fpos \in 0..FileSize /\ buf \in [1..Block -> 0..FileSize]
    /\ got \in 0..Block /\ failed \in BOOLEAN /\ total \in 0..FileSize
    /\ unsent \in Seq(1..Block) /\ wire \in Seq(0..FileSize)
    /\ paused \in BOOLEAN /\ broken \in BOOLEAN
    /\ registered \in BOOLEAN /\ stray \in BOOLEAN

\* _check_sendfile_params: an offset that is not negative, and a positive count
\* or None.
CheckedArgs == callee \in Callees /\ offset \in Offsets /\ count \in Counts

Init ==
    /\ InitExecutor /\ CheckedArgs
    /\ pc = "start" /\ fpos = 0 /\ buf = [i \in 1..Block |-> 0] /\ got = 0
    /\ failed = FALSE /\ total = 0
    /\ unsent = <<>> /\ paused = FALSE /\ broken = FALSE /\ wire = <<>>
    /\ registered = TRUE /\ stray = FALSE

-----------------------------------------------------------------------------
(* The loop of the fallbacks.  Between two awaits it is one step.           *)

\* The size of the next block when t bytes were sent.
BlockSize(t) == IF count = 0 THEN Block ELSE Min({count - t, Block})

\* Seeded fault: the position is not set when the call ends.
LeavePosition(t, p) == p

\* finally: file.seek(offset + total_sent), if anything was sent.
Reseek(t, p) == IF t > 0 THEN offset + t ELSE p

\* The call ends; t bytes were sent and p is the position of the file.
Leave(how, t, p) ==
    /\ pc' = how /\ total' = t /\ fpos' = Reseek(t, p)
    /\ stray' = (job'[Read] = "running")

\* The next block is read, unless the executor refuses (it is shut down).
ReadBlock(t, p) ==
    \/ ~MayRun /\ UNCHANGED executor /\ Leave("error", t, p)
    \/ /\ run_in_executor(Read)
       /\ pc' = "reading" /\ total' = t /\ fpos' = p /\ UNCHANGED stray

\* The native path raises at once, and the fallback starts.
sock_sendfile ==
    /\ pc = "start" /\ callee = "sock" /\ ~is_closed
    /\ ReadBlock(0, offset)
    /\ UNCHANGED <<args, block, sent, registered>>

\* The transport is taken out of _transports and its buffer awaited.
sendfile ==
    /\ pc = "start" /\ callee = "transport" /\ ~is_closed
    /\ pc' = "emptying" /\ registered' = FALSE
    /\ UNCHANGED <<executor, args, file, sent, stray>>

\* The finally clause of _sendfile_native.
PutBack == TRUE

\* The buffer is empty: the native path raises, the transport is put back, and
\* the fallback starts.
fallback ==
    /\ pc = "emptying" /\ ~is_closed
    /\ registered' = PutBack /\ ReadBlock(0, offset)
    /\ UNCHANGED <<args, block, sent>>

\* The executor thread reads into the bytearray; a read may be short, and is
\* empty only at the end of the file, or it raises.
readinto ==
    /\ End(Read)
    /\ \/ \E n \in 0..Min({BlockSize(total), FileSize - fpos}) :
          /\ n = 0 => fpos = FileSize
          /\ fpos' = fpos + n /\ got' = n /\ failed' = FALSE
          /\ buf' = [i \in 1..Block |-> IF i <= n THEN fpos + i ELSE buf[i]]
       \/ failed' = TRUE /\ UNCHANGED <<fpos, got, buf>>
    /\ UNCHANGED <<args, pc, total, sent, registered, stray>>

\* The coroutine goes on after a read: the end of the file, or the block is
\* handed to sock_sendall or written to the transport.  On a broken connection
\* sock_sendall raises at once, and drain() after a write that does nothing.
read_returned ==
    /\ pc = "reading" /\ Deliver(Read)
    /\ \/ /\ failed \/ (got > 0 /\ broken)
          /\ Leave("error", total, fpos) /\ UNCHANGED <<unsent, paused>>
       \/ /\ ~failed /\ got = 0
          /\ Leave("returned", total, fpos) /\ UNCHANGED <<unsent, paused>>
       \/ /\ ~failed /\ got > 0 /\ ~broken
          /\ unsent' = unsent \o [i \in 1..got |-> i]
          /\ paused' = (callee = "transport" /\ Len(unsent') > High)
          /\ pc' = "sending" /\ UNCHANGED <<total, fpos, stray>>
    /\ UNCHANGED <<args, block, broken, wire, registered>>

\* The kernel takes bytes: whatever the bytearray holds at that time.
Flush ==
    /\ unsent # <<>> /\ ~is_closed
    /\ wire' = Append(wire, buf[Head(unsent)]) /\ unsent' = Tail(unsent)
    /\ paused' = (paused /\ Len(unsent') > Low)
    /\ UNCHANGED <<executor, args, pc, file, broken, registered, stray>>

\* Seeded fault: sock_sendall is not awaited.
HandedOver == TRUE

\* sock_sendall returns when everything is sent; drain() when the protocol is
\* not paused, which may be with bytes unsent.
Drained == IF callee = "sock" THEN unsent = <<>> ELSE ~paused

sent_block ==
    /\ pc = "sending" /\ ~is_closed /\ Drained
    /\ LET t == total + got IN
       IF count > 0 /\ t = count
       THEN UNCHANGED executor /\ Leave("returned", t, fpos)
       ELSE ReadBlock(t, fpos)
    /\ UNCHANGED <<args, block, sent, registered>>

\* The caller is cancelled at an await.  A sock_sendall ends with it, a
\* transport keeps what it was given.
cancelled ==
    /\ pc \in {"emptying", "reading", "sending"} /\ ~is_closed
    /\ IF pc = "reading" THEN Cancel(Read) ELSE UNCHANGED executor
    /\ Leave("cancelled", total, fpos)
    /\ unsent' = IF callee = "sock" THEN <<>> ELSE unsent
    /\ UNCHANGED <<args, block, paused, broken, wire, registered>>

\* The connection breaks, during the call or later: _force_close clears what
\* the transport has not sent.  The call ends if it awaits the connection; if
\* it awaits the file, or is awake already, it goes on.
break_off ==
    /\ pc # "start" /\ ~broken /\ ~is_closed
    /\ broken' = TRUE /\ unsent' = <<>> /\ UNCHANGED executor
    /\ \/ /\ pc = "emptying" \/ (pc = "sending" /\ ~Drained)
          /\ Leave("error", total, fpos)
       \/ /\ pc # "sending" \/ Drained
          /\ UNCHANGED <<pc, total, fpos, stray>>
    /\ UNCHANGED <<args, block, paused, wire, registered>>

-----------------------------------------------------------------------------
(* The composition with the other users of the executor.                   *)

Others == Job \ {Read}

Environment ==
    \/ set_default_executor \/ shutdown_default_executor
    \/ shutdown_times_out \/ shutdown_cancelled \/ close_mark
    \/ \E j \in Others : run_in_executor(j) \/ Cancel(j)

Service ==
    \/ ThreadStep \/ shutdown_returns \/ close_executor
    \/ \E j \in Job : Begin(j)
    \/ \E j \in Others : End(j) \/ Deliver(j)

CallStep == sock_sendfile \/ sendfile \/ fallback \/ readinto \/ read_returned \/ sent_block

Next ==
    \/ (Environment \/ Service) /\ UNCHANGED sendfileVars
    \/ CallStep \/ Flush \/ cancelled \/ break_off

Spec == Init /\ [][Next]_vars

\* Workers and the joining thread run, the loop takes its steps, and the peer
\* reads.
Fairness ==
    /\ \A j \in Others : /\ WF_vars(Begin(j) /\ UNCHANGED sendfileVars)
                         /\ WF_vars(End(j) /\ UNCHANGED sendfileVars)
                         /\ WF_vars(Deliver(j) /\ UNCHANGED sendfileVars)
    /\ WF_vars((ThreadStep \/ shutdown_returns \/ Begin(Read)) /\ UNCHANGED sendfileVars)
    /\ WF_vars(CallStep) /\ WF_vars(Flush)

FairSpec == Spec /\ Fairness

-----------------------------------------------------------------------------
(* Properties.                                                             *)

\* What the kernel has taken is the file from the offset on, each byte once.
SentInOrder == wire = [i \in 1..Len(wire) |-> offset + i]

\* sock_sendfile sends the bytes of the file in order: sock_sendall has let go
\* of the bytearray before the next block is read into it.
SockSentInOrder == callee = "sock" => SentInOrder

\* A call that returns counts count bytes, or all up to the end of the file.
\* The kernel or the transport's buffer has as many; if the connection breaks,
\* sendfile may return although the transport dropped some, sock_sendfile not.
\* A call that ends, even by an error or a cancellation after a block was sent,
\* leaves the file behind the blocks that were, unless a read goes on in its
\* thread, and the transport in the table.
LeftInOrder ==
    /\ pc = "returned" =>
        /\ total = Min({FileSize - offset} \cup ({count} \ {0}))
        /\ ~broken \/ callee = "sock" => Len(wire) + Len(unsent) = total
    /\ pc = "returned" \/ (pc \in Ended /\ total > 0) =>
        /\ stray \/ fpos = offset + total
        /\ registered

\* A call ends, although the executor is shut down or the loop's other jobs
\* go on, or the loop is closed.
SendfileEnds == pc \notin {"start"} \cup Ended ~> (pc \in Ended \/ is_closed)

=============================================================================
