--------------------------- MODULE WriteTransport ---------------------------
(***************************************************************************)
(* The write side of a socket transport in transports.py: write,           *)
(* writelines and sendto, the buffer behind them and the writer that       *)
(* empties it, flow control, write_eof, the waiter sendfile uses, close,   *)
(* abort, and the call of connection_lost that ends the transport.         *)
(*                                                                         *)
(* Everything here runs on the loop's thread; what interleaves is the code *)
(* of the protocol, which the transport calls in the middle of its own     *)
(* operations and which calls the transport back.  The watcher behind the  *)
(* writer is FdReactor's: it may call the writer while it is registered    *)
(* and never after.                                                        *)
(***************************************************************************)
EXTENDS Integers, Sequences

CONSTANTS
    Sockets,      \* the transports to look at: "stream", "datagram"
    Sizes,        \* sizes of the data write is called with
    Lines,        \* what writelines is called with: sequences of sizes
    Reentrant,    \* what a protocol calls in pause_writing, resume_writing
                  \* and error_received
    Parting,      \* what it calls in connection_lost
    Connected,    \* the datagram transport has a remote address
    Failing,      \* a send may fail
    Low, High,    \* the water marks of flow control
    MaxWritten,   \* bound: bytes written
    MaxDepth      \* bound: frames on the Python stack

Call == {"write", "writelines", "write_eof", "cancel", "close", "abort"}

ASSUME WriterConstants ==
    /\ Sockets \subseteq {"stream", "datagram"}
    /\ Connected \in BOOLEAN /\ Failing \in BOOLEAN
    /\ Sizes \subseteq Nat \ {0} /\ Lines \subseteq Seq(Nat) \ {<<>>}
    /\ Reentrant \subseteq Call /\ Parting \subseteq Call
    /\ Low \in Nat /\ High \in Nat /\ Low <= High
    /\ MaxWritten \in Nat /\ MaxDepth \in Nat

VARIABLES
    buffer,       \* _buffer: pieces, each a sequence of bytes
    wire,         \* what the kernel has accepted
    written,      \* bytes written so far; byte n is the number n
    writer,       \* _write_ready is registered with the loop
    held,         \* _protocol_paused
    closing, conn_lost, eof,
    shut,         \* shutdown(SHUT_WR) was called
    sock,         \* _sock: a stream or a datagram socket, none at the end
    stale,        \* what _buffer_size still counts of a cleared buffer
    waiter,       \* _empty_waiter: none, pending, done, or left behind by a
                  \* sendfile that failed or was cancelled at its await
    scheduled,    \* calls of _call_connection_lost queued with call_soon
    lost,         \* history: how often the protocol's connection_lost was called
    stack         \* Python frames, innermost first

sent   == <<wire, written>>
ending == <<closing, conn_lost, scheduled, stale>>
vars   == <<buffer, sent, writer, held, ending, eof, shut, sock, waiter, lost,
            stack>>

Byte  == 1..MaxWritten
Frame == {"pause", "resume", "error", "lines", "lost"}

\* Every variable stays in its range, and _call_connection_lost is never queued
\* twice, however often the transport is closed and aborted.
TypeOK ==
    /\ buffer \in Seq(Seq(Byte)) /\ wire \in Seq(Byte) /\ written \in 0..MaxWritten
    /\ writer \in BOOLEAN /\ held \in BOOLEAN
    /\ closing \in BOOLEAN /\ conn_lost \in BOOLEAN /\ eof \in BOOLEAN
    /\ shut \in BOOLEAN /\ sock \in {"stream", "datagram", "none"}
    /\ stale \in 0..MaxWritten
    /\ waiter \in {"none", "pending", "done", "left"}
    /\ scheduled \in 0..1 /\ lost \in Nat
    /\ stack \in Seq(Frame)

Init ==
    /\ buffer = <<>> /\ wire = <<>> /\ written = 0
    /\ writer = FALSE /\ held = FALSE
    /\ closing = FALSE /\ conn_lost = FALSE /\ eof = FALSE
    /\ shut = FALSE /\ sock \in Sockets /\ stale = 0
    /\ waiter = "none" /\ scheduled = 0 /\ lost = 0
    /\ stack = <<>>

-----------------------------------------------------------------------------
(* The data.                                                               *)

open     == sock # "none"
Datagram == sock = "datagram"

\* The bytes of the pieces, one after the other.
Bytes(buf) ==
    LET upto[k \in 0..Len(buf)] == IF k = 0 THEN <<>> ELSE upto[k - 1] \o buf[k]
    IN  upto[Len(buf)]

\* get_write_buffer_size, of a datagram transport without what is stale.
Size(buf) == Len(Bytes(buf))

Total(sizes) ==
    LET upto[k \in 0..Len(sizes)] == IF k = 0 THEN 0 ELSE upto[k - 1] + sizes[k]
    IN  upto[Len(sizes)]

\* The pieces a call of the given sizes writes.
Pieces(sizes) ==
    [i \in DOMAIN sizes |->
        [j \in 1..sizes[i] |-> written + Total(SubSeq(sizes, 1, i - 1)) + j]]

\* How many pieces hold the first n bytes.
Popped(buf, n) ==
    CHOOSE k \in 0..Len(buf) :
        /\ Size(SubSeq(buf, 1, k)) >= n
        /\ \A j \in 0..(k - 1) : Size(SubSeq(buf, 1, j)) < n

\* Seeded fault: the piece sent in part is dropped whole.
DropPartial(buf, n) == SubSeq(buf, Popped(buf, n) + 1, Len(buf))

\* _adjust_leftover_buffer: pieces are popped while bytes are accounted for,
\* and what is left of the last one is put back.
Leftover(buf, n) ==
    LET k      == Popped(buf, n)
        excess == Size(SubSeq(buf, 1, k)) - n IN
    (IF excess = 0 THEN <<>>
     ELSE <<SubSeq(buf[k], Len(buf[k]) - excess + 1, Len(buf[k]))>>)
      \o SubSeq(buf, k + 1, Len(buf))

-----------------------------------------------------------------------------
(* Parts of the transport's operations.  Each ends with the frames rest on *)
(* the stack, below the callback of the protocol it may enter.             *)

\* Protocol code may make the call c: as a task, or in one of its callbacks.
MayCall(c) ==
    /\ open
    /\ stack # <<>> =>
         /\ c \in (CASE Head(stack) = "lines" -> {}
                     [] Head(stack) = "lost" -> Parting
                     [] OTHER -> Reentrant)
         /\ Len(stack) < MaxDepth

Enter(frame, rest) == stack' = <<frame>> \o rest

\* _maybe_pause_protocol, after the buffer has grown.
MaybePause(rest) ==
    IF Size(buffer') + stale > High /\ ~held
    THEN held' = TRUE /\ Enter("pause", rest)
    ELSE stack' = rest /\ UNCHANGED held

\* _force_close with buf in the buffer: abort, and every fatal error.  A
\* datagram transport's _buffer_size keeps counting what is cleared.
ForceClose(buf) ==
    /\ buffer' = IF conn_lost THEN buf ELSE <<>>
    /\ writer' = (writer /\ (conn_lost \/ buf = <<>>))
    /\ closing' = TRUE /\ conn_lost' = TRUE
    /\ scheduled' = IF conn_lost THEN scheduled ELSE scheduled + 1
    /\ stale' = IF Datagram /\ ~conn_lost THEN Size(buf) ELSE stale

\* _call_connection_lost up to the protocol's connection_lost.
EnterLost(rest) == lost' = lost + 1 /\ Enter("lost", rest)

\* set_exception on the waiter; sendfile, which awaits it outside its try,
\* ends without resetting it.  On a waiter that is done it only raises.
Spoilt(w) == IF w = "pending" THEN "left" ELSE w

\* Seeded fault: the writer stays registered.
KeepWriter(buf) == UNCHANGED writer

\* The writer goes when the buffer is empty.
DropWriter(buf) == writer' = (writer /\ buf # <<>>)

WakeWaiter(buf) ==
    waiter' = IF buf = <<>> /\ waiter = "pending" THEN "done" ELSE waiter

\* The lines after set_result are reached: on a waiter that is done or was
\* cancelled it raises InvalidStateError.
Completes(buf) == buf = <<>> /\ waiter \in {"none", "pending"}

ShutWhenEmpty(buf) == shut' = (shut \/ (Completes(buf) /\ ~closing /\ eof))

\* Seeded fault: a closing transport is not finished by its last write.
NeverEnds(buf) == FALSE

EndsWith(buf) == Completes(buf) /\ closing

\* The end of _write_sendmsg and _sendto_ready, with buf left in the buffer.
FinishWrite(buf, rest) ==
    /\ buffer' = buf
    /\ DropWriter(buf) /\ WakeWaiter(buf) /\ ShutWhenEmpty(buf)
    /\ IF EndsWith(buf) THEN EnterLost(rest) ELSE stack' = rest /\ UNCHANGED lost
    /\ UNCHANGED <<ending, eof, sock>>

\* Seeded fault: the water mark is not looked at after a send.
NeverResumes(buf) == FALSE

\* _maybe_resume_protocol's condition.
Resumes(buf) == held /\ Size(buf) + stale <= Low

\* A send left buf in the buffer: the protocol may be resumed, then the
\* writer's work ends.
Progress(buf, rest) ==
    \/ /\ Resumes(buf)
       /\ held' = FALSE
       /\ buffer' = buf
       /\ Enter("resume", rest)
       /\ UNCHANGED <<writer, ending, eof, shut, sock, waiter, lost>>
    \/ /\ ~Resumes(buf)
       /\ FinishWrite(buf, rest)
       /\ UNCHANGED held

\* _write_sendmsg with buf in the buffer: sendmsg would block, fails, or takes
\* some of the bytes (all of none).
WriteReady(buf, rest) ==
    \/ /\ buffer' = buf /\ stack' = rest
       /\ UNCHANGED <<wire, writer, held, ending, eof, shut, sock, waiter, lost>>
    \/ /\ Failing
       /\ buffer' = <<>> /\ writer' = FALSE
       /\ closing' = TRUE /\ conn_lost' = TRUE /\ scheduled' = scheduled + 1
       /\ waiter' = Spoilt(waiter)
       /\ stack' = rest
       /\ UNCHANGED <<wire, held, stale, eof, shut, sock, lost>>
    \/ \E n \in 0..Size(buf) :
       /\ n = 0 <=> Size(buf) = 0
       /\ wire' = wire \o SubSeq(Bytes(buf), 1, n)
       /\ Progress(Leftover(buf, n), rest)

-----------------------------------------------------------------------------
(* The stream transport.  After connection_lost is scheduled, writes are   *)
(* only counted; after write_eof and during a sendfile they are refused.   *)

MayWrite(c, n) ==
    /\ MayCall(c) /\ ~conn_lost /\ ~eof /\ waiter = "none"
    /\ written + n <= MaxWritten
    /\ written' = written + n

\* An empty buffer means that the data can be offered to the socket first.
write(n) ==
    LET data == Pieces(<<n>>)[1] IN
    /\ ~Datagram /\ MayWrite("write", n)
    /\ \/ /\ buffer = <<>>
          /\ \E k \in 0..n :
               /\ wire' = wire \o SubSeq(data, 1, k)
               /\ IF k = n
                  THEN stack' = stack /\ UNCHANGED <<buffer, writer, held>>
                  ELSE /\ writer' = TRUE
                       /\ buffer' = <<SubSeq(data, k + 1, n)>>
                       /\ MaybePause(stack)
          /\ UNCHANGED ending
       \/ /\ buffer = <<>> /\ Failing
          /\ ForceClose(<<>>)
          /\ UNCHANGED <<wire, held, stack>>
       \/ /\ buffer # <<>>
          /\ buffer' = Append(buffer, data)
          /\ MaybePause(stack)
          /\ UNCHANGED <<wire, writer, ending>>
    /\ UNCHANGED <<eof, shut, sock, waiter, lost>>

\* The pieces join the buffer and one sendmsg is tried at once.
writelines(sizes) ==
    /\ ~Datagram /\ MayWrite("writelines", Total(sizes))
    /\ WriteReady(buffer \o Pieces(sizes), <<"lines">> \o stack)

\* The end of writelines: what was not sent waits for the writer.
LinesTail ==
    /\ stack # <<>> /\ Head(stack) = "lines"
    /\ IF buffer # <<>> /\ open
       THEN writer' = TRUE /\ UNCHANGED buffer /\ MaybePause(Tail(stack))
       ELSE stack' = Tail(stack) /\ UNCHANGED <<buffer, writer, held>>
    /\ UNCHANGED <<sent, ending, eof, shut, sock, waiter, lost>>

\* The loop calls the writer of a stream transport.
RunWriter ==
    /\ ~Datagram /\ stack = <<>> /\ open /\ writer
    /\ buffer # <<>> /\ ~conn_lost
    /\ WriteReady(buffer, <<>>)
    /\ UNCHANGED written

write_eof ==
    /\ ~Datagram /\ MayCall("write_eof") /\ ~closing /\ ~eof
    /\ eof' = TRUE
    /\ shut' = (buffer = <<>>)
    /\ UNCHANGED <<buffer, sent, writer, held, ending, sock, waiter, lost, stack>>

\* _make_empty_waiter, by the task that runs sendfile.  With an empty buffer the
\* waiter is done at once and reset in the same step.
make_empty_waiter ==
    /\ ~Datagram /\ stack = <<>> /\ open /\ ~closing /\ waiter = "none"
    /\ buffer # <<>> /\ waiter' = "pending"
    /\ UNCHANGED <<buffer, sent, writer, held, ending, eof, shut, sock, lost, stack>>

\* _reset_empty_waiter, in the finally clause: sendfile has been woken.
reset_empty_waiter ==
    /\ stack = <<>> /\ waiter = "done"
    /\ waiter' = "none"
    /\ UNCHANGED <<buffer, sent, writer, held, ending, eof, shut, sock, lost, stack>>

\* The task that runs sendfile is cancelled at the await, which is outside the
\* try: a pending waiter is cancelled with it, and none is reset.
cancel_sendfile ==
    /\ MayCall("cancel") /\ waiter \in {"pending", "done"}
    /\ waiter' = "left"
    /\ UNCHANGED <<buffer, sent, writer, held, ending, eof, shut, sock, lost, stack>>

-----------------------------------------------------------------------------
(* The datagram transport; a datagram is one byte long.  A connected one   *)
(* drops what is sent after close, an unconnected one still sends it.      *)

sendto ==
    LET data == Pieces(<<1>>)[1] IN
    /\ Datagram /\ MayCall("write") /\ (Connected => ~conn_lost)
    /\ written < MaxWritten
    /\ written' = written + 1
    /\ \/ /\ buffer = <<>>
          /\ wire' = wire \o data
          /\ UNCHANGED <<buffer, writer, held, ending, stack>>
       \/ /\ buffer = <<>>
          /\ writer' = TRUE
          /\ buffer' = <<data>>
          /\ MaybePause(stack)
          /\ UNCHANGED <<wire, ending>>
       \/ /\ buffer = <<>> /\ Failing
          /\ Enter("error", stack)
          /\ UNCHANGED <<buffer, wire, writer, held, ending>>
       \/ /\ buffer = <<>> /\ Failing
          /\ ForceClose(<<>>)
          /\ UNCHANGED <<wire, held, stack>>
       \/ /\ buffer # <<>>
          /\ buffer' = Append(buffer, data)
          /\ MaybePause(stack)
          /\ UNCHANGED <<wire, writer, ending>>
    /\ UNCHANGED <<eof, shut, sock, waiter, lost>>

\* The datagram that blocked goes back to the front.
PutBack(left) == left

\* _sendto_ready: n datagrams are sent; the next one blocks and is put back,
\* or fails and is dropped with the rest left to the next call.
SendtoReady ==
    /\ Datagram /\ stack = <<>> /\ open /\ writer
    /\ \E n \in 0..Len(buffer) :
         LET left == SubSeq(buffer, n + 1, Len(buffer)) IN
         /\ wire' = wire \o Bytes(SubSeq(buffer, 1, n))
         /\ \/ left = <<>> /\ Progress(<<>>, <<>>)
            \/ left # <<>> /\ Progress(PutBack(left), <<>>)
            \/ /\ Failing /\ left # <<>>
               /\ buffer' = Tail(left)
               /\ Enter("error", <<>>)
               /\ UNCHANGED <<writer, held, ending, eof, shut, sock, waiter, lost>>
            \/ /\ Failing /\ left # <<>>
               /\ ForceClose(Tail(left))
               /\ UNCHANGED <<held, eof, shut, sock, waiter, lost, stack>>
    /\ UNCHANGED written

-----------------------------------------------------------------------------
(* The end.                                                                *)

FirstClose == ~closing

close ==
    /\ MayCall("close") /\ FirstClose
    /\ closing' = TRUE
    /\ \/ /\ buffer = <<>>
          /\ conn_lost' = TRUE /\ writer' = FALSE /\ scheduled' = scheduled + 1
       \/ /\ buffer # <<>>
          /\ UNCHANGED <<conn_lost, writer, scheduled>>
    /\ UNCHANGED <<buffer, sent, held, stale, eof, shut, sock, waiter, lost,
                   stack>>

abort ==
    /\ MayCall("abort") /\ ~conn_lost
    /\ ForceClose(buffer)
    /\ UNCHANGED <<sent, held, eof, shut, sock, waiter, lost, stack>>

\* Seeded fault: a second call of _call_connection_lost reaches the protocol.
AlwaysConnected == TRUE

\* The first call leaves no protocol and no socket: a second one only raises.
StillConnected == open

\* The scheduled _call_connection_lost runs.
RunLost ==
    /\ stack = <<>> /\ scheduled > 0
    /\ scheduled' = scheduled - 1
    /\ IF StillConnected THEN EnterLost(<<>>) ELSE UNCHANGED <<lost, stack>>
    /\ UNCHANGED <<buffer, sent, writer, held, closing, conn_lost, stale, eof,
                   shut, sock, waiter>>

\* The protocol's callback returns, or raises: the exception is caught, or
\* ends the operation that has nothing left to do.
Return ==
    /\ stack # <<>> /\ Head(stack) # "lines"
    /\ \/ /\ Head(stack) \in {"pause", "error"} \/ (Head(stack) = "resume" /\ ~open)
          /\ stack' = Tail(stack)
          /\ UNCHANGED <<buffer, writer, ending, eof, shut, sock, waiter, lost>>
       \/ /\ Head(stack) = "resume" /\ open
          /\ FinishWrite(buffer, Tail(stack))
       \/ /\ Head(stack) = "lost"
          /\ sock' = "none"
          /\ waiter' = Spoilt(waiter)
          /\ stack' = Tail(stack)
          /\ UNCHANGED <<buffer, writer, ending, eof, shut, lost>>
    /\ UNCHANGED <<sent, held>>

-----------------------------------------------------------------------------
Next ==
    \/ \E n \in Sizes : write(n)
    \/ \E sizes \in Lines : writelines(sizes)
    \/ write_eof \/ sendto \/ close \/ abort
    \/ make_empty_waiter \/ reset_empty_waiter \/ cancel_sendfile
    \/ LinesTail \/ RunWriter \/ SendtoReady \/ RunLost \/ Return

Spec == Init /\ [][Next]_vars

\* The peer keeps reading, so that a writer that keeps being called sends
\* something at last; callbacks return; a scheduled call runs.
Fairness ==
    /\ WF_vars(LinesTail \/ Return) /\ WF_vars(RunLost)
    /\ SF_vars(RunWriter /\ Len(Bytes(buffer')) < Len(Bytes(buffer)))
    /\ SF_vars(SendtoReady /\ (buffer = <<>> \/ Len(buffer') < Len(buffer)))

FairSpec == Spec /\ Fairness

-----------------------------------------------------------------------------
(* Properties.                                                             *)

\* A stream transport puts on the wire exactly what was written, in order, up
\* to what is still buffered, whatever sends take in part and whatever the
\* protocol writes in its callbacks: a graceful close loses nothing, and SHUT_WR
\* comes after the last byte.  Datagrams, and bytes before an error, may be
\* dropped but never overtake each other.
InOrder ==
    LET all == wire \o Bytes(buffer) IN
    /\ sock = "stream" /\ ~conn_lost => all = [n \in 1..written |-> n]
    /\ shut /\ ~conn_lost => wire = [n \in 1..written |-> n]
    /\ \A i, j \in DOMAIN all : i < j => all[i] < all[j]

\* Between two calls the writer is registered exactly while bytes are unsent:
\* _write_sendmsg's assertion holds when the loop calls it, and no idle writer
\* makes the loop spin.  When the protocol is told that the connection is lost
\* there is none left, which would outlive the socket on its duplicate.
WriterIffUnsent ==
    sock = "stream" =>
        /\ stack = <<>> => (writer <=> Size(buffer) > 0)
        /\ stack # <<>> /\ Head(stack) = "lost" => ~writer

\* The protocol's connection_lost is called once, even if the protocol closes
\* or aborts the transport inside resume_writing or inside connection_lost.
LostOnce == lost <= 1

\* The last write failed on the waiter of a sendfile that was cancelled while it
\* waited for the buffer.
Stranded == buffer = <<>> /\ waiter = "left" /\ ~conn_lost

\* A closed transport sends what it has buffered and then ends: its last write
\* calls connection_lost.  A stranded one stays closing, with nothing to send,
\* until it is aborted.
CloseCompletes == closing ~> ~open \/ Stranded

\* A protocol that was told to pause is told to resume or loses the connection.
ResumeComes == held ~> ~held \/ ~open

=============================================================================
