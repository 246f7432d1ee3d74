--------------------------- MODULE ExecutorProofs ---------------------------
(***************************************************************************)
(* Proofs about the default executor, for any set of jobs, and about the   *)
(* sendfile whose reads run in it, for any file and any blocks.            *)
(*                                                                         *)
(* JoinedIsQuiet speaks of the moment after the shutdown returned; it      *)
(* needs what the joining thread knew when it joined, which pool it had    *)
(* read, and that no job was submitted since.                              *)
(***************************************************************************)
EXTENDS Sendfile, TLAPS

\* Jobs are submitted only to the pool that is the default then, and the
\* default goes from none to the loop's own to the user's.
PoolsInOrder ==
    /\ \A j \in Job : Active(j) <=> own[j] # 0
    /\ dflt = 1 => \A j \in Job : own[j] # 2
    /\ dflt = 0 /\ closed # "yes" => \A j \in Job : own[j] = 0

\* Once the shutdown has begun no job is taken; what the thread has joined is
\* quiet and stays so.
ShutdownOrder ==
    /\ shut # "no" \/ thread # "no" \/ joined # 0 => shutCalled
    /\ joined = 1 => \A j \in Job : own[j] # 2
    /\ thread = "joining" => joined # 0
    /\ thread \in {"joined", "notifying"} \/ Shut \in posted =>
           joined # 0 /\ \A j \in Job : own[j] # joined
    /\ shut = "returned" => \A j \in Job : own[j] # 0 => joined = 2 /\ own[j] = 1
    /\ joined # 0 => thread \notin {"no", "started"}
    /\ thread # "no" => shut # "no"

\* While the loop is open the thread, and the coroutine that times out, find an
\* executor.
ThreadFindsPool ==
    /\ (thread = "started" \/ shut = "waiting") /\ closed # "yes" => dflt # 0
    /\ closed = "yes" => shutCalled
    /\ ~spurious

ExecutorInv == TypeExecutor /\ PoolsInOrder /\ ShutdownOrder /\ ThreadFindsPool

\* The invariant holds when the loop is made.
LEMMA ExecutorInit == InitExecutor => ExecutorInv
<1> SUFFICES ASSUME InitExecutor PROVE ExecutorInv
    OBVIOUS
<1>1. TypeExecutor
    <2>1. spurious \in BOOLEAN /\ shutCalled \in BOOLEAN
        BY Zenon DEF InitExecutor
    <2>2. own \in [Job -> 0..2]
        BY DEF InitExecutor
    <2>3. job \in [Job -> {"none", "queued", "running"}] /\ fut \in [Job -> {"none", "pending"}]
        BY DEF InitExecutor
    <2> QED BY <2>1, <2>2, <2>3 DEF InitExecutor, TypeExecutor
<1>2. PoolsInOrder
    BY DEF InitExecutor, PoolsInOrder, Active
<1>3. ShutdownOrder
    BY DEF InitExecutor, ShutdownOrder
<1>4. ThreadFindsPool
    BY Zenon DEF InitExecutor, ThreadFindsPool
<1> QED BY <1>1, <1>2, <1>3, <1>4 DEF ExecutorInv

\* Every step of the executor, its thread and the loop preserves it.
LEMMA ExecutorStep == ExecutorInv /\ [ExecutorNext]_executor => ExecutorInv'
<1> SUFFICES ASSUME ExecutorInv, [ExecutorNext]_executor PROVE ExecutorInv'
    OBVIOUS
<1> USE ExecutorConstants DEF ExecutorInv, TypeExecutor, PoolsInOrder, ShutdownOrder,
        ThreadFindsPool, Active, is_closed, pool, shutdown
<1>1. CASE \E j \in Job : run_in_executor(j)
    <2> PICK j \in Job : run_in_executor(j)
        BY <1>1
    <2> QED BY DEF run_in_executor, MayRun, Accepting
<1>2. CASE \E j \in Job : Begin(j)
    <2> PICK j \in Job : Begin(j)
        BY <1>2
    <2> QED BY DEF Begin
<1>3. CASE \E j \in Job : End(j)
    <2> PICK j \in Job : End(j)
        BY <1>3
    <2> QED BY DEF End, Told
<1>4. CASE \E j \in Job : Deliver(j)
    <2> PICK j \in Job : Deliver(j)
        BY <1>4
    <2> QED BY DEF Deliver
<1>5. CASE \E j \in Job : Cancel(j)
    <2> PICK j \in Job : Cancel(j)
        BY <1>5
    <2> QED BY DEF Cancel
<1>6. CASE set_default_executor
    BY <1>6 DEF set_default_executor
<1>7. CASE shutdown_default_executor
    BY <1>7 DEF shutdown_default_executor
<1>8. CASE thread_begins
    <2>1. CASE dflt = 0
        <3>1. closed = "yes" /\ spurious' = FALSE
            BY <1>8, <2>1 DEF thread_begins
        <3> QED BY <1>8, <2>1, <3>1, Zenon DEF thread_begins
    <2>2. CASE dflt # 0
        <3>1. joined = 0 /\ shutCalled /\ Shut \notin posted
            BY <1>8 DEF thread_begins
        <3>2. TypeExecutor'
            <4>1. dflt \in 1..2
                BY <2>2
            <4>2. down' \subseteq 1..2
                BY <1>8, <2>2, <4>1 DEF thread_begins
            <4>3. spurious' \in BOOLEAN /\ shutCalled' \in BOOLEAN
                BY <1>8, <2>2, Zenon DEF thread_begins
            <4> QED BY <1>8, <2>2, <4>2, <4>3 DEF thread_begins
        <3>3. PoolsInOrder'
            BY <1>8, <2>2 DEF thread_begins
        <3>4. ShutdownOrder'
            BY <1>8, <2>2, <3>1 DEF thread_begins
        <3>5. ThreadFindsPool'
            BY <1>8, <2>2 DEF thread_begins
        <3> QED BY <3>2, <3>3, <3>4, <3>5
    <2> QED BY <2>1, <2>2
<1>9. CASE thread_joins
    BY <1>9 DEF thread_joins, Joined
<1>10. CASE thread_looks
    BY <1>10 DEF thread_looks
<1>11. CASE thread_notifies
    BY <1>11 DEF thread_notifies, Told
<1>12. CASE shutdown_returns
    BY <1>12 DEF shutdown_returns
<1>13. CASE shutdown_times_out
    BY <1>13 DEF shutdown_times_out
<1>14. CASE shutdown_cancelled
    BY <1>14 DEF shutdown_cancelled
<1>15. CASE close_mark
    BY <1>15 DEF close_mark
<1>16. CASE close_executor
    BY <1>16 DEF close_executor
<1>17. CASE UNCHANGED executor
    BY <1>17 DEF executor
<1> QED BY <1>1, <1>2, <1>3, <1>4, <1>5, <1>6, <1>7, <1>8, <1>9, <1>10, <1>11, <1>12, <1>13, <1>14, <1>15, <1>16, <1>17, Zenon DEF ExecutorNext, ThreadStep

\* The inductive invariant of the executor.
THEOREM ExecutorInvariant == ExecutorSpec => []ExecutorInv
BY ExecutorInit, ExecutorStep, PTL DEF ExecutorSpec

\* A sendfile uses the executor only through its operations: each of its steps
\* is a step of the executor or leaves it alone.
LEMMA SendfileStep == [Next]_vars => [ExecutorNext]_executor
<1> SUFFICES ASSUME [Next]_vars PROVE [ExecutorNext]_executor
    OBVIOUS
<1>r. Read \in Job
    BY SendfileConstants
<1>1. CASE Environment \/ Service
    BY <1>1 DEF Environment, Service, ExecutorNext, Others
<1>2. CASE sock_sendfile
    BY <1>2, <1>r DEF sock_sendfile, ReadBlock, ExecutorNext
<1>3. CASE sendfile
    BY <1>3 DEF sendfile
<1>4. CASE fallback
    BY <1>4, <1>r DEF fallback, ReadBlock, ExecutorNext
<1>5. CASE readinto
    BY <1>5, <1>r DEF readinto, ExecutorNext
<1>6. CASE read_returned
    BY <1>6, <1>r DEF read_returned, ExecutorNext
<1>7. CASE sent_block
    BY <1>7, <1>r DEF sent_block, ReadBlock, ExecutorNext
<1>8. CASE Flush
    BY <1>8 DEF Flush
<1>9. CASE break_off
    BY <1>9 DEF break_off
<1>10. CASE cancelled
    BY <1>10, <1>r DEF cancelled, ExecutorNext
<1>11. CASE UNCHANGED vars
    BY <1>11 DEF vars
<1> QED BY <1>1, <1>2, <1>3, <1>4, <1>5, <1>6, <1>7, <1>8, <1>9, <1>10, <1>11 DEF Next, CallStep

\* loop.sendfile and loop.sock_sendfile together with the other users of the
\* executor implement the executor's specification.
THEOREM UsesExecutor == Spec => ExecutorSpec
<1>1. Init => InitExecutor
    BY DEF Init
<1> QED BY <1>1, SendfileStep, PTL DEF Spec, ExecutorSpec

\* When shutdown_default_executor has returned, the pool its thread joined has
\* no job and gets none.
THEOREM ShutdownJoins == Spec => []JoinedIsQuiet
<1>1. ExecutorInv => JoinedIsQuiet
    BY DEF ExecutorInv, PoolsInOrder, ShutdownOrder, JoinedIsQuiet, Active
<1> QED BY <1>1, UsesExecutor, ExecutorInvariant, PTL

\* The joining thread finds an executor as long as the loop is open.
THEOREM ThreadFinds == Spec => []ThreadNeverSpurious
<1>1. ExecutorInv => ThreadNeverSpurious
    BY DEF ExecutorInv, ThreadFindsPool, ThreadNeverSpurious
<1> QED BY <1>1, UsesExecutor, ExecutorInvariant, PTL

-----------------------------------------------------------------------------
(* The bytes of a sendfile, for any file, block size, offset and count.     *)

\* The reading job belongs to the await of the call; after a cancellation it
\* may run on, and the call has noted that.
ReadJob ==
    /\ pc = "reading" => fut[Read] = "pending"
    /\ pc # "reading" => fut[Read] = "none" /\ job[Read] # "queued"
    /\ pc \in {"start", "emptying", "sending"} \/ (pc \in Ended /\ ~stray) => ~Active(Read)
    /\ Read \in posted => pc = "reading" /\ ~Active(Read)
    /\ pc \notin Ended => ~stray

\* Nothing that was handed over was dropped: a transport drops it when the
\* connection breaks, a sock_sendall raises.
Whole == ~broken \/ callee = "sock"

\* What was sent and what is handed over makes up total_sent and the block at
\* hand; total_sent stays within count and the file.
Accounted ==
    /\ pc \in {"start", "emptying"} => total = 0 /\ wire = <<>> /\ unsent = <<>>
    /\ pc = "emptying" => callee = "transport"
    /\ Whole /\ pc \in {"reading", "returned"} => Len(wire) + Len(unsent) = total
    /\ Whole /\ pc = "sending" => Len(wire) + Len(unsent) = total + got
    /\ offset + total <= FileSize /\ (count > 0 => total <= count)
    /\ pc = "reading" /\ count > 0 => total < count
    /\ ~registered => total = 0 /\ pc \in {"emptying", "cancelled", "error"}

\* A block of the file is in the bytearray, and the file stands behind it.
BlockRead ==
    /\ fpos = offset + total + got
    /\ count > 0 => total + got <= count
    /\ got = 0 => fpos = FileSize
    /\ \A i \in 1..got : buf[i] = offset + total + i

\* Where the file stands.
Positioned ==
    /\ pc = "reading" /\ Active(Read) => fpos = offset + total
    /\ (Read \in posted /\ ~failed) \/ pc = "sending" => BlockRead
    /\ pc = "sending" => got > 0
    /\ pc \in Ended /\ ~stray /\ (pc = "returned" \/ total > 0) => fpos = offset + total
    /\ pc = "returned" =>
           offset + total = FileSize \/ (count > 0 /\ total = count)

\* The kernel has a prefix of the file from the offset on; what sock_sendall
\* still holds are the last positions of the block.
SockWire ==
    callee = "sock" =>
        /\ \A i \in 1..Len(wire) : wire[i] = offset + i
        /\ pc # "sending" => unsent = <<>>
        /\ pc = "sending" =>
               /\ Len(unsent) <= got
               /\ \A k \in 1..Len(unsent) : unsent[k] = got - Len(unsent) + k

SendfileInv == TypeOK /\ ReadJob /\ Accounted /\ Positioned /\ SockWire

\* The smaller of two numbers, as the model's Min chooses it.
LEMMA MinOfTwo ==
    ASSUME NEW a \in Int, NEW b \in Int
    PROVE  Min({a, b}) = IF a <= b THEN a ELSE b
    BY DEF Min

\* The least element of a set with one element.
LEMMA MinOfOne ==
    ASSUME NEW a \in Int
    PROVE  Min({a}) = a
    BY DEF Min

\* A block fits the bytearray and what is left of count.
LEMMA BlockFits ==
    ASSUME NEW t \in Nat, count \in Nat, count > 0 => t <= count
    PROVE  /\ BlockSize(t) \in 0..Block
           /\ count > 0 => t + BlockSize(t) <= count
<1>1. CASE count = 0
    BY <1>1, SendfileConstants DEF BlockSize
<1>2. CASE count # 0
    <2>1. BlockSize(t) = IF count - t <= Block THEN count - t ELSE Block
        BY <1>2, MinOfTwo, SendfileConstants DEF BlockSize
    <2> QED BY <1>2, <2>1, SendfileConstants
<1> QED BY <1>1, <1>2

\* What Append and Tail do to the positions of a sequence.
LEMMA AppendAt ==
    ASSUME NEW S, NEW s \in Seq(S), NEW e \in S
    PROVE  /\ Append(s, e) \in Seq(S) /\ Len(Append(s, e)) = Len(s) + 1
           /\ \A i \in 1..Len(s) : Append(s, e)[i] = s[i]
           /\ Append(s, e)[Len(s) + 1] = e
    OBVIOUS

\* What is left of a sequence once its head is taken.
LEMMA TailAt ==
    ASSUME NEW S, NEW s \in Seq(S), s # <<>>
    PROVE  /\ Tail(s) \in Seq(S) /\ Len(Tail(s)) = Len(s) - 1 /\ Len(s) > 0
           /\ \A i \in 1..Len(s) - 1 : Tail(s)[i] = s[i + 1]
           /\ Head(s) = s[1] /\ Head(s) \in S
    OBVIOUS

\* Nothing is read or sent when the call begins.
LEMMA SendfileInit == Init => SendfileInv
<1> SUFFICES ASSUME Init PROVE SendfileInv
    OBVIOUS
<1> USE SendfileConstants DEF Init, InitExecutor, CheckedArgs
<1>1. TypeOK
    <2>1. TypeExecutor
        BY ExecutorInit DEF ExecutorInv
    <2>2. /\ paused \in BOOLEAN /\ registered \in BOOLEAN /\ stray \in BOOLEAN
          /\ broken \in BOOLEAN /\ failed \in BOOLEAN
        BY Zenon
    <2>3. buf \in [1..Block -> 0..FileSize]
        BY DEF Init
    <2> QED BY <2>1, <2>2, <2>3 DEF TypeOK
<1>2. ReadJob
    BY DEF ReadJob, Active, Ended
<1>3. Accounted /\ Positioned /\ SockWire
    BY DEF Accounted, Positioned, SockWire, Active, Ended
<1> QED BY <1>1, <1>2, <1>3 DEF SendfileInv

\* Steps of the executor that leave the call alone.
LEMMA CallUntouched ==
    ASSUME SendfileInv, TypeExecutor', UNCHANGED sendfileVars,
           fut'[Read] = fut[Read],
           job'[Read] = job[Read] \/ (job[Read] = "queued" /\ job'[Read] = "running"),
           Read \in posted' => Read \in posted
    PROVE  SendfileInv'
<1> USE DEF sendfileVars, args, file, block, sent, SendfileInv
<1>1. TypeOK'
    BY Zenon DEF TypeOK
<1>2. ReadJob'
    BY DEF ReadJob, Active
<1>3. Accounted' /\ SockWire'
    BY DEF Accounted, Whole, SockWire
<1>4. Positioned'
    BY DEF Positioned, BlockRead, Active
<1> QED BY <1>1, <1>2, <1>3, <1>4

\* Steps of the executor that no sendfile takes.
LEMMA OthersKeep ==
    ASSUME SendfileInv, ExecutorInv', Environment \/ Service, UNCHANGED sendfileVars
    PROVE  SendfileInv'
<1>0. TypeExecutor /\ TypeExecutor' /\ Read \in Job /\ Shut # Read
    BY SendfileConstants, ExecutorConstants DEF SendfileInv, TypeOK, ExecutorInv
<1> SUFFICES /\ fut'[Read] = fut[Read]
             /\ job'[Read] = job[Read] \/ (job[Read] = "queued" /\ job'[Read] = "running")
             /\ Read \in posted' => Read \in posted
    BY <1>0, CallUntouched
<1> USE <1>0 DEF TypeExecutor
<1>1. CASE \E j \in Others : run_in_executor(j) \/ Cancel(j) \/ End(j) \/ Deliver(j)
    BY <1>1 DEF Others, run_in_executor, Cancel, End, Deliver, Told
<1>2. CASE \E j \in Job : Begin(j)
    BY <1>2 DEF Begin
<1>3. CASE ThreadStep \/ shutdown_returns \/ close_executor
    BY <1>3 DEF ThreadStep, thread_begins, thread_joins, thread_looks, thread_notifies,
                Told, shutdown_returns, close_executor
<1>4. CASE \/ set_default_executor \/ shutdown_default_executor
           \/ shutdown_times_out \/ shutdown_cancelled \/ close_mark
    BY <1>4 DEF set_default_executor, shutdown_default_executor, shutdown_times_out,
                shutdown_cancelled, close_mark
<1> QED BY <1>1, <1>2, <1>3, <1>4 DEF Environment, Service

\* The next block is asked for behind the t bytes that were sent.
LEMMA ReadBlockKeeps ==
    ASSUME SendfileInv, ExecutorInv', NEW t \in Nat, ReadBlock(t, offset + t),
           pc \in {"start", "emptying", "sending"},
           UNCHANGED <<args, block, sent>>, registered' = TRUE,
           Whole => Len(wire) + Len(unsent) = t,
           offset + t <= FileSize, count > 0 => t < count,
           callee = "sock" => unsent = <<>>
    PROVE  SendfileInv'
<1> USE SendfileConstants DEF args, block, sent, SendfileInv
<1>0. TypeExecutor /\ TypeExecutor' /\ ~Active(Read) /\ Read \notin posted
    <2>1. TypeExecutor /\ TypeExecutor'
        BY Zenon DEF TypeOK, ExecutorInv
    <2>2. ~Active(Read) /\ Read \notin posted
        BY DEF ReadJob
    <2> QED BY <2>1, <2>2, Zenon
<1>1. /\ pc' \in {"reading", "error"} /\ total' = t /\ fpos' = offset + t /\ stray' = FALSE
      /\ pc' = "error" => UNCHANGED executor
      /\ pc' = "reading" => run_in_executor(Read)
    <2>1. CASE UNCHANGED executor /\ Leave("error", t, offset + t)
        BY <1>0, <2>1, Zenon DEF Leave, Reseek, executor, Active
    <2>2. CASE ~(UNCHANGED executor /\ Leave("error", t, offset + t))
        BY <1>0, <2>2, Zenon DEF ReadBlock, ReadJob, Ended, TypeOK
    <2> QED BY <2>1, <2>2, Zenon
<1>2. TypeOK'
    <2>1. /\ stray' \in BOOLEAN /\ registered' \in BOOLEAN /\ paused' \in BOOLEAN
          /\ broken' \in BOOLEAN /\ failed' \in BOOLEAN
        BY <1>1, Zenon DEF TypeOK
    <2>2. /\ callee' \in Callees /\ offset' \in Offsets /\ count' \in Counts
          /\ unsent' \in Seq(1..Block) /\ wire' \in Seq(0..FileSize)
          /\ buf' \in [1..Block -> 0..FileSize]
        BY Zenon DEF TypeOK
    <2>3. fpos' \in 0..FileSize /\ got' \in 0..Block /\ total' \in 0..FileSize
        BY <1>1 DEF TypeOK
    <2> QED BY <1>0, <1>1, <2>1, <2>2, <2>3, Zenon DEF TypeOK, Ended
<1>3. ReadJob'
    BY <1>0, <1>1 DEF ReadJob, run_in_executor, executor, TypeExecutor, Active, Ended
<1>4. Accounted'
    BY <1>1 DEF Accounted, Whole, TypeOK
<1>5. Positioned'
    <2>1. Read \notin posted'
        BY <1>0, <1>1 DEF run_in_executor, executor
    <2> QED BY <1>1, <2>1 DEF Positioned, Ended
<1>6. SockWire'
    BY <1>1 DEF SockWire
<1> QED BY <1>2, <1>3, <1>4, <1>5, <1>6, Zenon

\* The call ends with t bytes sent while no read goes on.
LEMMA LeaveKeeps ==
    ASSUME SendfileInv, ExecutorInv', NEW t \in Nat, NEW how \in Ended,
           Leave(how, t, fpos), pc \notin Ended,
           UNCHANGED <<args, block, registered, wire>>,
           paused' \in BOOLEAN, broken' \in BOOLEAN,
           unsent' \in Seq(1..Block), callee = "sock" => unsent' = <<>>,
           fut'[Read] = "none", job'[Read] # "queued", Read \notin posted',
           offset + t <= FileSize, count > 0 => t <= count,
           how = "returned" => /\ (Whole' => Len(wire) + Len(unsent') = t) /\ registered
                               /\ fpos = offset + t
                               /\ offset + t = FileSize \/ (count > 0 /\ t = count),
           ~registered => t = 0
    PROVE  SendfileInv'
<1> USE SendfileConstants DEF args, block, SendfileInv, Ended
<1>1. /\ pc' = how /\ total' = t /\ fpos' = (IF t > 0 THEN offset + t ELSE fpos)
      /\ stray' = (job'[Read] = "running") /\ TypeExecutor'
    BY Zenon DEF Leave, Reseek, ExecutorInv
<1>2. TypeOK'
    <2>1. stray' \in BOOLEAN /\ registered' \in BOOLEAN /\ failed' \in BOOLEAN
        BY <1>1, Zenon DEF TypeOK
    <2>2. /\ callee' \in Callees /\ offset' \in Offsets /\ count' \in Counts
          /\ wire' \in Seq(0..FileSize) /\ buf' \in [1..Block -> 0..FileSize]
        BY Zenon DEF TypeOK
    <2>3. fpos' \in 0..FileSize /\ got' \in 0..Block /\ total' \in 0..FileSize
        BY <1>1 DEF TypeOK
    <2> QED BY <1>1, <2>1, <2>2, <2>3, Zenon DEF TypeOK
<1>3. ReadJob'
    BY <1>1, Zenon DEF ReadJob, TypeExecutor, Active
<1>4. Accounted'
    BY <1>1, Zenon DEF Accounted, TypeOK
<1>5. Positioned'
    BY <1>1, Zenon DEF Positioned, TypeOK
<1>6. SockWire'
    BY <1>1 DEF SockWire
<1> QED BY <1>2, <1>3, <1>4, <1>5, <1>6, Zenon

\* A block is read into the bytearray, by the call or after it was cancelled.
LEMMA ReadIntoKeeps == ASSUME SendfileInv, ExecutorInv', readinto PROVE SendfileInv'
<1> DEFINE Takes(n) == /\ n <= Block /\ n <= FileSize - fpos
                       /\ count > 0 => total + n <= count
                       /\ n = 0 => fpos = FileSize
                       /\ fpos' = fpos + n /\ got' = n
                       /\ buf' = [i \in 1..Block |-> IF i <= n THEN fpos + i ELSE buf[i]]
<1> USE SendfileConstants DEF args, sent, SendfileInv
<1>0. /\ job[Read] = "running" /\ ~Active(Read)' /\ fut' = fut /\ TypeExecutor'
      /\ Active(Read) /\ Read \in Job
      /\ Read \in posted' => fut[Read] = "pending"
      /\ UNCHANGED <<args, pc, total, sent, registered, stray>>
    BY DEF readinto, End, Told, TypeOK, TypeExecutor, Active, ReadJob, ExecutorInv
<1>1. \/ failed' = TRUE /\ UNCHANGED <<fpos, got, buf>>
      \/ failed' = FALSE /\ \E n \in Nat : Takes(n)
    <2>1. total \in Nat /\ count \in Nat /\ fpos \in Nat /\ (count > 0 => total <= count)
        BY DEF TypeOK, Accounted
    <2>2. /\ BlockSize(total) \in 0..Block
          /\ count > 0 => total + BlockSize(total) <= count
        BY <2>1, BlockFits
    <2>3. Min({BlockSize(total), FileSize - fpos}) =
              IF BlockSize(total) <= FileSize - fpos THEN BlockSize(total) ELSE FileSize - fpos
        BY <2>1, <2>2, MinOfTwo
    <2>4. ASSUME NEW n \in 0..Min({BlockSize(total), FileSize - fpos}),
                 n = 0 => fpos = FileSize, fpos' = fpos + n, got' = n,
                 buf' = [i \in 1..Block |-> IF i <= n THEN fpos + i ELSE buf[i]]
          PROVE  n \in Nat /\ Takes(n)
        BY <2>1, <2>2, <2>3, <2>4
    <2> HIDE DEF Takes
    <2> QED BY <2>4, Zenon DEF readinto
<1>2. TypeOK'
    <2>1. buf' \in [1..Block -> 0..FileSize] /\ fpos' \in 0..FileSize /\ got' \in 0..Block
        <3>1. CASE UNCHANGED <<fpos, got, buf>>
            BY <3>1 DEF TypeOK
        <3>2. CASE \E n \in Nat : Takes(n)
            <4>1. PICK n \in Nat : Takes(n)
                BY <3>2
            <4>2. buf' \in [1..Block -> 0..FileSize]
                BY <4>1 DEF TypeOK
            <4> QED BY <4>1, <4>2 DEF TypeOK
        <3> HIDE DEF Takes
        <3> QED BY <1>1, <3>1, <3>2, Zenon
    <2>2. failed' \in BOOLEAN
        BY <1>1, Zenon
    <2> QED BY <1>0, <2>1, <2>2, Zenon DEF TypeOK
<1>3. ReadJob'
    BY <1>0, Zenon DEF ReadJob, Active
<1>4. Accounted'
    BY <1>0 DEF Accounted, Whole, ReadJob
<1>5. Positioned'
    <2>1. pc # "sending" /\ (pc \in Ended => stray)
        BY <1>0, Zenon DEF ReadJob, Active
    <2>2. CASE Read \notin posted' \/ failed'
        BY <1>0, <2>1, <2>2, Zenon DEF Positioned, Active, Ended
    <2>3. CASE Read \in posted' /\ ~failed'
        <3>1. pc = "reading" /\ fpos = offset + total
            BY <1>0, <2>3, Zenon DEF ReadJob, Positioned
        <3>2. BlockRead'
            <4>1. PICK n \in Nat : Takes(n)
                BY <1>1, <2>3, Zenon
            <4> QED BY <1>0, <3>1, <4>1, SMTT(20) DEF BlockRead, TypeOK
        <3> QED BY <1>0, <3>1, <3>2, Zenon DEF Positioned, Ended
    <2> QED BY <2>2, <2>3
<1>6. SockWire'
    BY <1>0 DEF SockWire, ReadJob
<1> QED BY <1>2, <1>3, <1>4, <1>5, <1>6, Zenon

\* The call goes on with a block, or ends with the file.
LEMMA ReadReturnedKeeps == ASSUME SendfileInv, ExecutorInv', read_returned PROVE SendfileInv'
<1> USE SendfileConstants DEF args, file, block, SendfileInv
<1>0. /\ pc = "reading" /\ Read \in posted /\ Read \notin posted' /\ fut'[Read] = "none"
      /\ job' = job /\ job[Read] = "none" /\ TypeExecutor' /\ ~stray
      /\ failed \/ BlockRead
      /\ UNCHANGED <<args, block, broken, wire, registered>>
    BY ZenonT(30) DEF read_returned, Deliver, TypeOK, TypeExecutor, ReadJob, Active, Positioned,
           ExecutorInv, Ended
<1>1. /\ callee = "sock" => unsent = <<>>
      /\ Whole => Len(wire) + Len(unsent) = total
      /\ registered
    BY <1>0, Zenon DEF SockWire, Accounted
<1>2. ASSUME NEW how \in Ended, Leave(how, total, fpos), UNCHANGED <<unsent, paused>>,
             how = "returned" => ~failed /\ got = 0
      PROVE  SendfileInv'
    <2>1. how = "returned" => offset + total = FileSize /\ fpos = offset + total
        BY <1>0, <1>2 DEF BlockRead, TypeOK
    <2>2. paused' \in BOOLEAN /\ broken' \in BOOLEAN
        BY <1>0, <1>2, Zenon DEF TypeOK
    <2>3. unsent' \in Seq(1..Block)
        BY <1>2 DEF TypeOK
    <2>4. total \in Nat /\ offset + total <= FileSize /\ (count > 0 => total <= count)
        BY DEF TypeOK, Accounted
    <2>5. /\ pc \notin Ended
          /\ fut'[Read] = "none" /\ job'[Read] # "queued"
          /\ callee = "sock" => unsent' = <<>>
          /\ Whole' => Len(wire) + Len(unsent') = total
        BY <1>0, <1>1, <1>2, Zenon DEF Whole, Ended
    <2> QED BY <1>0, <1>1, <1>2, <2>1, <2>2, <2>3, <2>4, <2>5, LeaveKeeps
<1>3. CASE ~failed /\ got > 0 /\ ~broken
    <2>0. BlockRead
        BY <1>0, <1>3
    <2>1. /\ unsent' = unsent \o [i \in 1..got |-> i]
          /\ paused' = (callee = "transport" /\ Len(unsent') > High)
          /\ pc' = "sending" /\ UNCHANGED <<total, fpos, stray>>
        <3>1. got # 0
            BY <1>3
        <3> QED BY <1>3, <3>1, Zenon DEF read_returned
    <2>2. [i \in 1..got |-> i] \in Seq(1..Block) /\ Len([i \in 1..got |-> i]) = got
        BY DEF TypeOK
    <2>3. unsent' \in Seq(1..Block) /\ Len(unsent') = Len(unsent) + got
        BY <2>1, <2>2 DEF TypeOK
    <2>4. callee = "sock" => Len(unsent') = got /\ \A k \in 1..got : unsent'[k] = k
        BY <1>1, <2>1, <2>2 DEF TypeOK
    <2>5. TypeOK'
        <3>1. /\ paused' \in BOOLEAN /\ registered' \in BOOLEAN /\ stray' \in BOOLEAN
              /\ broken' \in BOOLEAN /\ failed' \in BOOLEAN
            BY <1>0, <2>1, Zenon DEF TypeOK
        <3> QED BY <1>0, <2>1, <2>3, <3>1, Zenon DEF TypeOK
    <2>6. ReadJob'
        BY <1>0, <2>1, Zenon DEF ReadJob, Active, Ended
    <2>7. Accounted'
        <3>1. Len(wire') + Len(unsent') = total' + got'
            <4>1. Len(wire) + Len(unsent) = total
                BY <1>1, <1>3, Zenon DEF Whole
            <4>2. Len(wire) \in Nat /\ Len(unsent) \in Nat /\ got \in Nat
                BY DEF TypeOK
            <4>3. wire' = wire /\ got' = got /\ total' = total
                BY <1>0, <2>1, Zenon
            <4> QED BY <2>3, <4>1, <4>2, <4>3
        <3> QED BY <1>0, <1>1, <2>1, <3>1, Zenon DEF Accounted
    <2>8. Positioned'
        BY <1>0, <1>3, <2>0, <2>1 DEF Positioned, BlockRead, Ended, TypeOK
    <2>9. SockWire'
        <3>1. UNCHANGED <<callee, offset, wire, got>> /\ got \in Nat
            BY <1>0 DEF TypeOK
        <3>2. callee = "sock" => \A i \in 1..Len(wire) : wire[i] = offset + i
            BY DEF SockWire
        <3>3. callee = "sock" => /\ Len(unsent') <= got
                                 /\ \A k \in 1..Len(unsent') : unsent'[k] = got - Len(unsent') + k
            BY <2>4, <3>1
        <3> QED BY <2>1, <3>1, <3>2, <3>3, Zenon DEF SockWire
    <2> QED BY <2>5, <2>6, <2>7, <2>8, <2>9
<1> QED BY <1>2, <1>3, Zenon DEF read_returned, Ended

\* The kernel takes a byte.
LEMMA FlushKeeps == ASSUME SendfileInv, ExecutorInv', Flush PROVE SendfileInv'
<1> USE SendfileConstants DEF args, file, block, SendfileInv
<1>0. /\ unsent # <<>> /\ wire' = Append(wire, buf[Head(unsent)]) /\ unsent' = Tail(unsent)
      /\ paused' = (paused /\ Len(unsent') > Low)
      /\ UNCHANGED <<executor, args, pc, file, broken, registered, stray>>
    BY Zenon DEF Flush
<1>1. /\ unsent' \in Seq(1..Block) /\ Len(unsent') = Len(unsent) - 1 /\ Len(unsent) > 0
      /\ \A i \in 1..Len(unsent) - 1 : unsent'[i] = unsent[i + 1]
      /\ Head(unsent) = unsent[1] /\ Head(unsent) \in 1..Block
    BY <1>0, TailAt, Zenon DEF TypeOK
<1>2. buf[Head(unsent)] \in 0..FileSize
    BY <1>1 DEF TypeOK
<1>3. /\ wire' \in Seq(0..FileSize) /\ Len(wire') = Len(wire) + 1
      /\ \A i \in 1..Len(wire) : wire'[i] = wire[i]
      /\ wire'[Len(wire) + 1] = buf[Head(unsent)]
    BY <1>0, <1>2, AppendAt DEF TypeOK
<1>4. Len(wire) \in Nat /\ Len(unsent) \in Nat
    BY DEF TypeOK
<1>5. TypeOK'
    <2>1. /\ paused' \in BOOLEAN /\ registered' \in BOOLEAN /\ stray' \in BOOLEAN
          /\ broken' \in BOOLEAN /\ failed' \in BOOLEAN
        BY <1>0, Zenon DEF TypeOK
    <2>2. TypeExecutor'
        BY DEF ExecutorInv
    <2> QED BY <1>0, <1>1, <1>3, <2>1, <2>2, Zenon DEF TypeOK
<1>6. ReadJob' /\ Positioned'
    BY <1>0 DEF ReadJob, Positioned, BlockRead, Active, executor
<1>7. Accounted'
    BY <1>0, <1>1, <1>3, <1>4 DEF Accounted, Whole
<1>8. SockWire'
    <2> SUFFICES ASSUME callee = "sock" PROVE SockWire'
        BY <1>0 DEF SockWire
    <2>1. pc = "sending" /\ Len(wire) + Len(unsent) = total + got
        BY <1>0 DEF SockWire, Accounted, Whole
    <2>2. buf[Head(unsent)] = offset + (Len(wire) + 1)
        <3>1. Len(unsent) <= got /\ Head(unsent) = got - Len(unsent) + 1
            BY <1>1, <1>4, <2>1 DEF SockWire
        <3>2. Head(unsent) \in 1..got
            BY <1>1, <1>4, <3>1 DEF TypeOK
        <3>3. buf[Head(unsent)] = offset + total + Head(unsent)
            BY <2>1, <3>2 DEF Positioned, BlockRead
        <3>4. offset \in Nat /\ total \in Nat /\ got \in Nat
            BY DEF TypeOK
        <3> QED BY <1>4, <2>1, <3>1, <3>3, <3>4
    <2>3. \A i \in 1..Len(wire') : wire'[i] = offset + i
        BY <1>3, <1>4, <2>2 DEF SockWire
    <2>4. \A k \in 1..Len(unsent') : unsent'[k] = got - Len(unsent') + k
        <3> SUFFICES ASSUME NEW k \in 1..Len(unsent')
                     PROVE  unsent'[k] = got - Len(unsent') + k
            OBVIOUS
        <3>1. k \in 1..Len(unsent) - 1 /\ k + 1 \in 1..Len(unsent)
            BY <1>1, <1>4
        <3>2. unsent[k + 1] = got - Len(unsent) + (k + 1)
            BY <2>1, <3>1 DEF SockWire
        <3> QED BY <1>1, <1>4, <3>1, <3>2 DEF TypeOK
    <2>5. Len(unsent') <= got
        BY <1>1, <1>4, <2>1 DEF SockWire, TypeOK
    <2> QED BY <1>0, <2>1, <2>3, <2>4, <2>5 DEF SockWire
<1> QED BY <1>5, <1>6, <1>7, <1>8

\* A block was sent, or the transport took it: the call ends or reads on.
LEMMA SentBlockKeeps == ASSUME SendfileInv, ExecutorInv', sent_block PROVE SendfileInv'
<1> DEFINE t == total + got
<1> USE SendfileConstants DEF SendfileInv
<1>1. /\ pc = "sending" /\ UNCHANGED <<args, block, sent, registered>>
      /\ callee = "sock" => unsent = <<>>
    BY DEF sent_block, Drained
<1>2. /\ t \in Nat /\ fpos = offset + t /\ (count > 0 => t <= count) /\ got > 0
      /\ offset + t <= FileSize /\ registered
      /\ Whole => Len(wire) + Len(unsent) = t
      /\ count \in Nat /\ registered' = TRUE
    BY <1>1 DEF Positioned, BlockRead, Accounted, TypeOK
<1>3. CASE count > 0 /\ t = count
    <2>1. UNCHANGED executor /\ Leave("returned", t, fpos)
        BY <1>3, SMTT(20) DEF sent_block
    <2>2. fut'[Read] = "none" /\ job'[Read] # "queued" /\ Read \notin posted'
        BY <1>1, <2>1 DEF ReadJob, executor
    <2>3. /\ UNCHANGED <<unsent, wire, paused>> /\ paused' \in BOOLEAN /\ broken' \in BOOLEAN
          /\ Whole' => Whole
        BY <1>1, Zenon DEF sent, args, Whole, TypeOK
    <2>4. unsent' \in Seq(1..Block)
        BY <2>3 DEF TypeOK
    <2>5. Whole' => Len(wire) + Len(unsent') = t
        BY <1>2, <2>3, Zenon
    <2> HIDE DEF t
    <2> QED BY <1>1, <1>2, <1>3, <2>1, <2>2, <2>3, <2>4, <2>5, LeaveKeeps DEF Ended
<1>4. CASE ~(count > 0 /\ t = count)
    <2>1. ReadBlock(t, offset + t)
        BY <1>2, <1>4 DEF sent_block
    <2>2. count > 0 => t < count
        BY <1>2, <1>4
    <2> HIDE DEF t
    <2> QED BY <1>1, <1>2, <2>1, <2>2, ReadBlockKeeps
<1> QED BY <1>3, <1>4

\* The call is cancelled at an await.
LEMMA CancelledKeeps == ASSUME SendfileInv, ExecutorInv', cancelled PROVE SendfileInv'
<1> USE SendfileConstants DEF SendfileInv
<1>0. /\ pc \in {"emptying", "reading", "sending"} /\ Leave("cancelled", total, fpos)
      /\ unsent' = IF callee = "sock" THEN <<>> ELSE unsent
      /\ UNCHANGED <<args, block, paused, broken, wire, registered>>
    BY Zenon DEF cancelled
<1>1. fut'[Read] = "none" /\ job'[Read] # "queued" /\ Read \notin posted'
    <2>1. CASE pc = "reading"
        BY <2>1, Zenon DEF cancelled, Cancel, TypeOK, TypeExecutor
    <2>2. CASE pc # "reading"
        BY <1>0, <2>2 DEF cancelled, ReadJob, executor
    <2> QED BY <2>1, <2>2, Zenon
<1>2. paused' \in BOOLEAN /\ broken' \in BOOLEAN
    BY <1>0, Zenon DEF TypeOK
<1>3. unsent' \in Seq(1..Block) /\ total \in Nat
    <2>1. <<>> \in Seq(1..Block) /\ unsent \in Seq(1..Block) /\ total \in Nat
        BY DEF TypeOK
    <2> QED BY <1>0, <2>1, Zenon
<1>4. /\ offset + total <= FileSize /\ (count > 0 => total <= count)
      /\ ~registered => total = 0
    BY DEF Accounted
<1> QED BY <1>0, <1>1, <1>2, <1>3, <1>4, LeaveKeeps DEF Ended

\* The connection breaks: the call ends, or only what was not sent is lost.
LEMMA BreakOffKeeps == ASSUME SendfileInv, ExecutorInv', break_off PROVE SendfileInv'
<1> USE SendfileConstants DEF SendfileInv
<1>0. /\ broken' = TRUE /\ unsent' = <<>> /\ UNCHANGED executor
      /\ UNCHANGED <<args, block, paused, wire, registered>>
    BY Zenon DEF break_off
<1>1. /\ paused' \in BOOLEAN /\ broken' \in BOOLEAN
      /\ registered' \in BOOLEAN /\ failed' \in BOOLEAN
    BY <1>0, Zenon DEF TypeOK, block
<1>2. unsent' \in Seq(1..Block) /\ total \in Nat
    BY <1>0 DEF TypeOK
<1>3. CASE pc \in {"emptying", "sending"} /\ Leave("error", total, fpos)
    <2>1. fut'[Read] = "none" /\ job'[Read] # "queued" /\ Read \notin posted'
        BY <1>0, <1>3 DEF ReadJob, executor
    <2>2. /\ offset + total <= FileSize /\ (count > 0 => total <= count)
          /\ ~registered => total = 0
        BY DEF Accounted
    <2> QED BY <1>0, <1>1, <1>2, <1>3, <2>1, <2>2, LeaveKeeps DEF Ended
<1>4. CASE (pc # "sending" \/ Drained) /\ UNCHANGED <<pc, total, fpos, stray>>
    <2> USE <1>0, <1>4 DEF args, block, executor
    <2>1. TypeOK'
        <3>1. TypeExecutor' /\ stray' \in BOOLEAN
            BY Zenon DEF TypeOK, ExecutorInv
        <3> QED BY <1>1, <1>2, <3>1, Zenon DEF TypeOK
    <2>2. ReadJob' /\ Positioned'
        BY Zenon DEF ReadJob, Positioned, BlockRead, Active
    <2>3. callee = "sock" => unsent = <<>>
        BY Zenon DEF SockWire, Drained
    <2>4. Accounted' /\ SockWire'
        <3>1. CASE callee = "sock"
            BY <2>3, <3>1 DEF Accounted, SockWire, Whole
        <3>2. CASE callee # "sock"
            BY <3>2, Zenon DEF Accounted, SockWire, Whole
        <3> QED BY <3>1, <3>2, Zenon
    <2> QED BY <2>1, <2>2, <2>4, Zenon
<1> QED BY <1>3, <1>4, Zenon DEF break_off

\* Every step preserves the invariant.
LEMMA SendfileKeeps == SendfileInv /\ ExecutorInv' /\ [Next]_vars => SendfileInv'
<1> SUFFICES ASSUME SendfileInv, ExecutorInv', [Next]_vars PROVE SendfileInv'
    OBVIOUS
<1>0. 0 \in Nat /\ offset \in Nat /\ offset <= FileSize /\ offset + 0 = offset /\ count \in Nat
    BY SendfileConstants DEF SendfileInv, TypeOK
<1>1. CASE (Environment \/ Service) /\ UNCHANGED sendfileVars
    BY <1>1, OthersKeep
<1>2. CASE sock_sendfile \/ fallback
    <2>1. ReadBlock(0, offset + 0) /\ pc \in {"start", "emptying", "sending"}
        BY <1>0, <1>2 DEF sock_sendfile, fallback
    <2>2. registered' = TRUE /\ UNCHANGED <<args, block, sent>>
        BY <1>2 DEF sock_sendfile, fallback, PutBack, SendfileInv, Accounted, TypeOK
    <2>3. wire = <<>> /\ unsent = <<>>
        BY <1>2 DEF sock_sendfile, fallback, SendfileInv, Accounted
    <2>4. Len(wire) + Len(unsent) = 0
        BY <2>3
    <2>5. offset + 0 <= FileSize /\ (count > 0 => 0 < count)
        BY <1>0
    <2> QED BY <1>0, <2>1, <2>2, <2>3, <2>4, <2>5, ReadBlockKeeps
<1>3. CASE sendfile
    <2>1. ReadJob' /\ Positioned'
        BY <1>3, Zenon DEF sendfile, SendfileInv, ReadJob, Positioned, BlockRead, Ended, Active,
                    executor, file, block, args, sent
    <2>2. TypeOK' /\ Accounted' /\ SockWire'
        BY <1>3, ZenonT(30) DEF sendfile, SendfileInv, TypeOK, Accounted, Whole, SockWire,
                    ExecutorInv, file, block, args, sent
    <2> QED BY <2>1, <2>2, Zenon DEF SendfileInv
<1>4. CASE readinto \/ read_returned \/ sent_block \/ Flush \/ cancelled \/ break_off
    BY <1>4, ReadIntoKeeps, ReadReturnedKeeps, SentBlockKeeps, FlushKeeps, CancelledKeeps,
       BreakOffKeeps
<1>5. CASE UNCHANGED vars
    BY <1>5, CallUntouched DEF vars, executor, ExecutorInv
<1> QED BY <1>1, <1>2, <1>3, <1>4, <1>5 DEF Next, CallStep

\* The inductive invariant of a sendfile.
THEOREM SendfileInvariant == Spec => []SendfileInv
<1>1. Spec => []ExecutorInv
    BY UsesExecutor, ExecutorInvariant, PTL
<1> QED BY <1>1, SendfileInit, SendfileKeeps, PTL DEF Spec

\* sock_sendfile never has the next block read into the bytearray while the
\* kernel has not taken all of the last one.
THEOREM SockSendsFile == Spec => []SockSentInOrder
<1>1. SendfileInv => SockSentInOrder
    BY DEF SendfileInv, TypeOK, SockWire, SockSentInOrder, SentInOrder
<1> QED BY <1>1, SendfileInvariant, PTL

\* A call that returns counts all it should, and the kernel or the transport has
\* it unless the transport's connection broke; however a call ends it leaves the
\* file behind the blocks that were sent.
THEOREM SendfileLeaves == Spec => []LeftInOrder
<1>1. SendfileInv => LeftInOrder
    <2> SUFFICES ASSUME SendfileInv PROVE LeftInOrder
        OBVIOUS
    <2> USE SendfileConstants DEF SendfileInv
    <2>1. ASSUME pc = "returned" PROVE total = Min({FileSize - offset} \cup ({count} \ {0}))
        <3>1. /\ offset \in Nat /\ total \in Nat /\ count \in Nat
              /\ offset + total <= FileSize /\ (count > 0 => total <= count)
              /\ offset + total = FileSize \/ (count > 0 /\ total = count)
            BY <2>1 DEF TypeOK, Accounted, Positioned
        <3>2. CASE count = 0
            BY <3>1, <3>2, MinOfOne
        <3>3. CASE count # 0
            <4>1. {FileSize - offset} \cup ({count} \ {0}) = {FileSize - offset, count}
                BY <3>3
            <4> QED BY <3>1, <3>3, <4>1, MinOfTwo
        <3> QED BY <3>2, <3>3
    <2>2. pc = "returned" /\ (~broken \/ callee = "sock") => Len(wire) + Len(unsent) = total
        BY DEF Accounted, Whole
    <2>3. pc = "returned" \/ (pc \in Ended /\ total > 0) =>
              (stray \/ fpos = offset + total) /\ registered
        BY DEF Positioned, Accounted, Ended, TypeOK
    <2> QED BY <2>1, <2>2, <2>3 DEF LeftInOrder
<1> QED BY <1>1, SendfileInvariant, PTL
=============================================================================
